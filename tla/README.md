# A verification development for beagle-b4-recovery

The repository recovers a BeagleBoard rev B4: U-Boot patches and macros that flash its
NAND, images and an init script that do so from an SD card, a root file system with a
full-screen session ("kiosk"), a hard-float shim around a soft-float GPU driver, kernel
patches, and a set of C tools around the SGX GPU (a userspace presenter, a GL recorder and
replayer, benchmarks). The TLA+ modules beside this file model the parts of it that have
state worth asking about: several processes or threads, a device, a cut of power, a file
that another program reads later.

Contents: 1 inventory, 2 modules and the code, 3 runs, 4 fairness, 5 proofs, 6 where code
and documents disagree, 7 what is not modelled, 8 plan.

## 1. Inventory

Paths are relative to the repository. "Hard" is what a test would hardly reach.

| Component | State it keeps | Operations | Interacts with | Hard | Correct when |
|---|---|---|---|---|---|
| sgxmode presenter, `tools/sgxmode.c` | framebuffers, CRTC, flip in flight, mailbox of one frame, child, SIGCHLD pipe | set-up, one turn of the poll loop, teardown, park mode | dc_nohw (event ring), KMS (flips, vertical blank), the GLES application (its child) | the descriptors poll() has sampled and the events read later; a flip that fails; a child that exits at any step | frames are never shown out of order, at most one flip is queued, the newest frame is shown, the exit of the child ends it, the console comes back |
| kiosk session, `rootfs/devuan/kiosk`, `kiosk.init` | pid file, result file, session shell and its traps, process group of the running program, hotkey watcher, mode and number of the terminal | start, stop, the loop launcher/application, cleanup, the watcher | launcher and applications (processes), evdev hotkeys, VT | a stop at any line of the script; two starts; a program that ignores TERM; cleanup interrupted by a second TERM | one session in charge, the console back at its end, no leftovers of a program |
| hard-float shim loader, `tools/hf-shim-loader.c` | table of libraries, lock, once flag | sgxhf_dlsym(), ns_init() | generated veneers, dynamic linker, any thread of the application | a scan of the table without the lock while an entry is appended | a symbol comes from the library it was asked of; each library is loaded once |
| NAND flasher, `uboot/patches/0002-*.patch` | NAND blocks, environment variables filesize and c2, RAM | flashall, flashmlo, flashub, flashenv, flashrootfs | U-Boot's nand, fatload, setexpr; the operator | bad blocks between the two chunks; a cut between two blocks; word arithmetic on the file's size | a macro that ends well has left the image and nothing else; running it again helps |
| GL recorder and replayer, `tools/gl-record.c`, `tools/gl-replay.c` | the trace text and its data, maps from recorded to live names and uniform locations | one per GL call, END, one per line | an application, its driver, another driver later | names the driver uses again; tables that fill up; an application killed between text and data | the replay does to the same objects what the recording did |
| GL stream minimiser, `tools/gl-ddmin.py` | the operations kept, the granularity, the tests made, the file OUT | one test on the board, a reduction, a pass | the replayer on the board as an oracle | subsets whose size and number both change; a death in the middle of hours of search | what OUT holds has shown the defect; a search that ends has tried every single operation |
| GL stream variants and shader swaps, `tools/gl-stream-variant.py`, `gl-shader-swap.py` | none across runs | one rewriting of a stream | the replayer | | a rewritten stream can be replayed |
| GL call tracers, `tools/gl-trace.c`, `gl-fbo-trace.c`, `gles-oes-vao-stub.c` | totals and their copies at the last frame, the current framebuffer, counts by target | one handler per GL call | an application and its driver, between which they are preloaded | state copied from the context, over thousands of calls | a line says what the application did |
| GL reproducers and benchmarks: `tools/fbo-reentry-test.c`, `vbo-respec-repro.c`, `tri-inline.c`, `state-churn.c`, `tilerepro.c`, `sgx-window-swap.c`, `sgx-pbuffer-latency.c` | what their sequence of calls leaves in a context, over two dozen knobs | GL and EGL calls | a driver, the interposers | a draw that shows nothing because of a mistake of the program's own; a verdict that is not the driver's | a test passes exactly on a driver without the fault it looks for |
| KMS flip demo, `tools/kmsmode.c` | dumb buffers, saved CRTC, phase of the grating, `g_stop` | set-up, a page-flip loop or a still picture, teardown | KMS; other tools on the same card | a wait for a flip that times out; a tool started while another has the panel | the grating goes on phase by phase; the console comes back; nobody restores another tool's picture |
| KMS presenters of dc_nohw buffers, `tools/dc_nohw_kms_present.c`, `present_dc_nohw_buffer()` of `tools/sgx-window-swap.c` | an imported framebuffer, saved CRTC | import, show, hold, restore | dc_nohw, KMS; other tools | as above | as above |
| dc_nohw exporter tests, `tools/dc_nohw_export_test.c`, `dc_nohw_notify_dump.c` | none across calls | ioctl sequences | dc_nohw | | every import undone |
| SD writer of the recovery system, `flash/recovery-autoflash.sh` | the CI run it waits for, the files on the USB stick, the card | wait for the build, download, checksum, write, verify, unmount | GitHub's API, USB stick, card | new builds while it waits; TERM, whose trap unmounts and goes on; a command in front of a pipe that stops early | what is flashed comes from a run that succeeded and is checked before it is written; the wait ends |
| boot menu, `uboot/patches/0002-*.patch` | kernel and device tree in memory, bootargs, USB | autoboot, bootmmc, bootnand, bootusb, the shell | USER button, media | a script that fails half way leaves the two addresses and bootargs to the next | an entry boots its own kernel, device tree and arguments; the unattended entry comes to NAND |
| kernel patches, packaging, build scripts, Slint probes, CI | none that outlives a command, or in a driver that is not here | | | | |

How they interact: the boot menu starts the kernel whose root file system the flasher
wrote; the kiosk's session runs `sgxmode <application>` as its program; sgxmode consumes what
dc_nohw announces for the application; the application reaches the driver through the shim
loader; the recorder sits between an application and that driver, the replayer takes the
application's place, and the minimiser asks it again and again; the tracers sit where the recorder does, under the reproducers too.
The interfaces are narrow (an exit status, an event ring, a file), so each component is
modelled with its partners' side of the interface. Three compositions have a contract of their own and are one
module each: presenter with exporter, KMS and application (`Sgxmode`); display tools on one card (`KmsClients`);
program, interposer and driver (`GlStack`).

`PROJECT.json` lists every component with its files and every hazard with its line.

## 2. Modules and the code

### FrameMailbox, Sgxmode, SgxmodeProofs

`FrameMailbox` says what a presenter promises: frames are produced with increasing numbers,
what is shown is nothing or a frame that has been produced and never an earlier one than before, frames may
be skipped, and, if production stops while the presenter is up, the last one is shown in the end.

`Sgxmode` is `main()` of `tools/sgxmode.c` with its three partners. `pc` is where `main()`
stands. The set-up is one step per system call that may fail; one turn of the poll loop is
five steps, `Poll`, `ReapChild`, `ReadSwapEvents`, `ReadFlipEvents`, `PresentLatest`, so that
the application (`App*`, `Child*`), the vertical blank (`VBlank`) and the signal handler
interleave between `poll()` and the reads that trust its `revents`. `modeSet`,
`flipPending`, `haveNew`, `latest` are the locals of those names; `fbs` is the filled part
of `fb_id[]`; `events` is the exporter's ring as its file descriptor delivers it; `front` and `queued`
are KMS's. The sequence number of a frame is not in the code: it is what properties talk
about, the code's decisions use the index only. Each failing system call is an
alternative of its step, enabled by the constant `Faults`.

### Kiosk, KioskProofs

A session is a shell. A shell looks at pending signals between two commands, so each command of the script
is a step that requires no pending TERM (`Step`), and `Trap` takes a pending one; `wait` can be
interrupted (that is why the script backgrounds its program). TERM before the traps are set
kills the shell outright; TERM while `cleanup` runs exits from the EXIT trap, which is not run again
(`"cut"`). `client` are the shells that run `kiosk start` and `kiosk stop`, with a step
between test and use (`Running` is read twice, as in the code). `group` is the program's
process group: forked, in its group after `setsid`, without its leader, dead. `hasty` is set
by a start that comes while the session of an earlier one has not yet written its pid file;
`MaxHasty` bounds such starts.

### ShimLoader, MCShimLoader, ShimLoaderProofs

`sgxhf_dlsym()` is cut at every access to the table: `Scan` looks at one entry, `Take` reads
the handle, `Lock` .. `Unlock` is the slow path with its second look. An append has three
stores; `hidden` holds those that others do not see yet, `Show` makes one of them visible, and
`ordered` is the build: with it they appear in program order, without it in any order. Nothing
in the C source orders them for a reader without the lock (it is a data race), so both builds are
behaviours of the program.

### NandFlash, FlashProofs

The rootfs partition is a function from blocks to contents: a block of the image (its
number), or erased, old, torn, junk, or `Clash`, which is what comes of writing to a block
that is not erased. `erase`, and both `nand write`s, are one step per block, so that a failing command
(`Fault`) and a power cut (`PowerFails`) fall between any two blocks. Bad blocks are a set that
`Init` picks. `setexpr` is modulo `Word`, `fatload` is bounded by the RAM, and a macro's `&&`
chain stops at the first command that fails, while `flashall` joins its macros with `;` and goes on.
The other three partitions are written in one piece and have one value.
What U-Boot's commands do is not in the repository: it is modelled from how the macros use
them, and marked external.

### GlRecord, GlReplay, MCGlReplay, GlReplayProofs

`GlRecord` is the preloaded library: an action per kind of GL call (generating, deleting and
using names, uniform locations, data, draws, clears), `finish()` in its two flushes, the
library's destructor, and `Kill`, which leaves in the files whatever the C library had already written,
any number of whole lines and of bytes beyond the last flush. `GlReplay` extends it: when the
application is gone the replayer reads what is in the files, line by line. Its driver gives
any names and any uniform locations. `map`, `ul`, `curProg`, `firstFrame` are the
replayer's tables and variables; `mget` finds the *first* entry for a name, as the code's
loop does.

Objects have numbers, which neither program sees. Each line carries beside its printed
arguments what the call meant (`means`), and the replayer's last call has its meaning on its
own driver (`did`): the properties compare the two.

### KmsClients, KmsClientsProofs

The three tools that show something through raw KMS and give the panel back are one order of
calls (`Following`), so they are one module: `program` says which tool each process runs. Any two
of them may be started on one card. A refused SET_MASTER is only a warning in all three, and
GETCRTC saves whatever is on the panel, so the interesting behaviour is between processes: who is
master, whose framebuffer is scanned out, what will be restored. The restore itself may fail too; none of
the tools stops then, and `unrestored` remembers it. DRM's side is `MaySetCrtc`,
`KernelClose` (what closing a file undoes) and `VBlank`. kmsmode's loop is one step per system
call: the clock (`Loop`), PAGE_FLIP, `poll()` ready or timed out, `read()`.

### AutoFlash, FlashProofs

`recovery-autoflash.sh`, a step per command that matters, under `set -e` without `pipefail`: `Die` and
a failing command end it through the EXIT trap, a failing xz does not. Each poll fetches run, status and
conclusion in one answer; `CiStep` ends runs and begins new ones between polls. `Term` is the trap: it
unmounts the stick, and the script goes on with files that are no longer there. `files` says whether the
download is on the stick or, after an unmount, in the mount point's tmpfs.

### GlContext, GlTracers, GlStack, GlPrograms, GlPaths, MCGlStack, GlProofs

A drawing program is the sequence of calls its source makes for given knobs (the environment variables and
arguments it reads): `GlPrograms` has an operator per function of the source that issues calls, from `FboReentry`
to `PbufferLatency`, and `Code(app)` is the whole sequence. `GlStack` runs a program call by call through what
is preloaded and into the context of `GlContext`; an EGL call may fail, and the program exits or goes on as its source
does. `GlTracers` is the state of the two tracers, a record each, and an operator per handler.

`GlContext` is external: no driver is in the repository. A target's picture is a colour per cell and half, which is
as much as the tests read back; a vertex buffer is its size in bytes and the shapes in it, each at its first
vertex, so that a draw past its end or at the wrong offset differs from a right one. `driver` is sound or has one of the faults the
tests and `docs/powervr-sgx-driver-bugs.md` name. What is preloaded (`preload`) is nothing, either tracer, the frame tracer with `GLFBO_FINISH`
(`"finish"`) or `GLFBO_NULLTEX` (`"nulltex"`), the vertex-array stub with or without its detach override (`"stub"`, `"real_detach"`).
`work`, `truth`, `drawn` count beside the tracers what the program really did.

`GlPaths` says which knobs each program may be given (`FboKnobs` to `PbufferKnobs`: natural or integer numbers where the source uses `atoi()`,
either value of a switch), and what a sequence of calls does, if none fails, to the part of the context that no driver can influence: what is
bound, attached, current, filled, linked and still being rendered, and not what an image shows (`After`, `Path`). `ProgramsAssumption` is that every
application's code is one of the seven programs with such knobs, or a free sequence that destroys nothing. Left out are
negative counts where a count sizes what is made, no tiles at all in `vbo-respec-repro.c` (`N=0`), and no segments in a corner of the tile reproducer, where
the source divides by their number.

### TraceReduce, TraceReduceProofs

`ddmin()` of `gl-ddmin.py` with the test of the input before it and the write of OUT after it. A candidate is the
sequence of its removable operations; the rest of the stream is in every candidate and is left out. Nothing
is assumed of the board, which may answer anything and differently the next time: `yes` and `no` are the candidates that
have reproduced the defect and those that have not. `Die` is Ctrl-C or an ssh that hangs for 240 s, at any step,
also between `open()` and the end of `write()` (`Torn`).

### UBootMenu, FlashProofs

`autoboot` and the scripts of the menu, a step per command. The kernel's and the device tree's addresses, `bootargs` and the USB
controllers are shared by the scripts. Every command may fail, a load that does may leave the beginning of a file, and
`Fails` says where a failure leads: out of bootmmc and bootusb, whose commands are joined by `&&`, but to `bootz` in bootnand,
whose last `;` is outside the chain.

## 3. Runs

Every bound is a constant in the `.cfg`; an action that a bound stops has it as a guard.
`CHECK_DEADLOCK FALSE` is used where the program ends, or where a bound stops everybody.

| Run | Question | Bounds, and why they are enough |
|---|---|---|
| sgxmode_present | flips paced, scanout owned, no idle frame; implements `FrameMailbox` with its liveness, ends after its child, panel never dark | 2 slots and `buffer_count` 0..3 (too few, fits, too many); batches of 2 events against 3 swaps plus chain events, so a batch is overrun; one failing flip; 2 unread signals; every kind of system call may fail but SETCRTC under master (then the last frame may never be shown) |
| kiosk_session | the session in its loop is alone, named by the pid file, on its terminal; console back after a complete cleanup; no leftovers of a process group; stop and hotkey work | two clients, four commands, two sessions, two overlapping starts: start, stop, start, stop with the second start overlapping the first cleanup, and two sessions at once |
| kiosk_console | violation, section 6 | as kiosk_session |
| shim_calls | own library, one load, no null read, preloaded ones right in any build, every call returns | two threads, three calls, five libraries of which two are preloaded, four slots: the table fills up, two threads miss the same library, one scans while the other appends |
| shim_published | violation, section 6 | as shim_calls |
| nand_flash | writes within the partition, chunks apart, a macro that ended well has done its work, running again heals | 6 blocks, chunks at 0 and 3 with a gap of one block, images of 1, 4 and 5 blocks (shorter than the first chunk, fitting, larger than RAM allows), up to 2 bad blocks anywhere (so also more than the gap has), 2 faults |
| gl_replay | same objects, targets, data and frames; one END | recordings of up to 6 lines and 3 objects with two names, so names are used again; two uniforms permuted by the driver; two kinds of application (`Mixes`), one that sets uniforms and one that draws frames, to keep the calls of a recording relevant to each other; 2 frames |
| kms_card | panel is the master's, the console is what is restored, no dark gap, phases in order, Ctrl-C ends | two processes running any of the tools, each step whose failure the code can tell failing, the restoring SETCRTC included, killed or interrupted (RMFB and DROP_MASTER, whose results nobody uses, do not fail); 1, 2 or 3 buffers; one `poll()` time-out, which suffices for a flip requested twice |
| autoflash | wait bounded, right run flashed, written after the checks only, no false success but by an early xz | three runs and three polls, so that a run ends and a newer one begins between polls and the deadline is met; TERM anywhere |
| gl_programs | draws ready, verdicts true, nothing destroyed under the GPU, reports true | seven programs, one family of knobs varied at a time, with counts at their edges: no layers, 2, 9 (more vertices than the default buffer) and 10 (more layers than the window has cells), one or two frames, up to two cycles; a free program of up to four calls that bind, delete, clear and draw, which is how a bound framebuffer gets deleted and how a glDrawElements meets gl-fbo-trace; three faulty drivers and a sound one; nothing or one of six interposers; every EGL call may fail, those the programs do not look at included: the releases at `fbo-reentry-test.c:422`, `vbo-respec-repro.c:382` and `sgx-window-swap.c:799`, after which the program goes on with its context still current (`kept`) |
| trace_reduce | OUT reproduces, one-minimal, tests bounded | 5 removable operations: passes with subsets of two and of one, a last subset that is shorter, and restarts after a reduction; the worst search makes 23 tests; limits of 0, 3 (cuts a pass) and 60 (cuts nothing) |
| uboot_menu | an entry boots its own, NAND is tried in the end | none needed: the state is finite; any order and number of entries, any command failing, any subset of kernels refused |

Properties, by what could go wrong:

* Presenter. `FlipPacing`: `flip_pending` is set exactly while a flip is queued or its event
  unread, although it is cleared on what `poll()` said before. `ScanoutOwned`: no index from the
  exporter reaches a framebuffer that was not imported. `NoIdleFrame`: no lost wake-up.
  `NeverDark`: order of the teardown. `ExitFollowsChild`; `ImplementsMailbox`.
* Kiosk. `SessionInCharge`, `ConsoleBack`, `GroupGone`, `StopEnds`, `HotkeyReturns`.
* Shim. `AnswersOwn`: a preloaded library answers for itself in any build, any library does in a build that keeps the order
  of stores, where no scan meets an entry without a name either. `LoadedOnce` (any build); `CallsReturn`; `TypeOK`: no
  slot past the table.
* Flasher. `TypeOK`: no write past the partition. `HalvesApart` (as long as the bad blocks before the second chunk fit in the gap),
  `OkMeansDone`, `RerunHeals`.
* Recorder and replayer. `FramesRecorded` (frames are counted and marked, END is last), `SameObjects`, `SameTargets`,
  `DataIntact`; `TypeOK`: no slot past the two tables.
* Display tools. `PanelIsMasters`, `SavedIsConsole`: what two tools may do to each other.
  `ConsoleKept`: the order of the teardown, with a flip still queued; dark only after a kill, with nothing to restore, or after a
  restore that failed. `PhasesInOrder`: a late event
  after a time-out neither skips nor repeats wrongly. `StopEnds`.
* SD writer. `SuccessIsRight`: success means a build that succeeded and, unless xz stopped early, all of it on the card.
  `WaitEnds`.
* Drawing programs. `DrawsReady`: no draw is lost by a mistake of the program's own. `VerdictTrue`: a test prints
  PASS exactly on a driver that does not have the fault it tests for, or has it taken away by the interposer made for this.
  `QuietTeardown`: nothing is destroyed that is still being rendered or, unless the release itself failed, that is current.
  `ReportsTrue`: the tracers' counts against a count of *every* draw and frame: equal, but for two blind spots of gl-fbo-trace, and there
  wrong by exactly what falls into them (`missed`).
* Minimiser. `OutReproduces`, `OneMinimal` (with at least two operations left), `FewTests`: not more than 1 + n^2, against any board.
* Boot menu. `BootsItsOwn`, `FallsBack`.

The type invariants of Sgxmode, Kiosk, KmsClients, AutoFlash, GlStack and TraceReduce are not in their runs: they are proved
(section 5).

Each property of a passing run is paired in `PROJECT.json` with a mutated definition (named
`<definition>_<what is wrong>` in its module) under which the run fails. The unmutated
modules never use those definitions.

## 4. Fairness

* `Sgxmode`: weak fairness of `main()`'s next step (`poll()` has a time limit, every other call
  returns) and of the vertical blank. Nothing is asked of the application: it need not swap, exit
  or be scheduled.
* `Kiosk`: weak fairness of the session's script, of `setsid` and of the watcher's `kill -KILL` after
  five seconds. Programs and clients owe nothing; a program may ignore TERM for ever.
* `ShimLoader`: weak fairness of every thread's step and of stores becoming visible. The mutex is not
  assumed fair; calls are finitely many, so a waiter is passed over finitely often.
* `NandFlash`: weak fairness of U-Boot's next command and of powering on, strong fairness of
  `run flashall`, which is the operator following `flash/FLASHING.md:59`: whenever the prompt comes back
  he may run another macro, but again and again he runs flashall.
* `GlReplay`, `GlStack`, `TraceReduce`: no liveness is claimed.
* `UBootMenu`: weak fairness of the commands of a script. The user owes nothing, and may stay in the menu or the shell for ever.
* `KmsClients`: weak fairness of the vertical blank and of every started tool's next step. The time of an
  animation need not be over, and nobody has to start a tool.
* `AutoFlash`: weak fairness of the script's next command. GitHub owes nothing: a build may run for ever.

## 5. Proofs

Proved for every value of the constants, from the assumptions named in each module.

**SgxmodeProofs.** From `SgxmodeAssumption`: `TypeCorrect`, `FlipsArePaced`,
`ScanoutIsOwned`, `NoFrameIdles`, `PanelNeverDark`, and `MailboxSafety` (`Spec =>
Mailbox!Spec`: every step is a mailbox step or a stutter). None of them is inductive. The invariant `IInv` adds: framebuffers are
exactly the imported prefix and the count fits the arrays (`SizeInv`); nothing is pending outside
the loop (`IdleInv`); what `revents` claims is still true when it is used, because only `main()`
itself consumes (`SnapshotInv`: this is what makes clearing `flip_pending` from a stale snapshot
correct); the frame shown, the one queued, the mailbox and the events are in order of their numbers (`OrderInv`,
from which the refinement follows); and where the panel is in the teardown (`PanelInv`).

**ShimLoaderProofs.** From the two assumptions: `TypeCorrect`, `LibrariesLoadOnce`, and `AnswersAreOwn`, which joins
`PreloadedAnswerForThemselves`, `AnswersFromOwnLibrary` and `ScansCompleteEntries`. The strengthening
says who may be in `ns_init()` (one thread, while the once flag runs), who holds the lock at
which step, that the table without the append under way has complete, distinct entries, what
the append under way lacks (`hidden`), that in an ordered build an entry is counted last, and that the preloaded
entries are the table's beginning for ever once they are there. The last one is why the veneers are safe in any
build: their libraries are never appended by the racy path.

**FlashProofs** has the three modules that bring a system onto the board and start it; each has its own specification.

* `NandFlash`, from `NandFlashAssumption`: `TypeCorrect`, `ChunksApart`, `OkIsDone`. The argument
  is by counting: after k blocks of a chunk that began at block f, `k` is `pos - f` less the bad blocks
  passed (`Counted`), the chunk's blocks are on the good blocks from f in order, and everything from `pos` on
  is erased (`Clear`). Under `FewBad`, the first chunk ends at or before the second's beginning, so the second
  meets erased blocks only. `RInv` carries this through each command (`Commands`, `ChunkSize`, `Copied`, `OkMeansDone`).
* `UBootMenu`, which has no constants: `MenuBootsItsOwn`. `Loaded` says at which commands of a script the kernel, the device tree
  and the USB controllers are already its own; it does so for bootmmc and bootusb only, because in bootnand a failing chain still comes to `bootz`,
  and of bootnand only the `bootargs` are asked.
* `AutoFlash`, from `AutoFlashAssumption`: `ImageTypeCorrect`, `SuccessIsSound`. There is a newest build once one has begun
  (`NewestInv`), the run chosen stays one that exists (`ChosenInv`), and xz has read the image to its end only where dd has then
  written all of it (`WrittenInv`).

**KioskProofs.** From `KioskAssumption` (the bounds are natural numbers, and not more hasty starts are counted than
commands): `TypeCorrect`, `SessionHasCharge`, `ConsoleComesBack`, `GroupIsGone`. The invariant accounts for what is left over: at which
steps a session's group may be alive and known (`GroupInv`), who has the terminal in graphics mode or active (`TextInv`, `ActiveInv`: a starting
client, or a session that has not come to the command which gives it back, or was cut), whose the pid file is (`PidInv`),
and, while no start was hasty, that there is one owner in all, a client between its test and its fork or a session (`OwnerInv`).

**KmsClientsProofs.** From `KmsAssumption`: `TypeCorrect`, `PanelBelongsToMaster`, `ConsoleIsSaved`, `PanelStaysLit`,
`GratingInOrder`; the last two are about steps. The invariant says at which steps a tool has nothing on the panel (`AwayInv`), nothing saved or
shown yet (`FreshInv`), that a picture outlives the restore only if there was nothing to restore or the restore failed (`RestoredInv`), and how far the picture
shown and the one queued may be from the phase (`PacedInv`).

**GlReplayProofs.** From `GlRecordAssumption` and `GlReplayAssumption`, so for any application, any two drivers and any place of a kill:
`RecordingTyped` (no slot past the replayer's tables), `FramesAreTheApplications`, `ObjectsAreTheSame`, `TargetsAreTheSame`,
`DataIsIntact`. The replayer knows nothing of the application but the text, so the heart of the invariant is what a text tells.
`TextOK(t, F, P)` says that F and P give a framebuffer bound and a program in use before each line, such that each line is one the
application could print then: an object that is made has a new number, one that is used was made before under the name printed and not deleted, a uniform that is set was
asked for, a draw means what is bound. A line is judged by the lines *before* it only (`FitsBefore`), which is what makes it survive a kill: any
whole number of lines is a text again (`CutOK`). While it is recorded the text agrees with the driver (`Known`, `Newest`, `Marked`,
`Current`) and with the data flushed (`DataInv`); `RecordKeeps` shows this, one lemma for each kind of call.

While the text is replayed, the invariant says for each line `at` what the tables are. Where no name was given twice and the tables are large enough
(`Mappable`), a map has as many entries as objects were made (`MapOf`), no two of one name, and the entry of an object not yet deleted leads
to the live object with its number, so that the *first* entry `mget()` finds is the only one; ul[] has one slot per program and one location
per uniform asked for (`SlotInv`); what is bound and in use is what F and P say (`BoundInv`). Counting entries is what shows that no table is
full when a line needs a place in it. The properties follow line by line (`Follows`, `DidInv`). TLC has checked the whole invariant on the instance of
`gl_replay` before. One lemma had no proof at first because the model let a name that is None be any live object; it was the model that was
wrong (`LiveObject` now has None in one case only).

**GlProofs.** `StackTyped` and `TracersTell` hold for *any* programs, as sequences of calls of the form `StackAssumption` asks for, and any context: what the driver
does to a picture does not matter to the interposers. The invariant says that each total is what was printed at the last
frame plus what was called since (`Balance`), that gl-fbo-trace's target is the context's until the bound framebuffer is deleted, and that its sums, what is counted for the open frame included,
are `drawn` corrected by `missed` (`Mirrored`). `VboReadsWithin` and `TileDrawsWithin` are arithmetic: for any number of tiles, sizes and
roundness the buffers of the two reproducers hold what is drawn from them, which `gl_programs` checks for a few.

`ProgramsDrawReady`, `ProgramsTeardown` and `ProgramsSeeVerdicts` (`Spec => []DrawsReady`, `[]QuietTeardown`, `[]VerdictSeen`) use `ProgramsAssumption` besides, so they hold for *every* value of
the knobs, any number of tiles, layers, cycles and frames, any driver and any interposer. There are two halves.

* The programs. `Takes(s, P, Q, a)` says of the calls s that from any state in P each of them is `Proper` where it is issued
  and the last leads into Q. There is a rule for each kind of call (`UseTakes` to `SubDataTakes`), one for a concatenation and one for a loop, whose
  invariant is a set of states per turn; it is proved from the well-foundedness of the natural numbers (`CountUp`: a least counterexample, and none exists),
  because a rule of induction with an operator for its parameter cannot be used. The sets are products (`States`: what each field may be), a
  phase of a program is one of them (`Frame`, `Baking`, ...), and `FboKept` to `PbufferKept` put the seven programs together. `Proper` is what
  the three invariants ask, and what the second half needs: a program that goes on after a failed `eglMakeCurrent()` does not make another
  context current, no surface is destroyed while it is bound as a texture, no call is issued before a context is current, and so on.
* The context. While the program runs, the context of `GlContext` agrees with the path at the call that comes next (`Same`), or it has no context because
  the program goes on without one (`Apart`), in which case no call reaches the driver, or it still has the one that a failed release did not take (`Loose`): then only `current` and the surface
differ from the path, and the calls left are not drawing (`kept` is why `QuietTeardown` says nothing of what is current then). Each operator of `GlContext` keeps this, whatever its driver does to pictures,
  whatever is preloaded, and whichever EGL call fails. What is ready on the path is then ready in the context.

`VerdictSeen` is the half of `VerdictTrue` that is about failing calls: a test that has read a pixel and prints PASS has a current context. fbo-reentry-test.c does not check
its `eglMakeCurrent()`; what it reads is then black, which no check asks for (`Judges`), and only a *successful* call can change what is current (`Steady`), so
no later call can turn the test to PASS (`Seeing`, `PassFalls`).

Finding the sets of the phases is where a mistake of a program would have shown: the exceptions of `DrawsReady` and `QuietTeardown` in section 6 (late uniforms, a burst of no layers, a failed release) are those that
stand in the definitions, and no other was needed for any knob.

**TraceReduceProofs.** From `TraceReduceAssumption`: `TypeCorrect`, `OutIsConfirmed`, `SearchIsMinimal`. The stream kept has reproduced
(`KeepInv`); within a pass over single operations those before `at` have been tried on the *present* stream (`TriedInv`), because a reduction starts
the pass again; so a pass that comes to its end, not cut short, has tried all (`GrowInv`, `WriteInv`).
`SearchIsShort` is `FewTests` for every number of operations and every limit. A refused pass doubles the granularity; a
reduction takes operations away *and* lowers it by one, after which the pass starts again. `Phi` of the length and the granularity is twice what may still be tested, and the
invariant is that the tests made and `Phi` stay within `2 + 2 * Ops^2` (`Spent(k)`: k tests of a pass refused so far are paid when it ends or when it
finds a reduction). A pass of k refusals and a reduction lowers `Phi` by 2(k + 1) (`ReduceCost`), a refused pass by twice its subsets
(`FailCost`); both are inequalities about a quotient (`Division`), and the case of subsets of two, where two operations go at
once, is the one in which the reduction just suffices.

**Only model-checked:** `VerdictTrue`, of the invariants. It says what colours a program reads back under each faulty driver, so its proof
would have to follow the contents of every picture through each program, driver and interposer, while the other properties of the programs
need what is bound and filled only; `gl_programs` does it for the knobs of its instance. Its half about failing calls, `VerdictSeen`, is proved. All liveness (`ExitFollowsChild`, the fair part of `ImplementsMailbox`, both `StopEnds`, `HotkeyReturns`, `CallsReturn`,
`RerunHeals`, `WaitEnds`, `FallsBack`): leads-to under fairness is beyond the prover used. Every other property of section 3 is a theorem.

For eight of the liveness properties the safe half is proved, which is where the code could be wrong: a number that each step of the program lowers
and that no step of anybody else raises. What is left to TLC is that the next step can be taken.

* `ExitIsShort` (`ExitFollowsChild`): when the child has exited, nine steps end the presenter. It needs `ExitIsNoticed`: as long as
  `main()` is in its loop, a child that has exited means a byte in the pipe. A SIGCHLD after `poll()` costs one more turn of the loop and is not lost;
  one that comes while the pipe is drained is covered, because `waitpid()` is called after any byte.
* `StopIsShort` of the kiosk (`StopEnds`): a session with TERM pending, or in its cleanup, has seven commands left at the most; a second stop
  shortens it and none sets it back.
* `HotkeyIsShort` (`HotkeyReturns`): once the watcher has sent TERM, four steps of it and of the script bring the session to the launcher or into its cleanup with
  the group gone. `WatchInv` says where a session with a watcher can be, and that the group it is to end is the application's.
* `StopIsShort` of the display tools (`StopEnds`): after Ctrl-C a tool makes eight steps of its own at the most, one flip among them;
  other tools, signals and vertical blanks do not set it back.
* `CallsAreShort` (`CallsReturn`): a call of `sgxhf_dlsym()` makes `2 * MAX_LIBS + 9` steps of its own at the most, although other threads
  append to the table it scans.
* `RerunPasses` (`RerunHeals`): when the image can be flashed, a macro ends badly only by a failing command or a power cut. No `fatload` finds its RAM too small and
  no `nand write` too few good blocks (`RoomInv`), whatever earlier runs have left; each command brings flashall nearer to its end,
  and a macro that ends has ended well and is followed by the next, so that the run after the last fault ends with all four done.
* `ScriptIsShort` (`WaitEnds`): `recovery-autoflash.sh` makes `MaxPolls + 9` commands at the most, whatever GitHub does.
* `MenuComesToNand` (`FallsBack`): each command brings a script of the menu nearer to its end, and the SD entry does not come back to the
  menu before NAND's `bootz`.

## 6. Where code and documents disagree

Two have a run that finds them, and an entry under "findings" with both lines.

* `kiosk_console`: `kiosk stop` is said to return to the text console (`kiosk:4-5`). A stop before the traps are set, or a
  second one during cleanup, leaves the terminal in graphics mode.
* `shim_published`: "resolve each symbol against the specific DDK library that exports it"
  (`hf-shim-loader.c:16-17`). The unlocked scan may see an entry's name and not yet its handle; `dlsym(NULL, ...)` then searches the application's own
  libraries.

Others are the exception in a property that holds; without the exception TLC finds the disagreement.

* `RerunHeals` needs an image not smaller than the first chunk, while the split "adapts automatically if the rootfs grows or shrinks"
  (`flash/FLASHING.md:69-71`): `setexpr` wraps, and the first write copies RAM that no `fatload` has filled. `HalvesApart` needs `FewBad`,
  while `FLASHING.md:69` calls the gap larger than any skip.
* `SameObjects` needs a recording's driver that gives no name twice, while the replayer "replays every recorded call with object ids
  remapped" (`gl-replay.c:4-5`): `mget()` finds the first entry of a name, and DEL* removes none. `FramesRecorded` needs that the bound framebuffer
  is not deleted, because the recorder keeps its name as the current one.
* `SuccessIsRight` says nothing of the card when xz stopped early, while `VERIFY=full` is a "full read-back compare"
  (`recovery-autoflash.sh:17`): cmp compares as much as xz delivers, and its "EOF on -" is the answer line 142 expects. A TERM before
  line 59 leaves the stick mounted, one after it unmounts it and goes on.
* `OneMinimal` needs two operations left, while the minimiser works "until it is 1-minimal" (`gl-ddmin.py:2`): line 91 ends the search
  with one left, without trying the stream that has none.
* `BootsItsOwn` does not ask of bootnand that USB is stopped, while "`usb stop` precedes each `bootz`" (`README.md:232-233`): it ends a
  chain of `&&` behind which `bootz` follows a semicolon, and that `bootz` starts whatever earlier entries have left in memory.
* `DrawsReady` leaves out tri-inline with `STF_REBIND` and without `STF_UNIF`: its uniforms are set while no program is current.
* `VerdictTrue` needs a pixel read: `FBO_ONLY=9` and `FBO_N=0` run no check and print `RESULT: PASS`. `QuietTeardown` leaves out `FBO_N=0`, which
  destroys a surface that was cleared and swapped and never waited for.
* `QuietTeardown` lets a context and a surface be destroyed while current if the release failed: `fbo-reentry-test.c:422` and
  `sgx-window-swap.c:799` do not look, and lines 423 and 818 destroy them all the same. EGL then defers the destruction.
* `ConsoleKept` lets the panel go dark if the restoring SETCRTC fails: `kmsmode.c:368` and `dc_nohw_kms_present.c:235` print it,
  `sgx-window-swap.c:424` does not even look, and all three go on to RMFB of the buffer that is scanned out. The panel stays dark until the last
  file of the card is closed, while sgx-window-swap reports `clean exit`.
* `ReportsTrue` says by how much `gl-fbo-trace.c` is wrong, not that it is never wrong. It wraps no glDrawElements (lines 236-245 are glDrawArrays
  only), so those draws are in no sum; and once the bound framebuffer is deleted `cur_fb` stays (lines 133-136), so draws on the screen are told as if
  they went to the framebuffer, frames are not counted, and `GLFBO_FINISH` misses that switch of target.

Seen while reading, outside the models: the presentation plan (`docs/ddk16-dcnohw-presentation-plan.md:885`) has the presenter release the panel on
SWAPCHAIN_DESTROY, while the code reads the event and drops it (`sgxmode.c:248`); two starts before the pid file is written begin two sessions
(`kiosk:118, 152`), which `hasty` separates; after a failed `pipe()` the presenter never notices its child's exit (`sgxmode.c:207`), which
`ExitFollowsChild` excepts; `gl-trace.c:15` names variables GLTRACE_FROM and GLTRACE_TO that are never read; `vbo-respec-repro.c` sets out to show
the defect by reallocating buffers and detaches no shader, which is its cause according to `docs/powervr-sgx-driver-bugs.md`
(`REPRO_FRAMES=0` reads a layer instead of the window); the buffer column of `sgx-pbuffer-latency.c` alternates with `SGX_REBIND_ATTACHMENT=0` although the
attachment does not.

## 7. What is not modelled, and why

* Presenter: contents of buffers; the 4.x driver's own behaviour beyond the event ring and the KMS calls; a buffer drawn into while
  scanned out (the plan's document describes it as accepted). In the run SETCRTC does not fail under master.
* Kiosk: the clock (sleeps are steps; `setsid` is assumed to run within two seconds), pids that are used again (a pid file left by a session
  that died without cleanup names whatever process got its number), failures of `chvt` and of the mode setter, the launcher's interface.
* Shim: failure of `strdup()` after a library is loaded, the generator of veneers, argument conversion.
* Flasher: blocks going bad during a write, dropped trailing 0xFF pages, ECC; the other three partitions block by block.
* Replayer: its experiments by environment variable (drop, stop, repeat, sync, client arrays, re-attachment,
  thrashing), calls with more than 64 names, torn lines, relinked programs (locations are fixed when a program is made), location -1, deletion of the program in use.
* Display tools: drawing, mode lines, printed rates; `read()`, RMFB and DROP_MASTER do not fail (the latter two when the panel or the master is the tool's).
* SD writer: the look-up of the token, the final reboot; INT, which is a failing command followed by the trap; a card with
  the wrong image's signatures is `signed` by choice.
* Tracers: the log of single calls and its cap, the counts of names generated and deleted, `check_error()`, totals beyond 32 bits, two tracers
  preloaded together.
* Drawing programs: time, shaders' text, coordinates within a cell, the visual variants of a knob that issue the same calls
  (`FBO_WINDOW`); an incomplete framebuffer in `sgx-pbuffer-latency.c`.
  `nanovg-demo.c`, `sgx-render-test.c` and `pvr2d-latency.c` draw with libraries that are not here, or with calls the others have too.
* Minimiser: which operations are removable (a regular expression), the variant generator it calls, `sweep.sh` on the board.
* Boot menu: the delay, what is typed in the shell, the flash macros (in NandFlash).
* Whole components: see the table in section 1 and the notes in `PROJECT.json`. Packaging, image
  building and CI are single passes of commands without state; kernel patches are changes of a few lines to
  drivers that are not here; the variant generators rewrite a file once.

## 8. Plan

Done: all modules of section 2 and the proofs of section 5, with which every invariant and action property of the runs but `VerdictTrue` is a theorem.
What is left, in order of importance:

1. `VerdictTrue` for all knobs: the paths of `GlPaths` with the contents of the pictures.
2. The rewriting of streams (`gl-stream-variant.py`) against what the replayer of `GlReplay` can read.
3. `HfVeneer`: the generator of the veneers (`gen-hf-shim.py`) as the map of argument registers between the two calling
   conventions, checked over all short signatures.

Composition: sgxmode under kiosk is covered by its contract (a program that exits or ignores TERM). The display tools share one card, and so one module.
