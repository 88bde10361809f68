# A TLA+ model of MetaOS recovery and radio

MetaOS is a small Android-derived tree with two programs of interest: the
recovery system (`src/bootable/recovery`), which erases partitions and installs
OTA packages and must survive power losses, and the radio interface layer
(`src/hardware/ril`), a daemon whose event loop and vendor threads share one
client connection. This directory holds TLA+ models of their control, TLC
configurations that check them on small instances, and TLAPS proofs.

| Part of the system | Modules | Model checking | Proofs |
|---|---|---|---|
| Recovery, bootloader control block (BCB), menu, development server | `Recovery` | `MCRecovery` | `RecoveryProofs` |
| applypatch, space on /cache | `ApplyPatch` | `MCApplyPatch` | `ApplyPatchProofs` |
| Package installation, update binary, script language, raw flash, `flash_image` | `Updater`, `Edify`, `EdifyReadme`, `Mtd` | `MCUpdater` | `MtdProofs`, `UpdaterProofs` |
| libril command channel, NITZ times, debug port | `Ril` | `MCRil` | `RilProofs` |
| libril event loop, timed callbacks, wake lock | `RilEvent`, `EventQueue` | `MCRilEvent` | `RilEventSteps`, `RilEventProofs` |
| Interface of `ril.h`, libril's marshalling, AT channel, vendor library | `RilContract`, `RilMarshal`, `AtChannel`, `ReferenceRil` | `MCReferenceRil` | `ReferenceRilProofs` |

To repeat a run: `tlc -config MCRil.cfg MCRil`. To repeat a proof: `tlapm RilProofs.tla`.

## 1. Inventory

### Recovery (`bootable/recovery`)

- **`recovery.c`, `bootloader.c`.** Persistent state: the BCB on MISC, the files
  `/cache/recovery/{command,intent,log}`. `get_args()` merges command line, BCB and
  command file and writes the result back to the BCB. `main()` erases, installs, or
  starts the socket server; `finish_recovery()` writes the intent, clears the BCB and
  unlinks the command file; `prompt_and_wait()` is the menu. Hard: power may go at
  every step, results of `set_bootloader_message()` are ignored, and the input thread
  hides and shows the text while the menu reads it.
  Correct: interrupted work restarts, finished work does not, recovery ends.
- **`install.c`.** `install_package()` extracts the update binary, forks it, and reads
  its progress and commands from a pipe.
- **`socket_server.c`.** A thread that takes INSTALL, REBOOT, animation and print
  commands while `main()` is at its menu.
- **`ui.c`, `minui/`, `default_recovery_ui.c`.** Key queue, progress thread and text
  buffer behind two mutexes; drawing and device input; the menu items.
- **`roots.c`, `mtdutils/`.** Named roots, mounting, formatting; block-wise reading,
  writing and erasing of flash with bad blocks. A write erases the block first.
- **`applypatch/`.** `applypatch()` patches one file or partition, through one shared
  backup file CACHE_TEMP_SOURCE; `freecache.c` makes room on /cache;
  `bspatch.c`, `imgpatch.c` compute the output; `bsdiff.c`, `imgdiff.c` are host tools.
  Hard: low space, power losses and errors between backup, unlink, rename and cleanup,
  and a script that is run again from its beginning.
  Correct: data to patch from is never lost, success is real.
- **`updater/`, `edify/`.** The update binary: an evaluator of the script language and
  its functions (mount, format, delete, extract, patch, write image).
- **`minzip/`.** Zip reading, directory helpers, a hash table with tombstones.
- **`verifier.c`.** Package signatures; not called in this tree (`install.c:281`).
- **`tools/ota/`.** Host-side helpers.

### Radio (`hardware/ril`)

- **`libril/ril.cpp`.** One client at a time on the command socket; a list of pending
  requests under `s_pendingRequestsMutex`; responses written by any thread under
  `s_writeMutex`; one kept NITZ time; a debug port; a wake lock with a timer.
  Hard: vendor threads complete requests while the loop closes one connection and
  accepts the next. Correct: assertions hold, no request is inherited or answered
  twice, messages are whole, clients are accepted again.
- **`libril/ril_event.cpp`.** A `select()` loop: watch table of eight, timer list,
  pending list, `listMutex`, and a wake-up pipe for other threads.
- **`reference-ril/`.** `atchannel.c`: one pending AT command, its condition variable,
  a reader thread, timeouts. `reference-ril.c`: the requests and the radio state.
  Hard: requests, timed callbacks, the reader thread and the thread that reopens the
  channel share the radio state, and every answer comes from the modem. Correct: one
  completion of the declared shape per request, answers credited to their commands, the
  SIM polled until it is ready, closed channels reopened.
- **`ril-reader/`.** A variant of the reference library.
- **`rild/`.** Start-up, `radiooptions`. **`reference-cdma-sms/`.** Stubs of a codec.
  **`include/telephony/`.** The interface between libril and a vendor library.

`build/` and `out/` hold makefiles and build products, without program state.

`PROJECT.json` lists the hazards of this code, each at its line, with the property
that covers it or the reason why none does.

## 2. The modules

### Recovery

`pc` is where the device is: off, in the main system, or at a label of `main()` and
the functions it calls; `opRet`, `finRet`, `miscRet` and `promptRet` are the return
addresses of the four functions called from several places. `bcb`, `cmdFile`,
`package`, `intent` and `image` persist; a power loss resets the rest. Options are a
set, because only their presence matters. A rewrite of the BCB is two actions,
`MiscErase` and `MiscWrite`, as `write_block()` erases before it writes.

Two history variables keep promises apart. `owner` says for whom a partition was last
changed: the header of `recovery.c` promises restarts for commanded work, not for work
chosen at the menu or over the socket. `wipeOwed` says that a factory reset was asked
for and not done. `Clean` is the premise that no I/O error happened and no BCB rewrite
was torn.

The menu is modelled as the constants in the code make it: item 3 ("run update
script") is `ITEM_WIPE_CACHE`, and no item has the number of `ITEM_UPDATE_SYSTEM`.

### ApplyPatch

A script of `N` calls, each with a kind (in place or not, from and to a file or a
partition) and a size. `source` and `target` are what the files hold, `saved` is
CACHE_TEMP_SOURCE, `cache` the other files. `SaveBegin`/`SaveEnd` and
`FlashBegin`/`FlashEnd` are split so that a power loss leaves a partial copy of any size
or a partition with junk. `FlashEnd` has a third outcome: `write_block()` gives a block
up, erases it and writes the data to the next one, and the call succeeds although the
partition does not read back as the target (`mtdutils.c:459`). `gaveUp` remembers the
calls this happened to, and the properties exclude them by name. Whether the target file
system has room is a free choice, as `retry` and the `statfs` figures make both branches
possible.

Assumed: an intact file can be read; calls do not share files; a script that was cut
off is run again from its start. `Kept` are files on /cache that are open or not in
its top directory, which `FindExpendableFiles()` never deletes.

### Ril

The event loop is at `at`; each thread's call of `sendResponse()` is at
`call[t].stage`. `file` tells what each descriptor is open on, so a descriptor read
before a close and used after it reaches whatever it then refers to. `watch` holds
which of the listen and commands events are in the table, `round` those that `select()`
found ready and `firePending()` has still to call back; the next `select()` comes when it
is empty. `sendResponseRaw()` reads `s_fdCommand` twice (`SendResponse`, `CheckConnected`):
it may go on with -1, or with a descriptor that was closed and reused in between.

Abstractions: the order of unread requests is not told apart; a token is not reused once
freed, so completing it again finds nothing on the list (`checkAndDequeueRequestInfo()`
returns 0). Replacing the kept NITZ time is two steps, free and store; a reader in between
sees old or new content. Its double free, which would crash, is not modelled. `mishap`
records that the served connection was closed behind the loop's back, by a write error or
by "radio off" on the debug port: `select()` then fails with EBADF and the loop ends, as
in the code. `radioOff` says that "radio off" was fired in the current round: a commands
callback collected in the same round then meets its assertion.

### RilEvent, EventQueue

`EventQueue` is what `ril_event.h` lets its users expect: one callback at a time, a
non-persistent event once for each time it is added, timers once, in order and not
early. `RilEvent` is `ril_event.cpp` with its users: the watch table with `readFds` and
`nfds`, the timer and pending lists, the wake-up pipe, `listMutex` (held for good after
a delete of an event that is not in the table), the four events of `ril.cpp`,
`RIL_requestTimedCallback()` and the wake lock of unsolicited responses. `at` is where
the loop is; `task[t]` is the call that thread `t` is in. What `ril.cpp` does without a
lock is one step per access: `s_last_wake_timeout_info` is read, written and cleared by
several threads, and the write of a cancellation may reach memory that was freed and
given to another timer. `RIL_onUnsolicitedResponse()` reads it once to test it and once to
write through it; the compiler may make one read of the two, so both are in the model. If
the loop cleared it in between, the write is through NULL and the process is gone
(`at = "crashed"`). Time is the time left of each timer and passes in `select()`.
Loops over the table and the lists are stated by what they end with: `Expired(n)` says
that the walk of `processTimeouts()` stops after `n` timers, `Place(k, delay)` that of
`ril_timer_add()` at place `k`, and `Scans` are the ready slots in the order of the table.

`Ril` has the clients and what is sent to them, `RilEvent` the loop in detail. Both have the
round in which "radio off" on the debug port comes before a commands callback, which then
meets its assertion: `AssertionsHold` excludes it by `radioOff`, `CommandsFdCurrent` by
`broken`.

### RilContract, RilMarshal

`RilContract` is `ril.h` as data: for every request the shape and number of its
arguments, the shape of the response and the valid errors; for every indication its
shape. `RilMarshal` is the two tables of libril with the dispatch and response functions
they name. A payload is its shape and number of elements; functions look at lengths only,
as in the code, so a wrong shape of a fitting length comes out garbled. A parcel is the count
it begins with and how much of the rest is there: all, all but the last value, or nothing.
`Parcel` reports a missing integer, and the functions look at that; of a missing string or of
missing bytes they get NULL, which six of them pass on (`Holed`). The tables of both
modules are written in parts, as the sources have them, and put together by `Joined`.

### AtChannel, ReferenceRil

`AtChannel` is `atchannel.c`: the pending command and its response, the wait and its
timeout, the reader thread with its intermediate, final and unsolicited lines, the SMS
prompt, the close, and `at_open()`, whose writes are two steps because it takes no lock.
`ReferenceRil` is `reference-ril.c` on top of it: every handler of `onRequest()`, the
timed callbacks, `setRadioState()` on the event loop and on reader threads, the setup
sequence with its handshake, and `mainLoop()`. `loop` is what the event loop does; `out`
is what the step just taken gave to libril, with its completions. The modem is external:
it answers each command with any final response and any lines that the parser tells
apart, or hangs up.

`bound` picks one of the instances of `Bounds` at the start (see section 3). Its field
`wired` tells two trees apart. In the tree as it stands the calls of `processLine()` and
`s_unsolHandler()` in `readerLoop()`, of `RIL_register()` and of `initializeCallback()`
are commented out; with `wired` they are there, which is the library as it was written.
Both are checked.

`fault` marks where the model stops because the code leaves what the model describes: a
NULL response or line is dereferenced, or a slow reader thread sends AT commands itself.
The liveness properties exclude these states, the safety properties hold in them.

### Edify, EdifyReadme, Mtd, Updater

`Edify` is the evaluator: the state is the path from the root of the expression to the
call under evaluation, with the argument values so far, so that the steps of a script
interleave with failures and power losses. Scripts are trees; literals are evaluated
with their call. `EdifyReadme` has `Meaning`, the value and output that `edify/README`
gives an expression, written independently of the steps.

`Mtd` is `mtdutils.c` over a partition of blocks: the write context and its buffer,
`write_block()` with its second try and its search for another block, factory-bad
blocks, reading over them, erasing, and `flash_image`, which writes the header last.
A write that fails leaves a beginning of the data and garbage after it, one that power
interrupts a beginning of it in an erased block (`Partly`).
`mtd_read_data()` is stated by where each chunk ends up: chunk `i` of a block comes after
all chunks of the readable blocks before it (`Place`).

`Updater` joins them: `install_package()` and `try_update_binary()` with the fork, the
pipe and the exit status; `main()` of the update binary; every install function, with the
failures it reports and those it does not (`lost`); a file tree of /system and of the
rest. A power loss leaves a torn file, a half-formatted tree or a torn block, and the
installation starts again. Files are written through (yaffs2); owners and timestamps are
left out, but not that `utime()` may fail and end an extraction; `package_extract_file` to
a file is one step; the steps of `applypatch()` between checking and renaming are those of
`ApplyPatch`, reduced to four here.

## 3. What is checked

Passing runs:

| Run | Instance | Shows |
|---|---|---|
| `recovery` | 3 commands, 2 power losses (also inside a BCB rewrite), 1 I/O error | `RestartsWork`, `FinishedIsClear`, `NoUnaskedWipe`, `IntentReported` |
| `recovery_live` | 3 commands, 2 power losses, no torn rewrite, no I/O error | `RecoveryEnds`, `WorkIsFinished` |
| `applypatch` | 5 calls of different kinds, /cache of 5 blocks, 2 power losses, 2 errors | `Recoverable`, `SuccessIsReal`, `OnlyImproves` |
| `applypatch_live` | 3 calls, /cache of 6 blocks, 2 power losses, 2 errors | `Completes` |
| `updater` | 4 scripts and one of every mistake, 4 defective packages, `flash_image`, 8000 expressions; 2 failing calls, 2 failing flash writes, 1 restart | `SuccessIsComplete`, `HeaderLast`, `Documented`, `Reinstalls` |
| `ril` | 2 clients, 1 request, 2 descriptors, 2 vendor threads, 1 NITZ time | `AssertionsHold`, `NoneInherited`, `AnsweredOnce`, `FramesWhole` |
| `ril_live` | 2 clients, 1 request, 1 descriptor, 1 vendor thread | `ListensAgain`, `CallsReturn` |
| `event` | the 4 events, 2 timer addresses, the main thread, 1 vendor thread, 1 call, 2 inputs | `Covered`, `ListsIntact`, `CommandsFdCurrent`, `ImplementsQueue`, `CalledBack`, `WakeReleased` |
| `vendor` | four instances, below | `TablesFit`, `Conforms`, `OneCompletion`, `SimPolled`, `ClosedIsUnavailable`, `OwnAnswers`, `HandlersReturn`, `Reopens` |

All but the `_live` runs also check the module's `TypeOK`.

- **`recovery`.** Interrupted work restarts, finished work does not, the intent is
  reported. The four properties are conditional on `Clean`, so the run says nothing about
  them once an I/O error or a torn rewrite has happened; those steps are explored for
  `TypeOK` only.
- **`updater`.** `SuccessIsComplete`: INSTALL_SUCCESS means that /system and the boot
  partition hold what the script is for, unless one of the failures that the functions
  are known not to report happened (`lost`, listed under Observations) or `write_block()`
  gave a block up. `HeaderLast`: whenever a partition begins with the new header, all blocks
  after the first hold the new image, and the first holds a beginning of its part, with
  erased or garbled flash after it if its last write was cut off. So the header vouches for
  every block but its own (see Observations). `Documented`: the evaluator
  gives every expression of the set the value and output of `edify/README` and of the
  tests in `edify/main.c`. `Reinstalls`: a good package that fits installs in the end,
  over power losses and blocks that fail once.
- **`applypatch`.** `Recoverable` is what lets a script be run again: for every call the
  target, the source or the copy exists. Two kinds of calls are excluded: those that patch a
  partition in place (`applypatch_mtd` shows why), and those after a call that succeeded with
  a block given up. `SuccessIsReal` excludes that call itself.
- **`ril`.** `AssertionsHold` says of the second assertion that it can fail in the
  round of a "radio off" and nowhere else.
- **`event`.** `ImplementsQueue` is the refinement: a timer of the abstract queue is one
  on the timer list or on the pending list, an event is armed while it is in the table or
  pending. `Covered` and `ListsIntact` are the consistency of the table with `readFds`
  and `nfds` and of the intrusive lists. `CalledBack` is what the wake-up pipe is for.
  `WakeReleased`: whatever is lost in the races on `s_last_wake_timeout_info`, the timer
  started last is cancelled by nobody, so the lock is released once responses stop. That
  the lock is held long enough is not claimed: an older timer can release it early. Both
  liveness properties end with the loop (`select()` failed) or with the process (`Ended`).
- **`vendor`.** `TablesFit` compares libril's tables with `ril.h`: every row hands over
  the declared data, lets no integer through that the parcel does not hold, and passes on
  NULL for a string or bytes that are missing at the end exactly in the requests that end
  in them (`EndInText`). `Conforms` compares what the handlers hand over: a listed error
  without a response, or success with one of the declared kind and, where `ril.h`
  describes the strings one by one, of at least that many. Its departures are named:
  errors that `ril.h` does not list (`Unlisted`), NULL for an integer (`NullForInts`), too
  few strings (`FewerStrings`). `OneCompletion` counts. `SimPolled`, `ClosedIsUnavailable`
  and `OwnAnswers` are about interleavings of the event loop, the reader threads and the
  main thread.

Violations, each a disagreement between the code and its own comments:

| Run | What happens | Against |
|---|---|---|
| `recovery_torn` | power lost during the erase of DATA, then again between erase and write of the BCB in the restarted `get_args()`: the main system boots on a half-erased DATA | `recovery.c:71,78` |
| `applypatch_mtd` | a partition patched in place is cut off while written; the next run truncates the only copy of the source | `applypatch.c:632` |
| `ril_stale` | a request already off the list when its client leaves is answered to the next client | `ril.cpp:2127` |

These are results about the models; none was reproduced on a device.

**Bounds.** Two power losses are what it takes to interrupt a run and then the run that
repeats it; the torn BCB and the MTD findings need no more. Two clients are an old and a
new connection. Two vendor threads complete the same request at once, or write next to the
loop; two descriptors let one be reused, or not, by the next connection. The fifth call of
`applypatch` is there to come after a partition. The sizes of /cache make some backups fit
and others not. In `event` the call of the vendor thread and the radio state that the loop
reports to a new client are two unsolicited responses at once, and two addresses make one
be reused. In `updater` the image takes two blocks and a half of four, and the bad blocks
leave room for it, just enough, or too little; two failing flash writes are what makes
`write_block()` give a block up; the pipe holds two lines, so the child waits for the
parent; one power loss or further attempt keeps the run small (two in a row are in
`applypatch`). `ril_live` has no NITZ time and one descriptor, to keep liveness checking
small.

The four instances of `vendor` are chosen by `bound`: `AllRequests` (every request of
`ril.h`, answers of up to three lines, one channel), `AllEvents` (every line of the
network at any time, a handshake that gives up), `Threads` (power requests over channels
that end, two reader threads alive at once, a late answer), and `Unwired` (the tree as it
stands). HANDSHAKE_RETRY_COUNT is 2 instead of 8, and a run of commands whose results
are ignored is one command.

**Symmetry** is used in `ril` only. Deadlock checking is off in the RIL daemon's runs,
where clients, requests and inputs are each used once, and in `updater`, where an
installation ends.

**Fairness.**
- `Recovery`: the processor runs (`WF` of `main()`'s steps) and the bootloader boots.
  The rest is assumed of people: the user shows the text, answers the confirmation,
  chooses to reboot, and does not hold the recovery key at every boot. The code cannot
  guarantee this; without it the menu waits, by design. Power losses and errors are
  not fair.
- `ApplyPatch`: the processor runs, and a script that did not succeed is run again.
- `Updater`: an installation that is under way goes on. Nothing makes power fail or the
  user try again.
- `Ril`: `select()` reports an event that keeps being ready (`SF`, since a round may
  serve another first), callbacks and sends proceed, a thread waiting for
  `s_writeMutex` gets it if it is free again and again (`SF`; POSIX mutexes promise
  less, but few threads contend), and `accept()` does not fail for ever. Clients and
  vendor threads owe nothing.
- `RilEvent`: threads run, time passes, and signals do not interrupt every `select()`
  (`SF` of `Select` and `Tick`).
- `ReferenceRil`: the threads run; a modem with a command to answer answers it or hangs
  up (`SF`, since the handshake's sleep holds the lock the reader needs), and sends the
  second line of an SMS it began. The code waits without a timeout, so it relies on this.

Every property of a passing run is broken by at least one mutant of the code's
definitions (`PROJECT.json`, "mutants"), such as a dropped guard or a missing reset.

## 4. What is proved

For every value of the constants that satisfies the named assumption of the module, where
it has one:

| Theorem | States |
|---|---|
| `RecoveryProofs!TypeCorrect` | `Spec => []TypeOK` |
| `RecoveryProofs!Restartable` | `RestartsWork` |
| `RecoveryProofs!MainSystemSafe` | under `Clean`, the main system never runs on a partition a command left half done |
| `RecoveryProofs!Finishes`, `NoWipeLeft`, `IntentKept` | `FinishedIsClear`, `NoUnaskedWipe`, `IntentReported` |
| `ApplyPatchProofs!TypeCorrect`, `NotLost`, `Success`, `Improvement` | `TypeOK`, `Recoverable`, `SuccessIsReal`, `OnlyImproves` |
| `RilProofs!TypeCorrect`, `Assertions`, `Inheritance`, `OneAnswer`, `WholeFrames` | `TypeOK`, `AssertionsHold`, `NoneInherited`, `AnsweredOnce`, `FramesWhole` |
| `ReferenceRilProofs!ClosedTheorem`, `AnswersTheorem`, `PollingTheorem` | `ClosedIsUnavailable`, `OwnAnswers`, `SimPolled` |
| `ReferenceRilProofs!CompletionTheorem`, `TypesTheorem` | `OneCompletion`, `TypeOK` |
| `ReferenceRilProofs!OneReaderTheorem` | at most one reader thread has the AT channel, and none while `at_open()` runs |
| `ReferenceRilProofs!ConformsTheorem` | `Conforms` |
| `RilEventProofs!TypeCorrect`, `TableCovered`, `ListsStayIntact`, `CommandsFdIsCurrent` | `TypeOK`, `Covered`, `ListsIntact`, `CommandsFdCurrent` |
| `RilEventProofs!MutexReleased` | no operation leaves `listMutex` held |
| `RilEventProofs!NeverDeaf` | from `RIL_register()` on, and while the process lives, libril listens, accepts, or has a client whose end makes it listen again |
| `RilEventProofs!LoopImplementsQueue` | `Spec => ImplementsQueue`, the refinement of `EventQueue` |
| `UpdaterProofs!WritesHeaderLast` | `HeaderLast` |
| `UpdaterProofs!WritesRawImage` | `RawImageWritten`: a raw image whose writing is reported reads back as the file |

- **Recovery.** `RestartsWork` speaks of unfinished work only; it is preserved because
  the BCB repeats what `main()` is doing (`BcbInv`), because DATA is done before CACHE
  is begun, so erasing the command file is harmless (`OrderInv`), and because
  unfinished work exists only at labels on the way to redoing it (`WorkInv`).
- **Recovery, the end.** `Cleared`: `finish_recovery()` clears the BCB before it unlinks
  the command file, and the menu, which erases without a command, is reached only after
  both. `Rewiped`: while the command file still asks for a reset that was carried out,
  the device is on its way to repeating it, with the BCB to bring it back; only the erase
  of CACHE, which takes the file with it, leads on. It uses `BcbInv` for the moment the
  erase of DATA ends. `Reported`: the last `finish_recovery()` writes the intent, and no
  erase lies between it and the reboot.
- **ApplyPatch.** All calls share one copy. `InOrder` is the key: a source is moved to
  /cache only when the calls before it have succeeded, so at most one call needs the
  copy. `Passed` and `Knows` say what `applypatch()` has established at each step. A call
  that gave a block up has returned 0 without its target (`Reached`); for the calls after it
  the copy may be overwritten, and `Undisturbed` leaves them out.
- **Ril.** `Linked` ties the loop's place, the watched events, what is left of the round
  and `s_fdCommand` together and gives the assertions; `Attached` says when the commands
  event has the current descriptor. `Quiet` (while listening, only debug-port
  requests are not cancelled) gives `NoneInherited`. `Locked` and `Framed` (a client
  with a header is being sent the body by the holder of `s_writeMutex`) give whole
  frames.
- **ReferenceRil.** For any number of reader threads, any bounds and any subset of
  requests and events. `Closing`: `setRadioState()` looks at `s_closed` under the mutex, so
  only the close, a reader's state change and the reopening matter. `Answers`: the loop
  waits exactly while a response is pending (`Waiting`), and on an open channel where
  nothing was given up the modem owes at most the pending command's answer (`Owed`).
  `Polling`: wherever the loop is about to set SIM_NOT_READY the radio was `Dark`, so the
  change is noticed and `onRadioPowerOn()` polls, and a timer is only used up by the next
  poll. `Completing`: a handler of one command is always at its own command, so the
  completions of every branch are the ones that are `Due`.
- **ReferenceRil, types.** The hard part of `TypeOK` is that timed callbacks stay within
  the instance's bound, since only the first step of what leads to one is guarded. `Room`
  says that there is room for what is under way: for the callback of the next channel while
  no thread reads, for a poll while the loop is on its way to one (`PollAhead`). The first
  rests on `OneReader`: `mainLoop()` opens the channel only for the close of the one reader
  that had it. `Typed`, their conjunction, is inductive next to `Polling`.
- **ReferenceRil, conformance.** Lemmas give the rows of the tables that the handlers use
  and what libril's response function reads from each payload (`ServedRows`, `CommandRows`,
  `IndicationRows`, `PayloadsRead`). What ties them to a state is `Called`: for each command
  the requests it can be under way for (`Callers`), which one handler shares with another or
  with a timed callback. With it every branch hands over what fits the request it serves;
  `Conforming` is the inductive invariant.
- **RilEvent.** `IInv` has `Covered` and `ListsIntact` in it, the sorted timer list with
  the expired timers in front of the pending list (`TimersOrdered`), and where the loop is
  against what runs (`Position`). The one idea is `OneListener`: the listen event is
  passed between the table, the pending list, the callback that accepts and the end of a
  client, and is in one of these places at a time. It makes sure that `listenCallback()`
  sets up the commands event only when nobody has it, and that no callback deletes an
  event that is not in the table, so that `listMutex` is never kept. The table's bounds
  (`nfds` after a removal, the free slot, the order of the scan) rest on a least element
  of a set of numbers (`LeastNat`) and on `Cardinality`.
- **RilEvent implements EventQueue.** From `IInv`, one lemma per action of the loop and the
  threads. An action that moves an event from the table to the pending list, or a timer
  from one list to the other, is a stutter, because a timer of the abstract queue is on either
  list and an armed event in either place; what is to be shown is that joining the lists
  again gives the same queue (`QueueIs`). `firePending()` is `Fire` or `FireTimer`: the first
  pending timer is the first of the queue.
- **flash_image.** `HeaderLast` speaks of what is read; the invariant `Writes` speaks of
  the blocks. Which part of the image a good block is for is its `Rank`, the number of good
  blocks before it. `Sound` is one of three: no block begins with the header (`Untouched`);
  the first good block is read and begins with something else (`Differs`); or every good
  block after the first has its part of the image and the first one, if it begins with the
  header, a beginning of its part (`Complete`). The first holds before
  anything is written, the second once the first block is written with zeros for its header
  (`InWrite`), the third when all but the header is written, and so while the first block is
  written again (`InHeader`). A write that fails or loses power leaves a beginning of the data
  (`PartlyWritten`), and each of the three says enough to survive that (`TornSound`), so that
  `flash_image` may start again from any of them. Once `write_block()` gave a block up, the
  ranks no longer say where the image is, and the invariant ends there, as the property does.
  `UpdaterProofs` adds that `flash_image` runs alone (`FlashInv`).
- **write_raw_image.** `RawImageWritten` is the part of `SuccessIsComplete` about the boot
  partition, for any file without a block of zeros: when `RawCloses` returns the name of
  the partition, `mtd_read_data()` gives the file. `Copied` says that the good blocks before
  the one at hand have their parts of the file, that what is stored is the next part, and
  which chunk is read next; zeros are added after it only when the file has ended,
  by `mtd_erase_blocks()` and, where that found no block, once more by `mtd_write_close()`.
  The two failures that `write_raw_image()` does
  not report and a block that was given up are excluded; without either exclusion TLC finds a
  counterexample. The other steps of `Updater` touch neither the partition nor the context
  while it runs (`Elsewhere`).

The inductive invariants were checked with TLC before they were proved: `IInv` of `RilEvent`
with two calls and two descriptors for the command socket (1.6 million states), `Typed`,
`Polling` and `Conforming` on the instances of `vendor`, `FlashInv`, `RawInv` and
`RawImageWritten` on that of `updater`.

**Assumptions.** Each module names its own. Those of `RilEvent` keep the constants apart
(`EventAssumption`) and those of `ReferenceRil` say that the counts of the code are natural
numbers and that an instance has room for one line where lines are read, for the callback
of the channel that `mainLoop()` opens, and for requests of `ril.h` only
(`ReferenceRilAssumption`). `MtdAssumption` says that the header of the image is told apart
from the old image and from erased flash, and that a block of the image has something
other than zeros in it besides the header: `read_block()` skips a block of zeros, so an
image with one would not read back as it was written (`mtdutils.c:311`). TLC evaluates
them in the runs.

Only model-checked:

- all liveness properties: they need fairness, which the prover does not handle;
- `Documented`: `Meaning` is recursive, and the prover does not reason about what a
  recursive definition computes for every input;
- `SuccessIsComplete`: about the concrete scripts and packages of the run, but for what
  `write_raw_image()` leaves (`WritesRawImage`);
- the `TypeOK` of `Updater`: the types of the paths, values and argument lists that a script
  computes depend on the scripts, which are a constant without structure here;
- `TablesFit`: a closed formula about the two tables, without variables but for the set of
  requests of the instance. The assumption bounds that set by the requests of `ril.h`, and in
  the instance `AllRequests` it is all of them, so TLC's evaluation settles every instance.

## 5. Observations

Seen while modelling, and left as remarks because no comment of the code is contradicted
by a run, or because the behaviour is an exception that a property names.

Recovery and installation:
- Item 8 of the OTA install scenario in the header of `recovery.c` names
  `maybe_install_firmware_update`, which `main()` does not call. `applypatch.c:513` says
  the source is kept when the target is another file, while the low-space path unlinks it
  (line 682).
- A partial copy left on a nearly full /cache by a power loss is neither freed nor counted
  (`freecache.c:104`), so no later run finds room; `Completes` is checked with room for two.
- A block that `write_block()` gives up is left erased, the data goes to the next block and
  the writer succeeds, but `read_block()` takes an erased block for data: the partition does
  not read back. `apply_patch` succeeds then; run again, the script does not see that call as
  done, and the call saves its source over CACHE_TEMP_SOURCE, where the only copy of a later
  call's source may be.
- `flash_image` writes the header and the rest of its block in one last write. Cut off after
  the header, the block keeps erased flash behind it, and every later start finds the header
  equal and skips the partition (`flash_image.c:85`).
- Failures that do not reach the result of a script: an entry that cannot be written
  or touched (`ok` is shadowed at `Zip.c:1124`, against `Zip.c:928`, "Returns true on success,
  false on failure"), `delete`, `symlink` and `set_perm` on files, a block
  that `format` cannot erase, a read error in `write_raw_image` and its last, partial
  block, an unchecked `fork()`. `delete` returns the string "0", which is true. A mount
  that falls back to read-only counts as mounted.
- When an argument of `delete` is aborted, the loop that frees the ones before it
  (`install.c:233`) counts `i` up instead of `j`; `apply_patch` and `apply_patch_check` use
  a NULL list when an argument is aborted, and `file_getprop` one when the file is empty.
  The model ends the child there.
- A second attempt from the menu finds /system still mounted if the first one failed
  before `unmount`, and a script that formats fails then.
- The signature check is commented out (`install.c:281`); the model has no such step.

libril:
- The kept NITZ time is freed although sending it to the new client may have failed
  (`ril.cpp:2866`), and a write error or "radio off" on the debug port closes the served
  socket behind the loop's back: `select()` fails and the loop ends.
- `ril_event_del()` of an event that is not in the table returns with `listMutex` held
  (`ril_event.cpp:322`); no caller does it (`MutexReleased`), which `CalledBack` depends on.
- `s_last_wake_timeout_info` is tested and then read again, without a lock, while
  `userTimerCallback()` may set it to NULL (`ril.cpp:2884`).
- A request whose parcel ends before its last string or bytes is handed to the vendor library
  with NULL in their place. `responseString()` reads the raw bytes of a broadcast SMS as a
  string.

Vendor library:
- SMS_ACKNOWLEDGE and the error path of SIGNAL_STRENGTH complete twice,
  SET_NETWORK_SELECTION_AUTOMATIC never. The two registration states and SETUP_DATA_CALL
  answer fewer strings than `ril.h` describes, the PIN requests and WRITE_SMS_TO_SIM NULL
  on success; requests without a handler, SIGNAL_STRENGTH, and four requests while the
  radio is not available end in errors that `ril.h` does not list. REGISTRATION_STATE
  dereferences a missing line when the modem answers ERROR.
- The sleep in the handshake holds `s_commandmutex`, so the reader cannot drain lines
  during it, against what the comment at `atchannel.c:974` has in mind. NO CARRIER passes
  for the final response of whatever is pending.
- `at_open()` clears the response under a command that is still waiting on the closed
  channel. A reader that is slow to report the close can meet the reopened channel and
  then sets the new radio UNAVAILABLE or sends commands itself (the FIXME at
  `reference-ril.c:1562` says this does not happen). Power toggles leave more than one
  poll timer behind.
- `ril-reader/reference-ril.c:50` never signals `s_state_cond`, so that variant does not
  reopen its channel.

## 6. Not modelled

The modules stand for somewhat less than half of the C and C++ lines. The rest:

- **Display and input** (`ui.c`, `minui/`): drawing and device input are I/O. Of `ui.c` the
  text toggle and the menu's keys are in `Recovery`; the key queue, the progress thread
  and the text buffer influence only what is shown.
- **Patch arithmetic** (`bspatch.c`, `imgpatch.c`) and the host tools (`bsdiff.c`,
  `imgdiff.c`, `tools/ota/`): computations over bytes without state. `ApplyPatch` needs of
  them only that their output is checked by its SHA-1.
- **Parsing**: zip archives, the hash table behind them and inflate; `/proc/mtd` and
  `/proc/mounts`; the generated lexer and parser of edify; AT tokens below the line.
- **`verifier.c`**: not called in this tree.
- **`ril-reader/`**: its channel is the modelled one up to log lines, its library a
  cut-down copy. **`rild/`**, **`radiooptions`**, **`reference-cdma-sms/`**: start-up,
  a command line client and stubs.
- Code under `USE_TI_COMMANDS`, `POLL_CALL_STATE` and the WORKAROUND macros,
  which `Android.mk` defines for the devices sooner, surf and dream only.
- The composition of `ReferenceRil` with `Ril`: the vendor threads of `Ril` complete any
  request at any time, any number of times, which includes what `ReferenceRil` does.
