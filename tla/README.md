# A verification development of ChicOS

ChicOS (`src/`) simulates a small operating system in one process: threads for
the CPU, the disk, the printer and the text user interface share one global
`app`. This directory holds TLA+ models of its parts, TLC configurations that
check them on small instances, and TLAPS proofs about them. The code is
the reference; every definition names its lines in `PROJECT.json` ("map").
Paths below are relative to `src/src/modules/` unless they start with `src/`.

## 1. The system

### 1.1 Threads and locks

| thread | code | takes |
|---|---|---|
| CPU | `cpu_loop` (cpu/cpu.c) | `cpu_s` per system call, `pcb_s` per slot, `memory_s` per allocation |
| disk | `disk_loop` (io/disk.c) | `cpu_s` to report `disk_finish`; **no** lock for its queue |
| printer | `printer_loop` (io/printer.c) | `cpu_s` for `print_finish`, `printer_s`, `memory_s` |
| render | `render_loop` (render/render.c) | `cpu_s` for `process_create`, `pcb_s` and `printer_s` while drawing |

`sys_call` is the door from the CPU thread into the kernel, `interrupt_control`
the one from the other threads; both hold `cpu_s` for the whole call. The
scheduler's loops run on the CPU thread *outside* `cpu_s`, and take `pcb_s` for
one slot of the table at a time. Most of what is hard here comes from these two
granularities meeting in one table.

### 1.2 Components

| component | state | operations | interacts through |
|---|---|---|---|
| process table (process/process.c) | `process_stack`, `curr`, `last`, `last_pid` | `p_create`, `p_find`, `p_block`, `p_unblock`, `p_kill`, `p_realloc` | called under `cpu_s` from three threads |
| scheduler (scheduler/scheduler.c) | none of its own | `scheduler_no_running`, `scheduler_kill_process`, `scheduler_get_process` | reads and rewrites the table slot by slot |
| CPU (cpu/cpu.c) | `quantum_time`, `cpu_s` | `cpu_loop`, `exec_process`, `process_exec`, `sys_call`, `interrupt_control` | everything |
| semaphores (semaphore/semaphore.c) | list of 32 names, value, ring of waiting pids, `mutex` | `init_semaphore`, `semaphoreP`, `semaphoreV`, `waiter_push`, `waiter_pop` | sets WAITING and READY in the table |
| disk (io/disk.c) | queue of requests, `len`, head position | `simulate_io`, `q_put`, `q_remove`, `sort_disk`, `move_header`, `exec_io` | `disk_finish` unblocks a process |
| printer (io/printer.c) | linked list, `printer_buffer` | `add_to_print_queue`, `pop_print`, `printer_loop`, `get_print_time` | nodes are memory of the pool |
| memory (memory/mem.c) | page table, `free_page_num`, the clock's hand | `c_alloc`, `c_dealloc`, `second_chance` | every thread allocates |
| program files (fs/synt.c) | none | `valid_path`, `open_file`, `read_header` | called by `read_path`, `p_create`, `p_realloc` |
| user interface (render/render.c) | `renderer_s`, `active`, `output_buff`, windows | `bootstrap_ui`, `render_loop`, `clear_renderer`, `render_log`, `read_path`, `print_event`, `login_flow`, drawing | submits programs, reads all state, takes the log |
| users (user/user.c) | one file per account | `write_login_data`, `read_login_data` | called by the dialogue; the files are shared by all simulators in the directory |
| logger (log/log.c) | none | `c_log` (`c_info` ... `c_crit_error`, which ends the program) | called everywhere, the SIGINT handler included; writes into the UI's buffer |
| start and shutdown (src/chicos.c) | the threads | `main`, the SIGINT handler | starts threads, frees everything |
| utilities (utils/utils.c) | none | `abs_diff`, sleeping, strings | |
| vendored libraries (src/vendor) | | libsodium, PDCurses | third-party, left aside |

### 1.3 What is hard, and what makes each part correct

* **Table and scheduler.** A creation lands in the middle of a compaction; the
  disk writes through a pointer it found before the compaction; a status is set
  READY between `scheduler_no_running` and the dispatch. Correct means: one
  RUNNING process, the table in creation order, `last` (a `u8` that is
  decremented) never off, nobody leaves without having been killed, everybody
  finishes.
* **Semaphores.** Correct means: value and queue agree, no wake-up is lost,
  mutual exclusion between a P and its V, P and V return.
* **Disk.** An unlocked queue that one thread extends and another shrinks.
  Correct means: a blocked process has exactly one request, the closest track
  is served first, a request in service is not preempted, everyone is unblocked.
* **Printer.** A linked list over memory that is released and allocated again
  around it. Correct means: FIFO, no leak, no use of released nodes.
* **Accounts.** Files without a lock between several simulators, each of which
  may end between any two calls; names that the file gives back changed.
  Correct means: nobody is in without the account's password, a password is
  never overwritten, a half-written account has a cause, an owner gets in.
* **Start and end.** Threads that initialise their own semaphores after others
  use them, a signal handler that logs on top of an interrupted log call, a
  resize that initialises everything again, a pool that is freed at the end.
  Correct means: after CTRL+C the program ends, nothing is used after it was
  freed, the log's semaphore is balanced.
* **Memory.** A counter tested outside the lock, pages that are taken back
  without telling their owner, a circular scan with off-by-one arithmetic.
  Correct means: disjoint regions, an exact count, an allocation that returns.

The hazards, each at its line with the properties that watch it, are the list
"hazards" of `PROJECT.json`.

## 2. The modules

| module | what it is |
|---|---|
| `Kernel` | table, scheduler, CPU thread, system calls, semaphores; the render thread's submission and the disk thread's `p_unblock` as its environment threads |
| `KernelInv` | the inductive invariants of `Kernel`: table and scheduler, semaphores, what the stopped processes wait for, why a batch does not fault, who leaves the table |
| `KernelProofs` | the theorems about `Kernel`, with proofs |
| `KernelHist` | `Kernel` with a history: whether a process past its end has run a P, a V or a disk request of a former program (`stray`) |
| `MCKernel`, `MCBatch` | small programs and workloads for TLC; those of the headless batches, with `KernelHist` |
| `DiskQueue` | the disk: `q_put` on the CPU thread, everything else on its own |
| `Disk`, `DiskRace`, `MCDisk` | `DiskQueue` with the processes that use it, as `p_block` and `p_unblock` see them; a history of whether `q_put` and `q_remove` overlapped; how many requests each process makes |
| `ChicOS`, `MCChicOS` | `Kernel` and `DiskQueue` composed: the disk of the kernel is the disk; workloads |
| `PrintQueue`, `Printer` | what the printer promises; the linked list that implements it |
| `Memory`, `MemoryHist` | the pool; the same with a history of whether a page was taken back |
| `Login`, `LoginHist`, `MCLogin` | accounts and the login dialogue; a history of overlapping and cut-off creations; three kinds of names |
| `LoginProofs` | the theorems about accounts, with proofs |
| `DiskProofs`, `PrinterProofs`, `MemoryProofs`, `SessionProofs` | the theorems about the disk and its users, the printer's list, the pool, and a run from start to end, with proofs |
| `ChicOSProofs` | the theorems about the kernel with its disk, on top of `KernelProofs` |
| `SetLemmas` | lemmas on numbers, finite sets and counting that the proofs share |
| `Session`, `MCSession` | a run from `main` to its end: threads, CTRL+C, resize, the log's buffer; the builds |

`ChicOS` EXTENDS `KernelHist` and INSTANCEs `DiskQueue`; `Disk` EXTENDS the same
`DiskQueue`, so the code of the disk is written once.

### 2.1 Kernel

State follows the code's: `stack` is `process_stack` (a record per slot: `pid`,
`prog` for the loaded file, `status`, `PC`, `rem` for the remaining time of the
current instruction, `rw` = `rw_count`, `h` = `h_used`); `curr`, `last`,
`last_pid` keep their names; `value`, `waiters`, `sems`, `mutex` are the
semaphore list; `io` counts disk requests per pid that the disk has not
reported yet. `cpc`, `rpc`, `dpc` are the places of the three threads, `cpu_s`
who is inside the kernel.

| actions | code |
|---|---|
| `Tick`, `Load` | the begin and the end of an iteration of `cpu_loop` |
| `NoRunning` | one turn of `scheduler_no_running` |
| `ReapScan`, `Shift`, `ReapDone` | `scheduler_kill_process`, one slot per `pcb_s` region |
| `Select`, `SelectFault`, `Dispatch` | `scheduler_get_process` and setting RUNNING |
| `Kill`, `ExecNull`, `ExecCompute`, `ExecOther`, `ExecDisk`, `ExecDiskMiss` | `exec_process` and the system call it makes |
| `ExecP`, `ExecV`, `Hang` | the calls of `semaphoreP` and `semaphoreV` |
| `LoadBroken`, `SubmitBroken` | `open_file` or `read_header` of a file that is no program |
| `Submit`, `SubmitAppend`, `SubmitLog` | `read_path` and `p_create` on the render thread |
| `DrawFault` | the panel of processes meets an empty slot below `last` |
| `FinishFind`, `FinishWrite`, `FinishFault` | `disk_finish` on the disk thread, around `p_unblock` and `UnblockFault`, which `ChicOS` uses with the real disk |

Granularity: a region under `pcb_s` touches one slot and is one step, and the
copy of a slot inside it is not torn. A system call of the CPU thread is one
step: while it runs, `cpu_s` keeps the other two threads out of the table. The
exceptions are the calls of the *other* threads, because the scheduler does not
take `cpu_s`: `p_create` and `p_unblock` are split at every release of `pcb_s`.
Memory is sequentially consistent between steps.

What the code leaves undefined is a choice. A process whose end has been reached
is killed and then *executes one more instruction* (`exec_process` does not
return); what stands there is any member of `StaleCode`. That is not only fresh
memory: `p_realloc` and `p_kill` return code pages, and the next `p_create` takes
the first free ones, so a former process's P, V or disk request may stand there.
When such an instruction stops the process it is no longer marked KILL; it is
woken and selected again, past the one place where `exec_process` kills.
`KernelHist` keeps in `stray` that one was executed. The mutex of the semaphore
list is never initialised: `MutexInit`; with 0 the first P stays in
`semaphoreP` for ever (`cpc = "hung"`). `log_process` looks the new process up
without `pcb_s`, hence during a compaction it may miss it, and reads an
uninitialised record when it does: `LogUnknown`. A null
access, or the exit of `c_crit_error`, is `sys = "down"`, after which nothing
happens. So is reading a file of `Broken`: one that cannot be opened (`open_file`
returns NULL, which `p_create` follows; `valid_path` accepts a directory), or one
that ends inside its header line (`read_header` looks for the end of the line
only and writes on).

Left out: program text beyond operation, time and semaphore; the allocation of
the code page (see `Memory`); the printer's side of a print request (see
`Printer`); the list's limit of 32 names (it is assumed that programs use no
more). `rw_count` and the quantum are capped where the code's counters go on
(`RW_MAX`, `QUANTUM_MAX`): above the cap all quanta behave alike, and a capped
`rw` only merges processes with many I/Os.

### 2.2 Disk

In `DiskQueue`, `queue`, `len`, `track` are `app.disk`. `Disk` adds `blocked`,
the part of the table that the disk sees, and `left`, the requests each program
has yet to make. `q_put` and `q_remove` are cut at every access to `len` (a load
and a store each for `len++` and `--len`; the compiler may keep the value of
`len` that `queue[len] = p` loaded, hence the choice in `PutLoad`). `u8`
arithmetic wraps. `Sort` is one step: it works on entries below `len`, which
the CPU thread never writes. Inside it the loop is the code's, turn by turn:
`Visit` is one turn, with its comparison and its two locals, `Scan` the turns up
to an index, `Closest` what the loop leaves in `closest_idx`.

### 2.3 ChicOS

`Kernel` takes its disk for granted: what was issued is finished once. `ChicOS`
replaces that by `DiskQueue`. `disk_request` is `ExecDisk` of `Kernel` together
with `simulate_io`; the three steps of `q_put` run inside the system call, and
until they are over no other kernel step is taken (`Entered`). That also holds
back what the render thread would do outside `cpu_s`, which the runs do without.
`disk_finish` is `p_unblock` with the pid that `exec_io` kept in `local_p`
(`FinishedPid`), followed by `Finished`; `io` is kept so that the step can be
compared with `Kernel`'s `FinishFind`.

Four histories name the accidents the code allows: `stray` of `KernelHist`,
`raced` (`q_put` and `q_remove` overlapped), `stale` (`p_unblock` wrote to a slot
its process had left), `gap` (a process stands behind empty slots when no compaction is going
on, because `curr` does not shrink with `last`). `KernelUntilRaced` is the refinement: until the first race
every step of the composition is a step of `Kernel` or leaves its variables
alone, so what is proved of `Kernel` holds of it (`ImplementsKernel`).

### 2.4 Printer

`heap` maps a node to its fields, `used` are the nodes not deallocated; every
change of the list is under `printer_s` inside a system call and is one step;
`printer_loop` frees the node under `memory_s` only and clears its pointer
later, so these are steps of their own, and so is the panel's fetch of the
pointer. Page replacement taking a node away is left to the composition with
`Memory`.

### 2.5 Memory

A region under `memory_s` is one step, except the search of `c_alloc`, whose two
halves are apart: a failed allocation posts `memory_s` without having waited for
it, so two threads may be inside. The test of `free_page_num` and the first read
of the hand are outside the lock and are steps. `header` is the `alloc_header`
in the first page, which a region that was given the same page replaces;
`c_dealloc` trusts it. `Checked` are the threads whose callers test for NULL
(only `read_login_data`, on the render thread); for the others a failed
allocation ends in a null access. A request of 0 bytes, which returns NULL at
once, is left out: no caller makes one. `free_stack` is filled by `init_mem`, never
read, and left out.

### 2.6 Login

`file` holds, per name, `Absent`, `Empty` (no complete record) or the password
whose hash is stored; each simulator (`Instances`) has a place in `login_flow`,
its `login` and `file_exists`, and the number of regions of the pool that hold a
user.

| actions | code |
|---|---|
| `get_credentials` | the dialogue, up to enter |
| `Check` | `access` (render/render.c:491) |
| `Read` | `read_login_data` and what `login_flow` does with its result |
| `Open` | `fopen(addr, "w")`: truncates, or ends the program |
| `Write` | `encrypt`, then the record is flushed at once by `fflush` |
| `Stop`, `Start` | the process ends at any moment, by a signal it does not handle or a failure elsewhere; a new run. The handler of CTRL+C does not do that: it sets `loop_stop` (see `Session`) |

A read is one step because a record fits in one buffer. The file gives a name
back trimmed and cut at 245 bytes (`StoredName`), and a name with a slash makes a
path that cannot be opened (`Unopenable`). `Pages` is what the pool has room for
beside the output buffer. What was typed is kept until the next dialogue, and
zeroed (`Blank`) where the code zeroes it or the program ends. Left out: a failure of `malloc` in
`encrypt`, which writes an empty file; `auth.log`, which is only written.

`LoginHist` remembers the names that two simulators were creating at once
(`overlap`) and those whose creation was cut off (`torn`).

### 2.7 Session

Each thread is reduced to what matters for its start and end: `pc` is its place,
and `log` the place of each of its two *frames* in `c_log`. A signal handler runs
on top of whatever its thread does, so frame `hand` runs and frame `own` waits
beneath it (`Top`). `renderer_s`, `active` and `output_buff` are the fields of
`app.rdr`. `ready` are the semaphores whose `sem_init` has run: before it they
are zero-filled, and whoever waits sleeps. `sem_init` on a semaphore on which
somebody sleeps resets the count of sleepers, after which a post need not wake
him: those frames are `lost`, and fairness promises nothing about them
(`Forgotten`).

| actions | code |
|---|---|
| `Create`, `Created`, `Join`, `Free` | `init_app`, `clear_app`, `clear_mem` |
| `InitThread`, `Turn` | `init_cpu`, `init_disk`, `init_printer` and their loops; a turn may log |
| `Boot`, `AllocBuff` | `bootstrap_ui`; the allocation of the buffer logs while the UI is active already |
| `RenderLoop`, `Reboot`, `ReallocBuff`, `ClearBuff`, `ClearDone` | `render_loop` and its resize branch, `clear_renderer` |
| `login_flow`, `read_path`, `Submit`, `print_event` | the dialogues and the two waits of the render thread |
| `LogTest`, `LogWait`, `LogWrite` | `c_log` and `render_log` |
| `handle_signal`, `handle_resize` | CTRL+C on any thread; SIGWINCH |

The joins of `clear_app` are one step: nothing happens between two of them but
that a thread ends. A turn of the CPU's loop always ends here; the one that does
not, a P that hangs in the mutex, is `Hang` of `Kernel`, and `clear_app` would
wait for it for ever. Left out: the lock inside `printf` (a handler that
interrupts `printf` in the same thread), the allocation of the output buffer
failing, the command line (`should_render` is any member of `Screens`).

## 3. The runs

Every constant not named here is in the cfg. 'Violation' runs state what a
comment, a text on the screen or the repository's README says and the code does
not do; each has a finding in `PROJECT.json`.

| run | shows |
|---|---|
| `kernel_table` | `TypeOK`, the inductive invariant `IInv`, `OneRunning`, `PidsAscend`, `LastBoundsLive` with the CPU, the disk and three submissions interleaved on a table of 4: creations land in compactions, the table fills up, a file is missing, a former process's code stands behind a program's end. Here the code does lose processes, and `LeaversExplained` says which: nobody leaves the table but who was killed, or was put into the slot that is overwritten next by a creation or a late answer of the disk, before its first instruction or after its last |
| `kernel_sems` | for all 64 choices of three programs, on pages that may hold a former `lock`, without the disk and the user: `NoFault`, and up to the first P or V of a process that has been killed (`stray`) `Exclusion` (`ExclusionUnlessStray`) and, unless the first P hangs, `TerminateUnlessStray` (liveness) |
| `kernel_wake` (violation) | a stale pointer of `p_unblock` lets a program past a P |
| `disk` | until `q_put` and `q_remove` first overlap the queue is exact, nothing is preempted and everyone is unblocked; always the closest goes first. Three processes, one of which comes back, three tracks, service time 2 |
| `chicos` | kernel and disk composed, five workloads: semaphores and queue agree (`ValueCountsWaiters`, `WaitingIsQueued`), a blocked process is on its way through the disk (`BlockedIsServed`), the program goes down only for named causes (`DownIsExplained`), `Kernel`'s assumption on the disk is right (`KernelUntilRaced`), and every program that releases what it takes terminates (`TerminateUnlessTainted`), each up to the accidents it names; for the last these are `raced`, `stale`, `gap`, `stray` and the hang of the first P |
| `printer` | `Printer` implements `PrintQueue`, liveness included; the list is sound and nothing leaks. Three nodes and three jobs, so memory is reused while the list holds others |
| `printer_panel` (violation) | the panel reads a node that was deallocated |
| `memory` | two threads on three pages: disjoint regions and an exact count until a page is first taken back; afterwards `free_page_num` never falls below the free pages, and `c_alloc` returns or the program ends. Allocations are finite (`MaxAlloc`): whether threads that allocate for ever can starve one in the loop of page replacement is not asked |
| `mem_panel` (violation) | more free pages than pages |
| `login` | two simulators, three names, two passwords: who is in has the file's password (`OwnerLoggedIn`), no attempt leaks memory (`OneRegionPerUser`), an empty account file was cut off (`EmptyIsExplained`), passwords are kept (`PasswordKept`), and an owner gets in (`OwnerGetsIn`, liveness), each up to two simultaneous creations of one name; deadlock is checked |
| `session` | debug and release, with and without a screen, two CTRL+C and a resize at any point: the pool outlives everyone (`PoolOutlivesThreads`), the log's semaphore is balanced (`SemBalanced`), nobody starts writing into a released buffer (`NoLateWriters`), and the program ends unless a prompt waits, the handler has locked itself out or a `sem_init` has forgotten a sleeper (`QuitEnds`, liveness) |
| `session_quit` (violation) | CTRL+C in the path prompt does not end the program |

Other disagreements that the models contain and no run singles out:

* A program submitted during a compaction can be overwritten by the shift and
  disappear without having run (scheduler/scheduler.c:71).
* A killed process executes one more instruction and can be blocked, and woken,
  again (cpu/cpu.c:163). On pages that a former program has left it may execute
  that program's V, which lets a second process past a P (`stray` in
  `ExclusionUnlessStray`).
* The overlap of `q_put` and `q_remove` loses a request for ever, or leaves `len`
  too large, so that a phantom request is served (io/disk.c:87).
* `curr` is never decremented, so `p_create` refuses programs while the panel,
  which compares `last`, shows room (render/render.c:143).
* The semaphore list's mutex is never initialised (semaphore/semaphore.c:76), and
  when it holds 0 the first P hangs, with `cpu_s` held, and no program ends any
  more; `TerminateUnlessStray` and `TerminateUnlessTainted` name it (`Hang`).
* The scheduler takes the process with the fewest I/Os, not the next one in turn
  as `src/README.md:4` says.
* `second_chance` takes the page *behind* the unused one and ends its scan one
  page early (memory/mem.c:263 and 268).
* A user name with blanks at its end creates an account nobody can enter, and says
  'Error creating user!' (user/user.c:149).
* The SIGINT handler of a debug build can wait for the semaphore that its own
  thread holds (`SelfDeadlock`).
* After a resize `active` stays false, so the log of a debug build goes to the
  terminal instead of the window (render/render.c:414).

**Why the bounds are enough to be interesting.** Every table is smaller than
`MAX_PCB = 11` but large enough for a compaction with a process before, at and
behind the hole. `TIME_SLICE = 2` with times 1 to 3 gives less than, exactly and
more than a slice; `H_MOD = 2` makes `h_used` wrap, `I8_MAX = 2` in
`kernel_table` and `kernel_sems` puts the end of the value's range near (in
`kernel_sems` a process that was woken past its end may call V for ever);
`DISK_SLICE = 2` has a
request half served when another arrives (0 in `chicos`, where only the order of
the requests matters); `U32 = 16` makes any wrap of the page count a large number.
The workload bounds (`MaxUser`, `LOAD_MAX`, `MaxReq`, `MaxJobs`, `MaxAlloc`) bound
how many programs, requests, jobs and allocations there are, not how they
interleave. `MutexInit` is {0, 1} in every run. `StaleCode` has an invalid
command and what a former process of the workload may leave: P, V and exec in
`kernel_sems`, V and disk requests in `kernel_table`, P in `chicos`; with more the
runs grow out of reach, and the theorems hold for any `StaleCode`. Only
`kernel_wake`, which looks for a behaviour that needs none, has fresh memory.
Two simulators and two passwords are the least that can disagree
about an account, `Pages = 1` makes a leaked region matter at once; the dialogue
has no bound on its attempts, exits and restarts. Two signals let a second
handler come while the first one logs, on the same thread or another; `Workers`
leaves the disk thread out of `session`, since its loop is the printer's and
nobody waits for its semaphore (with all three the run takes ten times as long
and shows the same); `session_quit` has all three.

**Deadlock** is checked where the system cannot stop (`login`, `session_quit`,
the disk's and the printer's runs). The kernel runs and `chicos` contain the hang
of the first P; those with a user or the disk, and the memory runs, faults, after
which the program has ended (`sys = "down"`); in `session` the handler can lock
itself out. They say `CHECK_DEADLOCK FALSE`.

**Fairness.** Each thread's loop has no exit but shutdown, so each thread is
weakly fair as a whole: `CpuThread`, `DiskThread`, `PrinterThread`,
`RenderThread`, in `ChicOS` `Cpu` and `Disk`, in `Session` every thread that is
not `Forgotten`; a thread that is inside a call goes on. In `Login` the render
thread of each simulator goes on from enter to the end of the attempt
(`Dialogue`). A user need not submit or type anything or answer a prompt, a
signal need not come, a program need not make its next request, and a caller
need not allocate. Nothing is assumed of who wins a semaphore. In `disk` the
requests are finite, as programs are: with endless near requests a far one would
starve, which is the nature of SSTF.

## 4. The proofs

A theorem holds for **every** value of the constants that satisfies the named
assumption of its module; TLC evaluates each assumption on a run. Some theorems
assume more, in their statement: of the workload (`WellFormed`, `NoDisk`,
`SoundBatch`, no user), of the sizes, or of the behaviour (`[]NoStrayWake`,
`[]HoleUntouched`, `[]RoomAbove`). The sections below say what each excludes and
why it must. The conditions on sizes are those of the code: a ring has 64 cells
(`DEFAULT_WAITERS_NUM`), a table 11 slots (`MAX_PCB`), an `i8` ends at 127
(`I8_MAX`), and `cpu.c` loads four `sint` files (`LOAD_MAX`).

Each proof module has inductive invariants (`IInv`, `ChicInv` for the
composition, and those of a single theorem); TLC checked them on the instances
of the component's runs before they were proved (`IInv` of `KernelInv` is an
invariant of a run, the others were checked while the proof was made).

| module | about | assumes |
|---|---|---|
| `KernelProofs` | `Spec` of `Kernel`, `HistSpec` of `KernelHist` | `KernelConstants` |
| `ChicOSProofs` | `ChicSpec` | `KernelConstants`, `ChicConstants` |
| `DiskProofs` | `RaceSpec` | `DiskConstants`, `DiskPrograms` |
| `PrinterProofs` | `Spec` of `Printer` | `PrinterConstants` |
| `MemoryProofs` | `HistSpec` of `MemoryHist` | `MemoryConstants` |
| `SessionProofs` | `Spec` of `Session` | `SessionConstants` |
| `LoginProofs` | `HistSpec` of `LoginHist` | `LoginConstants` |

### 4.1 The kernel: `KernelProofs`

`KernelProofs` proves for **every** value of the constants that satisfies
`KernelConstants` (a table of 2 to 256 slots, any programs, any semaphores, any
stale memory, any number of submissions):

| theorem | statement |
|---|---|
| `NextInv` | `IInv /\ [Next]_vars => IInv'` |
| `InvariantHolds` | `Spec => []IInv` |
| `TypeCorrect` | `Spec => []TypeOK` |
| `AtMostOneRunning` | `Spec => []OneRunning` |
| `TableOrdered` | `Spec => []PidsAscend` |
| `LastIsSound` | `Spec => []LastBoundsLive` |
| `WaitersAreQueued` | `MAX_PCB <= WAITERS_NUM`: `Spec => []WaitingIsQueued` |
| `ValuesCountWaiters` | `MAX_PCB <= WAITERS_NUM`, `MAX_PCB <= I8_MAX + 2`: `Spec /\ [](\A s \in Sems : value[s] < I8_MAX) => []ValueCountsWaiters` |
| `MutualExclusion` | `WellFormed`, `MAX_PCB <= I8_MAX + 3`: `HistSpec /\ []NoStrayWake => []ExclusionUnlessStray` |
| `BatchSynchronises` | `WellFormed`, `NoDisk`, the sizes, `I8_MAX > 1`: `HistSpec => [](ExclusionUnlessStray /\ (stray \/ ValueCountsWaiters))` |
| `LeaversHaveCause` | `Spec => LeaversExplained` |
| `RemovedWereKilled` | `Spec /\ []HoleUntouched => OnlyKilledLeave` |
| `BatchRemovesKilled` | `NoDisk`, no user: `Spec => OnlyKilledLeave` |
| `BatchNeverFaults` | `SoundBatch`, `NoDisk`, no screen, no user, `LOAD_MAX < MAX_PCB`: `Spec => []NoFault` |

**The table.** `OneRunning` is not inductive. A process is RUNNING only by
`Dispatch`, so one needs that at `Dispatch` no other is: `RunInv` says that a
RUNNING process is the selected one, stands below `last`, and is gone once
`scheduler_no_running` has passed it. That loop stops at `last`, so
`LastBoundsLive` is needed (processes are not beyond what the loop looks at),
and this one counts: `Cardinality(Live)` against `last` while `Shift` copies
slots, `SubmitAppend` appends and the hole moves. For a creation that lands in a
compaction one needs to know where processes can stand (`TableInv`: below
`curr`, pids below `curr`, an empty slot shows pid 0) and that the pid to come is
larger than all others (`CreateInv`). `LockInv` keeps the disk's and the render
thread's regions apart, `PlaceInv` says what the CPU thread's indices are at each
place of its code. The proof has one lemma per action, or per group of actions
that leave the same parts alone; lemmas on cardinalities (`AddOne` and its
neighbours) are in `SetLemmas` and are cited by name.

**Who leaves the table.** A compaction overwrites slot after slot (`Hole`); what
stands there was killed or has been copied down (`OverwriteInv`). Two writes break
that, and are the hazards of `scheduler_kill_process`: a creation that lands in
the slot to be overwritten next, and the late half of `p_unblock` that writes
READY over the KILL there. `HoleUntouched` excludes exactly these; a creation or a
write anywhere else in the table is harmless. `LeaversHaveCause` assumes nothing
and says what the two cost: who is killed is at its end (`EndedInv`), so the
process that the disk revives there has nothing more to do, and the one created
there has not begun; a process that waits, or has begun and not ended, is never
overwritten (`LostInv`).

**The semaphores never lose a waiter.** That a waiter is queued, and that the
value of a semaphore counts its queue, fails when a ring or an `i8` overflows,
and nothing in the code tests for either. `ClaimsInv` is the reason they do not:
the cells of all rings, the requests the disk has not finished, and the one it
is finishing are together at most as many as the processes that stand BLOCKED or
WAITING. It is a count and not a correspondence, because the late half of
`p_unblock` may let a waiting process go while its cell stays: then the process
the disk has served stays blocked instead and is charged for the cell. A process
that executes a P is not stopped (`SelectInv`), hence there is room for one more
cell. Downwards an `i8` is safe for the same reason; upwards a program may call V
as often as it likes, which is the hypothesis of `ValuesCountWaiters` (the hazard
at semaphore/semaphore.c:39).

**Mutual exclusion.** `WellFormed` says that each program names the semaphores it
uses in its header and alternates P and V on each, P first. That is all that is
assumed of the programs, and nothing of what stands behind their ends: the theorem
speaks of the time until a process past its end executes a P, a V or a disk
request (`stray`), the first moment at which what stands there matters to the
semaphores. `CountInv` then ties a semaphore's value to the processes
between their P and their V, those that wait at the P included: a process that
died inside only lowers the value. `AtInv` says that a process in a ring waits at
a P of that semaphore and `RingsInv` that no process is in two cells, so a V lets
exactly one go, which was inside already in the sense of the count. `HoldsInv` is
`Exclusion` pid by pid, since during a copy of the table one process stands in
two slots. The hypothesis `[]NoStrayWake` excludes the one thing that breaks
exclusion: the disk's late write to a process that waits for a semaphore, which
is what `kernel_wake` shows the code to do. Without disk instructions
(`NoDisk`, in the programs and on the pages they may run into) there is no such
write, and `BatchSynchronises` does without the hypothesis; the former programs'
P and V remain, and `stray` with them.

**A batch never faults.** `NoFault` fails for a file or track that does not
exist, for a creation when the table is full (`LogUnknown`), and for the panel and
`scheduler_get_process` when they meet an empty slot below `last`. `SoundBatch`
excludes the first for the `sint` files, and asks that each has at least `n - 2`
instructions where `n` files are loaded. That last condition is needed: `curr` is
never decremented, so when a program has left before the last one is created,
that one is put behind an empty slot (the `gap` of `ChicOS`). The
invariant is `FilledInv`: while programs are created nobody can have ended, as
one instruction at most is passed per quantum and one program created in each
(`BatchInv`); an instruction counts as passed only once its remaining time is
used up, for which `RemInv` relates `rem` to the program. Afterwards nothing is
created, and each compaction closes the slot that it opened, so the occupied
slots are always exactly those below `last`, up to the hole that is being moved.

`ChicOSProofs` EXTENDS this module and proves that the kernel with its disk
inherits what is proved here.

### 4.2 Accounts: `LoginProofs`

`LoginProofs` proves for any number of simulators, names and passwords, and any
way the file gives a name back (`LoginConstants` is the only assumption):

| theorem | statement |
|---|---|
| `LoginInductive` | `IInv /\ [HistNext]_histVars => IInv'` |
| `LoginTypeCorrect` | `HistSpec => []TypeOK` |
| `OnlyOwnersIn` | `HistSpec => []OwnerLoggedIn` |
| `NoRegionLeaks` | `HistSpec => []OneRegionPerUser` |
| `EmptyHasCause` | `HistSpec => []EmptyIsExplained` |
| `PasswordsKept` | `HistSpec => PasswordKept` |

**The argument.** A simulator decides to create an account when `access` finds
no file, and truncates and writes it two and more calls later; the properties
hold only if the file is then still what it was. `CreatorInv` says so: until
another simulator creates the same account, the file is absent before `fopen`
and empty after it. To know that no other one is at work one needs that
`overlap` has recorded every pair (`PairsSeen`). `FileStep` states which steps
change a file at all; the properties follow from it and `CreatorInv`, one lemma
each. That whoever types her own password gets in (`OwnerGetsIn`) is liveness
and stays with TLC.

### 4.3 The kernel with its disk: `ChicOSProofs`

For any table of 2 to 256 slots, any programs, users' submissions, tracks and
service time:

| theorem | statement |
|---|---|
| `ChicInductive` | `ChicSpec => []ChicInv` |
| `DiskDelivers` | `ChicSpec => KernelUntilRaced` |
| `ImplementsKernel` | `ChicSpec /\ []~raced => Spec` |
| `BlockedHaveRequests` | `ChicSpec => []BlockedIsServed` |
| `QueueNeverFull` | `ChicSpec => [](raced \/ (put # "idle" => len < MAX_PCB - 1))` |
| `WaitersQueuedWithDisk` | `MAX_PCB <= WAITERS_NUM`: `ChicSpec => [](raced \/ WaitingIsQueued)` |
| `ValuesCountWithDisk` | the sizes: `ChicSpec /\ [](\A s \in Sems : value[s] < I8_MAX) => [](raced \/ ValueCountsWaiters)` |
| `ExclusionWithDisk` | `WellFormed`, `MAX_PCB <= I8_MAX + 3`: `ChicSpec => [](raced \/ stale \/ ExclusionUnlessStray)` |
| `DownHasCause` | no screen, no user, `LOAD_MAX < MAX_PCB`: `ChicSpec => []DownIsExplained` |

**The refinement.** `ChicInv` is `raced` or the conjunction `CoreInv`. For the
refinement one needs that what the disk reports was issued (`IssuedInv`: the
requests of a pid that are anywhere in the disk, `IssuedBy(p)`, are at most
`io[p]`). That in turn needs that no request is lost or doubled, hence that
`q_put` never meets a full queue: the code has no test for it. The reason is a
count. The disk's requests (`Places`: in the queue, on the way in, on the way
out) and the pids in the rings of the semaphores are together at most as many as
the processes that stand BLOCKED or WAITING (`StoppedInv`), and the process that
is about to issue a request is not one of those (`SelectInv`). The count is all
that can be said: a write to a moved slot (`stale`) may unblock the wrong
process, so a request need not belong to a process that waits for it; each
accident takes one request away with each process it lets go. Without such a
write the request is the process's own (`ServedInv`), which is
`BlockedIsServed`. `HoleInv` makes `p_find` meet the live copy first while a
compaction has two. Steps of the queue are handled by injections from the places
after the step into those before it (`NotMore` of `SetLemmas`). As in the model,
the render thread takes no step between those of one `q_put`: it shares no
variable with them.

**Semaphores with the disk.** The step lemmas are those of `KernelProofs`; what
`Kernel` assumes of its disk is here proved of it. `StoppedInv` takes the place
of `ClaimsInv`. For `ExclusionWithDisk` one shows that the disk wakes no waiter:
until a moved slot is written (`stale`), `p_unblock` writes to the process whose
request was served, and by `ServedInv` that one is blocked. So the hypothesis
`[]NoStrayWake` of `MutualExclusion` becomes a disjunct that names the accident: the
theorem has no hypothesis on the behaviour, and its conclusion names the three
accidents that end exclusion (`raced`, `stale`, `stray`).

**Every fault has a cause.** `DownIsExplained` names four. The first three are
accidents, and what is to be shown is that without them (`~Tainted`) only a
broken file or a track beyond the last one remains. `SoundInv` holds until then:
no gap between compactions, every process started from the `sint` files
(`OriginInv`), `RemInv` and `BatchInv`. `UnblockFault` needs that the disk
reports a process that exists (`ReportFinds`); a request beyond the last track is
made by an instruction of a `sint` file or of a stale page (`MissExplained`).
There is no screen and no user because those have causes that the property does
not name: the panel draws while a compaction is at its last copy, and a
submission finds the table full.

### 4.4 The disk and its users: `DiskProofs`

For any number of processes, queue entries up to 255, tracks, service time and
requests of each process:

| theorem | statement |
|---|---|
| `DiskInductive` | `RaceSpec => []IInv` |
| `DiskTypeCorrect` | `RaceSpec => []TypeOK` |
| `QueueIsBlocked` | `RaceSpec => []QueueExact` |
| `NothingElseServed` | `RaceSpec => []OneInService` |
| `SortIsSSTF` | `RaceSpec => ClosestFirst` |

**The argument.** After an overlap of `q_put` and `q_remove` only `PlaceInv`
remains: every index is one of the queue, which is what type correctness needs.
Until then `LoadedInv` says that the value of `len` each thread has loaded is
still that of the queue, `OwnerInv` that every blocked process has exactly one
request among `Entries` (what is queued, without the entry `q_remove` is
overwriting), on its way in, or on its way out, and `ServiceInv` that a request
served in part stands first and on the track of the head; `sort_disk` leaves it
there, since no seek is shorter than none (`SortSwaps`). That the loop of `sort_disk`
leaves a first minimum is proved of the loop, whose turns are `Minima` of
`SetLemmas`: `LoopRuns` shows that the defining equation of `Scan` has a solution
(`ScanIs`), and `LoopFinds` that after every turn the local index is the first
cheapest of the entries visited and the local minimum its cost, by excluding a
least turn after which it is not.

### 4.5 The pool: `MemoryProofs`

For any number of pages, sizes, threads and allocations, and whichever callers
survive a failed allocation (`Checked`):

| theorem | statement |
|---|---|
| `MemoryInductive` | `HistSpec => []IInv` |
| `MemoryTypeCorrect` | `HistSpec => []TypeOK` |
| `RegionsApart` | `HistSpec => []RegionsDisjoint` |
| `CountIsExact` | `HistSpec => []CountExact` |
| `CountNeverShort` | `Checked = {}`: `HistSpec /\ []RoomAbove => []CountCovers` |

**Before the first replacement.** `RegionsDisjoint` and `CountExact` speak of the time before the first page
replacement. What has to be shown is that until then nothing else goes wrong:
the test of `free_page_num` is made outside `memory_s`, and a failed allocation
posts a semaphore it has not waited for. Before the first replacement the hand
stands at page 0, where the scan is one page longer than the pool (its end,
`i - 1`, is no page) and therefore never fails: no allocation fails, `memory_s`
is at most 1, one thread at a time takes pages (`MutexInv`), and it takes those
it has searched under the semaphore. `RegionInv` accounts for every page that is
not free; with it the count is a cardinality that `Take` and `c_dealloc` change
by the size of the region.

**Afterwards** regions overlap and are released twice, and what is left is that
the count is never too low (`CoverInv`): a page that is taken back or released
although it is free is counted again, never the other way round, and the pages
that `Take` counts off are free, since `memory_s` stayed a mutex from the search
on. That it stays one is where `Checked = {}` enters: a failed allocation posts
`memory_s` without having waited, and goes down with the program when its caller
does not test the result. `read_login_data` (user/user.c:120) is the only caller
that does; with it two threads may take the same region, counting it off twice.
`RoomAbove` says that the counter is not within one region of 2^32: each page
counted again raises it for good.

### 4.6 A run from start to end: `SessionProofs`

For every build, with and without a screen, and any number of signals and
resizes:

| theorem | statement |
|---|---|
| `SessionInductive` | `IInv /\ [Next]_vars => IInv'` |
| `SessionTypeCorrect` | `Spec => []TypeOK` |
| `PoolIsLast` | `Spec => []PoolOutlivesThreads` |
| `RendererExclusive` | `Spec => []SemBalanced` |
| `WritersStop` | `Spec => NoLateWriters` |

**The argument.** `JoinInv` and `AbsentInv` together say that past the joins no
thread is left, in its own code, in a log call or in a handler. The semaphore of
the log is initialised by `bootstrap_ui` and, after a resize, again: `ActiveInv`
says that before the first time nobody is past the test of `active`, and that
the way through the second one is taken only after a resize; `UnitInv` counts
the value and the holders from then on, handlers on top of log calls included.

### 4.7 The printer: `PrinterProofs`

For any finite number of nodes, any processes, print times and number of
requests:

| theorem | statement |
|---|---|
| `PrinterInductive` | `IInv /\ [Next]_vars => IInv'` |
| `PrinterTypeCorrect` | `Spec => []TypeOK` |
| `ListStaysSound` | `Spec => []ListSound` |
| `NothingLeaks` | `Spec => []NoLeak` |
| `ImplementsQueue` | `Spec => PQ!Safety` |

**The argument.** The invariant says that there is a sequence of nodes `s` that
is the list (`IsList`: each node once, each pointing to the next, the last to
nowhere) and accounts for all that is allocated. Each step has one lemma that
names the sequence after it: `Append(s, new)`, `Tail(s)`, or `s`. Two parts of
the invariant are not among the properties: a node whose printing is over is
released and may be listed again while `printer_buffer` still leads to it
(`Printing` is empty at `clear`), and it is released only with no time left,
which `PrintQueue` wants of a job that ends. That `Listed`, which the properties
and the refinement mapping use, is this sequence (`Found`) is a statement about
the recursive function `Chain`: `Iterates` of `SetLemmas` shows that its defining
equation has a solution, and `ChainFinds` excludes a least suffix of the list
that it would not find. `ImplementsQueue` is the safety part of
`ImplementsPrintQueue`; its fairness stays with TLC.

### 4.8 Only model-checked

* Liveness (`TerminateUnlessStray`, `Unblocked`, `TerminateUnlessTainted`,
  `AllocReturns`, `OwnerGetsIn`, `QuitEnds`): liveness under fairness and
  `ENABLED` are beyond the prover.
* The fairness part of `ImplementsPrintQueue`.
* What the theorems' own hypotheses leave out: `DownIsExplained` with a screen or
  a user, and `CountCovers` next to a caller that tests for NULL, are not claimed
  at all, and no run checks them.
* That `Done`, `Chain` and the other recursive functions compute what they should
  for every input is not proved by induction; the proofs use their equations.

Every safety invariant and action property that a passing run checks is also
proved.

## 5. What is not modelled

* The command line (`handle_args`, with its uninitialised array): read once,
  reduced to the choice of a screen.
* Malformed instructions in a program file, lines of 16 characters and more
  (`init_code_section` reads them in pieces), programs longer than their page:
  data behind the kernel's abstraction of a program.
* The ring of `waiter_push` and `waiter_pop` as head and tail: it stands for a
  bounded sequence. The limit of 32 semaphore names.
* Page replacement's effect on the data of the other parts.
* Drawing, formatting, `auth.log`: no state of the system.
* Never reached in the code: `p_interrupt`, `get_pid`, `c_realloc`,
  `is_mem_free`, `print_page_table_status`, `close_file`, and the events nobody
  raises. The branch of `init_code_section` for an empty file is not reached
  either: the header's loop has then already run past its end.
* src/vendor: libsodium and PDCurses.

## 6. Plan

Done: `Kernel` and `Login` with their proofs, `Disk`, `ChicOS`, `Printer`,
`Memory`, `Session`.

Theorems proved: the table, the semaphores and the faults of the kernel,
accounts, the disk and its users, the printer, the pool before and after the
first replacement, start and end; that the kernel with its disk implements
`Kernel` until the disk's queue is raced, keeps its semaphores sound and goes
down only for the causes named, and that the printer's list implements its queue.

To come, in this order:

1. The ring of waiters against the bounded sequence that `Kernel` uses.
2. `BatchNeverFaults` with disk instructions, on the causes that `DownHasCause`
   names.
3. A bound on `free_page_num` from the number of allocations, in place of
   `RoomAbove`.
