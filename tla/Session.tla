------------------------------ MODULE Session ------------------------------
(***************************************************************************)
(* A run of the simulator from main to its end (chicos.c): the threads it  *)
(* starts and joins, CTRL+C, the life of the UI (init_render, render_loop, *)
(* clear_renderer in render.c) and the logger that writes into the UI's    *)
(* buffer (c_log in log.c, render_log).                                    *)
(*                                                                         *)
(* A signal handler runs on top of whatever its thread was doing: a log    *)
(* call of a thread ("own") and one of its handler ("hand") are two frames *)
(* and the lower one waits for the upper one.                              *)
(***************************************************************************)
EXTENDS Integers, FiniteSets

CONSTANTS
  Builds,      \* values of app.debug: BUILD_TYPE is set at compile time
  Screens,     \* values of should_render
  Workers,     \* the threads that only loop, or those of them to look at
  MaxSignals,  \* bound on the number of CTRL+C
  MaxResizes   \* bound on the number of resizes of the terminal

ASSUME SessionConstants ==
  /\ Builds \subseteq BOOLEAN /\ Screens \subseteq BOOLEAN
  /\ {"cpu", "printer"} \subseteq Workers
  /\ Workers \subseteq {"cpu", "disk", "printer"}
  /\ MaxSignals \in Nat /\ MaxResizes \in Nat

VARIABLES
  debug, ui,           \* app.debug, should_render
  loop_stop, signals,  \* app.loop_stop; how often CTRL+C was pressed
  resized, resizes,    \* the flag of handle_resize; how often it was set
  pc,                  \* where each thread is
  log,                 \* where each frame is in c_log
  renderer_s, active,  \* app.rdr
  buff,                \* app.rdr.output_buff: "null", "live" or "released"
  ready,               \* semaphores that their threads have initialised
  lost                 \* frames that sleep on a semaphore whose count of
                       \* sleepers was reset by sem_init: nobody need wake them

config == <<debug, ui>>
interrupts == <<loop_stop, signals, resized, resizes>>
rdr == <<renderer_s, active, buff>>
vars == <<config, interrupts, pc, log, rdr, ready, lost>>

-----------------------------------------------------------------------------
Started == Workers \cup {"render"}
Threads == Started \cup {"main"}
Frames == Threads \X {"own", "hand"}

Wanted == IF ui THEN Started ELSE Workers

\* init_app creates the threads in this order.
Rank == [t \in Started |-> CASE t = "cpu" -> 1 [] t = "disk" -> 2
                             [] t = "printer" -> 3 [] t = "render" -> 4]

Alive(t) == pc[t] \notin {"none", "ended", "exited"}
Goto(t, p) == pc' = [pc EXCEPT ![t] = p]

\* The thread runs its own code: it is in no handler and in no log call.
Runs(t, p) == pc[t] = p /\ log[<<t, "own">>] = "no" /\ log[<<t, "hand">>] = "no"

Init ==
  /\ debug \in Builds /\ ui \in Screens
  /\ loop_stop = FALSE /\ signals = 0 /\ resized = FALSE /\ resizes = 0
  /\ pc = [t \in Threads |-> IF t = "main" THEN "create" ELSE "none"]
  /\ log = [f \in Frames |-> "no"]
  /\ renderer_s = 0 /\ active = FALSE /\ buff = "null"
  /\ ready = {} /\ lost = {}

-----------------------------------------------------------------------------
(* Main thread: init_app and clear_app. *)

Create(t) ==
  /\ Runs("main", "create") /\ t \in Wanted /\ pc[t] = "none"
  /\ \A u \in Wanted : Rank[u] < Rank[t] => pc[u] # "none"
  /\ Goto(t, "start")
  /\ UNCHANGED <<config, interrupts, log, rdr, ready, lost>>

Created ==
  /\ Runs("main", "create") /\ \A t \in Wanted : pc[t] # "none"
  /\ Goto("main", "join")
  /\ UNCHANGED <<config, interrupts, log, rdr, ready, lost>>

\* MUTANT: clear_app does not join the render thread.
JoinWorkers ==
  /\ Runs("main", "join") /\ \A t \in Workers : pc[t] = "ended"
  /\ Goto("main", "free")
  /\ UNCHANGED <<config, interrupts, log, rdr, ready, lost>>

\* pthread_join, one after the other.
Join ==
  /\ Runs("main", "join") /\ \A t \in Wanted : pc[t] = "ended"
  /\ Goto("main", "free")
  /\ UNCHANGED <<config, interrupts, log, rdr, ready, lost>>

\* clear_pcb and clear_mem: the pool and the page table are freed.
Free ==
  /\ Runs("main", "free")
  /\ Goto("main", "exited")
  /\ UNCHANGED <<config, interrupts, log, rdr, ready, lost>>

-----------------------------------------------------------------------------
(* CPU, disk and printer thread, reduced to their loops. *)

\* The render thread waits for this thread's semaphore, or is about to.
Awaits(t) == \/ t = "cpu" /\ pc["render"] = "submit"
             \/ t = "printer" /\ pc["render"] = "print"

\* init_cpu, init_disk, init_printer.  sem_init forgets who already sleeps.
InitThread(t) ==
  /\ Runs(t, "start")
  /\ ready' = ready \cup {t}
  /\ \/ lost' = lost
     \/ Awaits(t) /\ lost' = lost \cup {<<"render", "own">>}
  /\ Goto(t, "loop")
  /\ UNCHANGED <<config, interrupts, log, rdr>>

\* One turn of cpu_loop, disk_loop or printer_loop: it ends, or it goes on and
\* may log something on the way.  Of the CPU's turns those that return: one that
\* hangs in semaphoreP is Kernel's Hang, and clear_app would wait for it.
Turn(t) ==
  /\ Runs(t, "loop")
  /\ \/ loop_stop /\ Goto(t, "ended") /\ log' = log
     \/ ~loop_stop /\ log' = [log EXCEPT ![<<t, "own">>] = "test"] /\ pc' = pc
  /\ UNCHANGED <<config, interrupts, rdr, ready, lost>>

-----------------------------------------------------------------------------
(* Render thread: init_render. *)

\* bootstrap_ui; c_alloc logs, and the UI is active by then.
Boot ==
  /\ Runs("render", "start")
  /\ renderer_s' = 1 /\ active' = TRUE
  /\ log' = [log EXCEPT ![<<"render", "own">>] = "test"]
  /\ Goto("render", "alloc")
  /\ UNCHANGED <<config, interrupts, buff, ready, lost>>

AllocBuff ==
  /\ Runs("render", "alloc")
  /\ buff' = "live"
  /\ Goto("render", IF debug THEN "loop" ELSE "login")
  /\ UNCHANGED <<config, interrupts, log, renderer_s, active, ready, lost>>

\* The user gets through login_flow, which does not look at loop_stop.
login_flow ==
  /\ Runs("render", "login")
  /\ Goto("render", "loop")
  /\ UNCHANGED <<config, interrupts, log, rdr, ready, lost>>

\* The panels are drawn; on the way the user may have pressed p.
Panels == Goto("render", "path") \/ Goto("render", "print")

RenderLoop ==
  /\ Runs("render", "loop")
  /\ \/ loop_stop /\ Goto("render", "clear") /\ resized' = resized
     \/ ~loop_stop /\ resized /\ Goto("render", "resize") /\ resized' = FALSE
     \/ ~loop_stop /\ ~resized /\ Panels /\ resized' = resized
  /\ UNCHANGED <<config, loop_stop, signals, resizes, log, rdr, ready, lost>>

\* After a resize bootstrap_ui runs again, under the feet of the loggers ...
Reboot ==
  /\ Runs("render", "resize")
  /\ renderer_s' = 1 /\ active' = TRUE
  /\ \E asleep \in SUBSET {f \in Frames : log[f] = "wait"} : lost' = lost \cup asleep
  /\ log' = [log EXCEPT ![<<"render", "own">>] = "test"]
  /\ Goto("render", "realloc")
  /\ UNCHANGED <<config, interrupts, buff, ready>>

ReallocBuff ==
  /\ Runs("render", "realloc")
  /\ buff' = "live"
  /\ Goto("render", "unmake")
  /\ UNCHANGED <<config, interrupts, log, renderer_s, active, ready, lost>>

\* ... and clear_renderer takes all of it down again.
ClearBuff ==
  /\ Runs("render", "clear") \/ Runs("render", "unmake")
  /\ buff' = "released"
  /\ Goto("render", IF pc["render"] = "clear" THEN "inactive" ELSE "reinit")
  /\ UNCHANGED <<config, interrupts, log, renderer_s, active, ready, lost>>

\* MUTANT: active is not reset.
ClearDoneActive ==
  /\ \/ Runs("render", "inactive") /\ Goto("render", "ended")
     \/ Runs("render", "reinit") /\ Panels
  /\ active' = active
  /\ UNCHANGED <<config, interrupts, log, renderer_s, buff, ready, lost>>

ClearDone ==
  /\ \/ Runs("render", "inactive") /\ Goto("render", "ended")
     \/ Runs("render", "reinit") /\ Panels
  /\ active' = FALSE
  /\ UNCHANGED <<config, interrupts, log, renderer_s, buff, ready, lost>>

\* read_path ends when the user presses enter or escape, for no other reason.
read_path ==
  /\ Runs("render", "path")
  /\ Goto("render", "submit") \/ Goto("render", "print")
  /\ UNCHANGED <<config, interrupts, log, rdr, ready, lost>>

\* interrupt_control(process_create) under cpu_s; p_create logs.
Submit ==
  /\ Runs("render", "submit") /\ "cpu" \in ready
  /\ lost' = lost \ {<<"render", "own">>}
  /\ log' = [log EXCEPT ![<<"render", "own">>] = "test"]
  /\ Goto("render", "print")
  /\ UNCHANGED <<config, interrupts, rdr, ready>>

\* print_event: get_print_time under printer_s.
print_event ==
  /\ Runs("render", "print") /\ "printer" \in ready
  /\ lost' = lost \ {<<"render", "own">>}
  /\ Goto("render", "loop")
  /\ UNCHANGED <<config, interrupts, log, rdr, ready>>

-----------------------------------------------------------------------------
(* The logger, in any frame, and the signals. *)

Top(t, f) == f = "hand" \/ log[<<t, "hand">>] = "no"

\* c_log: a call goes to the UI only if it is active, in a debug build.
LogTest(t, f) ==
  /\ log[<<t, f>>] = "test" /\ Top(t, f)
  /\ log' = [log EXCEPT ![<<t, f>>] = IF active /\ debug THEN "wait" ELSE "no"]
  /\ UNCHANGED <<config, interrupts, pc, rdr, ready, lost>>

\* MUTANT: render_log does not wait.
LogEnter(t, f) ==
  /\ log[<<t, f>>] = "wait" /\ Top(t, f)
  /\ renderer_s' = renderer_s - 1
  /\ log' = [log EXCEPT ![<<t, f>>] = "hold"]
  /\ lost' = lost \ {<<t, f>>}
  /\ UNCHANGED <<config, interrupts, pc, active, buff, ready>>

\* render_log: sem_wait.
LogWait(t, f) ==
  /\ log[<<t, f>>] = "wait" /\ Top(t, f) /\ renderer_s > 0
  /\ renderer_s' = renderer_s - 1
  /\ log' = [log EXCEPT ![<<t, f>>] = "hold"]
  /\ lost' = lost \ {<<t, f>>}
  /\ UNCHANGED <<config, interrupts, pc, active, buff, ready>>

\* MUTANT: render_log returns early when there is no buffer.
LogWriteReturns(t, f) ==
  /\ log[<<t, f>>] = "hold" /\ Top(t, f)
  /\ renderer_s' = IF buff = "null" THEN renderer_s ELSE renderer_s + 1
  /\ log' = [log EXCEPT ![<<t, f>>] = "no"]
  /\ UNCHANGED <<config, interrupts, pc, active, buff, ready, lost>>

\* It copies into the buffer, if there is one, and posts.
LogWrite(t, f) ==
  /\ log[<<t, f>>] = "hold" /\ Top(t, f)
  /\ renderer_s' = renderer_s + 1
  /\ log' = [log EXCEPT ![<<t, f>>] = "no"]
  /\ UNCHANGED <<config, interrupts, pc, active, buff, ready, lost>>

Log(t) == \E f \in {"own", "hand"} : LogTest(t, f) \/ LogWait(t, f) \/ LogWrite(t, f)

\* CTRL+C: handle_signal on any thread that does not already run it.  c_info
\* is below the log level of a release build.
handle_signal(t) ==
  /\ signals < MaxSignals /\ Alive(t) /\ log[<<t, "hand">>] = "no"
  /\ signals' = signals + 1 /\ loop_stop' = TRUE
  /\ log' = IF debug THEN [log EXCEPT ![<<t, "hand">>] = "test"] ELSE log
  /\ UNCHANGED <<config, resized, resizes, pc, rdr, ready, lost>>

\* render_loop has installed its handler by now.
handle_resize ==
  /\ resizes < MaxResizes
  /\ Alive("render") /\ pc["render"] \notin {"start", "alloc", "login"}
  /\ resizes' = resizes + 1 /\ resized' = TRUE
  /\ UNCHANGED <<config, loop_stop, signals, pc, log, rdr, ready, lost>>

-----------------------------------------------------------------------------
Main == \/ \E t \in Started : Create(t)
        \/ Created \/ Join \/ Free \/ Log("main")

Worker(t) == InitThread(t) \/ Turn(t) \/ Log(t)

Render == \/ Boot \/ AllocBuff \/ RenderLoop
          \/ Reboot \/ ReallocBuff \/ ClearBuff \/ ClearDone
          \/ Submit \/ print_event \/ Log("render")

Stopped == pc["main"] = "exited" /\ UNCHANGED vars

Next == \/ Main \/ Render \/ \E t \in Workers : Worker(t)
        \/ login_flow \/ read_path
        \/ \E t \in Threads : handle_signal(t)
        \/ handle_resize \/ Stopped

Spec == Init /\ [][Next]_vars

\* Nobody need wake the frame in which the thread sleeps.
Forgotten(t) == \/ <<t, "hand">> \in lost
                \/ <<t, "own">> \in lost /\ log[<<t, "hand">>] = "no"

\* Every thread goes on, except one whose wake-up was forgotten; the user need
\* not answer a dialogue.
Fairness == /\ WF_vars(Main /\ ~Forgotten("main"))
            /\ WF_vars(Render /\ ~Forgotten("render"))
            /\ \A t \in Workers : WF_vars(Worker(t) /\ ~Forgotten(t))
FairSpec == Spec /\ Fairness

-----------------------------------------------------------------------------
(* Properties. *)

\* Types of all variables (chicos.h, render.h and the threads' places).
TypeOK ==
  /\ debug \in BOOLEAN /\ ui \in BOOLEAN
  /\ loop_stop \in BOOLEAN /\ signals \in 0 .. MaxSignals
  /\ resized \in BOOLEAN /\ resizes \in 0 .. MaxResizes
  /\ pc \in [Threads -> {"none", "start", "loop", "ended", "create",
                         "join", "free", "exited", "alloc", "login",
                         "path", "submit", "print", "clear", "inactive",
                         "resize", "realloc", "unmake", "reinit"}]
  /\ log \in [Frames -> {"no", "test", "wait", "hold"}]
  /\ renderer_s \in Nat /\ active \in BOOLEAN
  /\ buff \in {"null", "live", "released"}
  /\ ready \subseteq Started /\ lost \subseteq Frames

Holding == {f \in Frames : log[f] = "hold"}
Writing == {f \in Frames : log[f] \in {"wait", "hold"}}

\* The pool is freed only when no thread and no handler can use it any more,
\* wherever the signals arrive.
PoolOutlivesThreads ==
  pc["main"] = "exited" =>
    (\A t \in Started : ~Alive(t)) /\ \A f \in Frames : log[f] = "no"

\* render_log is exclusive: renderer_s counts the one logger that may be in,
\* handlers on top of log calls included.  Only a resize, which initialises
\* the semaphore again, can break it.
SemBalanced ==
  active /\ resizes = 0 => renderer_s + Cardinality(Holding) = 1

\* Once the render thread has ended nobody starts to write into its buffer,
\* which is released: clear_renderer leaves no stale active behind.
NoLateWriters == [][pc["render"] = "ended" => Writing' \subseteq Writing]_vars

\* A handler waits for the semaphore that its own thread holds.
SelfDeadlock ==
  \E t \in Threads : log[<<t, "own">>] = "hold" /\ log[<<t, "hand">>] = "wait"

\* After CTRL+C the simulator ends, unless a dialogue waits for the user, the
\* handler has locked itself out or a sem_init has forgotten a sleeper: no
\* other order of signals, log calls and loops keeps a thread from ending.
QuitEnds ==
  loop_stop ~> \/ pc["main"] = "exited"
               \/ pc["render"] \in {"login", "path"}
               \/ SelfDeadlock \/ lost # {}

\* "Press CTRL+C to quit", says the status bar.
CtrlCQuits ==
  (loop_stop /\ pc["render"] \in {"path", "submit", "print", "loop"})
    ~> pc["main"] = "exited"
=============================================================================
