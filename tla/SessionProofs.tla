---------------------------- MODULE SessionProofs ---------------------------
(***************************************************************************)
(* Theorems about a run of the simulator, for any of its builds, with and  *)
(* without a screen, and for any number of signals and resizes.            *)
(***************************************************************************)
EXTENDS Session, FiniteSetTheorems, TLAPS

\* Threads that are not there have no log call and no handler, and a thread
\* that was not asked for is never there.
AbsentInv ==
  /\ \A t \in Threads : ~Alive(t) =>
       \A f \in {"own", "hand"} : log[<<t, f>>] = "no"
  /\ \A t \in Started \ Wanted : pc[t] = "none"

\* The main thread passes its joins only when every thread has ended.
JoinInv ==
  /\ pc["main"] \in {"create", "join", "free", "exited"}
  /\ pc["main"] \in {"free", "exited"} => \A t \in Wanted : pc[t] = "ended"

\* The UI takes log calls between bootstrap_ui and the end of clear_renderer.
\* The way through Reboot is only taken after a resize.
ActiveInv ==
  /\ pc["render"] \in {"none", "start"} =>
       /\ ~active /\ renderer_s = 0
       /\ \A f \in Frames : log[f] \in {"no", "test"}
  /\ pc["render"] = "ended" => ~active
  /\ resized \/ pc["render"] \in {"resize", "realloc", "unmake", "reinit"} =>
       resizes > 0

\* The semaphore and the loggers that hold it make one.
UnitInv ==
  resizes = 0 /\ pc["render"] \notin {"none", "start"} =>
    renderer_s + Cardinality(Holding) = 1

\* The inductive invariant.
IInv == TypeOK /\ AbsentInv /\ JoinInv /\ ActiveInv /\ UnitInv

-----------------------------------------------------------------------------
(* Threads and frames. *)

\* The main thread is none of those it starts, and each frame is one.
LEMMA ThreadFacts ==
  /\ "main" \notin Started /\ "main" \in Threads /\ "render" \in Threads
  /\ "render" \notin Workers /\ Workers \subseteq Threads
  /\ Wanted \subseteq Started /\ Workers \subseteq Wanted
  /\ \A t \in Threads, f \in {"own", "hand"} : <<t, f>> \in Frames
BY SessionConstants DEF Started, Threads, Frames, Wanted

LEMMA FramesFinite ==
  /\ IsFiniteSet(Frames) /\ IsFiniteSet(Holding) /\ Cardinality(Holding) \in Nat
<1>1. Frames \subseteq {"cpu", "disk", "printer", "render", "main"} \X {"own", "hand"}
  BY SessionConstants DEF Frames, Threads, Started
<1>2. IsFiniteSet({"own", "hand"})
  <2>1. IsFiniteSet({"own"} \cup {"hand"})
    BY FS_Singleton, FS_AddElement
  <2>2. {"own"} \cup {"hand"} = {"own", "hand"}
    OBVIOUS
  <2> QED BY <2>1, <2>2
<1>3. IsFiniteSet({"cpu", "disk", "printer", "render", "main"})
  <2>1. IsFiniteSet({"cpu"} \cup {"disk"})
    BY FS_Singleton, FS_AddElement
  <2>2. IsFiniteSet(({"cpu"} \cup {"disk"}) \cup {"printer"})
    BY <2>1, FS_AddElement
  <2>3. IsFiniteSet((({"cpu"} \cup {"disk"}) \cup {"printer"}) \cup {"render"})
    BY <2>2, FS_AddElement
  <2>4. IsFiniteSet(((({"cpu"} \cup {"disk"}) \cup {"printer"}) \cup {"render"}) \cup {"main"})
    BY <2>3, FS_AddElement
  <2>5. ((({"cpu"} \cup {"disk"}) \cup {"printer"}) \cup {"render"}) \cup {"main"} =
          {"cpu", "disk", "printer", "render", "main"}
    OBVIOUS
  <2> QED BY <2>4, <2>5
<1>4. IsFiniteSet(Frames)
  BY <1>1, <1>2, <1>3, FS_Product, FS_Subset
<1>5. Holding \subseteq Frames
  BY DEF Holding
<1> QED BY <1>4, <1>5, FS_Subset, FS_CardinalityType

-----------------------------------------------------------------------------
(* Types. *)

\* The steps of the render thread on whose way something is logged.
Calls == Boot \/ Reboot \/ Submit

\* The steps in which a thread moves on in its own code and in no log call.
Moves ==
  \/ \E t \in Started : Create(t)
  \/ Created \/ Join \/ Free
  \/ \E t \in Workers : InitThread(t)
  \/ AllocBuff \/ RenderLoop \/ ReallocBuff \/ ClearBuff \/ ClearDone
  \/ print_event \/ login_flow \/ read_path

\* The steps of a log call, in a thread's own code or in its handler.
Logs == \E t \in Threads, f \in {"own", "hand"} :
          LogTest(t, f) \/ LogWait(t, f) \/ LogWrite(t, f)

LEMMA NextCases ==
  ASSUME [Next]_vars
  PROVE  \/ Moves \/ Logs
         \/ \E t \in Workers : Turn(t)
         \/ Calls \/ (\E t \in Threads : handle_signal(t))
         \/ handle_resize \/ UNCHANGED vars
BY ThreadFacts DEF Next, Main, Worker, Render, Log, Stopped, Moves, Calls, Logs

LEMMA TypeStep ==
  ASSUME TypeOK, [Next]_vars
  PROVE  TypeOK'
<1>1. CASE Moves
  <2>1. CASE (\E t \in Started : Create(t)) \/ Created \/ Join \/ Free
    BY <2>1 DEF TypeOK, Create, Created, Join, Free, Goto, config, interrupts, rdr
  <2>2. CASE \E t \in Workers : InitThread(t)
    <3>1. PICK t \in Workers : InitThread(t)
      BY <2>2
    <3>2. <<"render", "own">> \in Frames
      BY ThreadFacts
    <3>3. t \in Started
      BY DEF Started
    <3> QED BY <3>1, <3>2, <3>3 DEF TypeOK, InitThread, Goto, config, interrupts, rdr
  <2>3. CASE login_flow
    BY <2>3 DEF TypeOK, login_flow, Goto, config, interrupts, rdr
  <2>6. CASE AllocBuff
    BY <2>6 DEF TypeOK, AllocBuff, Goto, config, interrupts
  <2>4. CASE RenderLoop
    BY <2>4 DEF TypeOK, RenderLoop, Panels, Goto, config, rdr
  <2>5. CASE print_event \/ read_path
    BY <2>5 DEF TypeOK, print_event, read_path, Goto, config, interrupts, rdr
  <2>7. CASE ReallocBuff \/ ClearBuff
    BY <2>7 DEF TypeOK, ReallocBuff, ClearBuff, Goto, config, interrupts
  <2>8. CASE ClearDone
    BY <2>8 DEF TypeOK, ClearDone, Panels, Goto, config, interrupts
  <2> QED BY <1>1, <2>1, <2>2, <2>3, <2>4, <2>5, <2>6, <2>7, <2>8 DEF Moves
<1>2. CASE Logs
  <2>1. PICK t \in Threads, f \in {"own", "hand"} :
          LogTest(t, f) \/ LogWait(t, f) \/ LogWrite(t, f)
    BY <1>2 DEF Logs
  <2> QED BY <2>1 DEF TypeOK, LogTest, LogWait, LogWrite, config, interrupts, rdr
<1>3. CASE (\E t \in Workers : Turn(t)) \/ Calls
  <2>1. CASE \E t \in Workers : Turn(t)
    BY <2>1 DEF TypeOK, Turn, Goto, config, interrupts, rdr
  <2>2. CASE Boot
    BY <2>2 DEF TypeOK, Boot, Goto, config, interrupts
  <2>3. CASE Reboot
    BY <2>3 DEF TypeOK, Reboot, Goto, config, interrupts
  <2>4. CASE Submit
    BY <2>4 DEF TypeOK, Submit, Goto, config, interrupts, rdr
  <2> QED BY <1>3, <2>1, <2>2, <2>3, <2>4 DEF Calls
<1>4. CASE \E t \in Threads : handle_signal(t)
  <2>1. PICK t \in Threads : handle_signal(t)
    BY <1>4
  <2>2. signals' \in 0 .. MaxSignals
    BY <2>1, SessionConstants DEF TypeOK, handle_signal
  <2> QED BY <2>1, <2>2 DEF TypeOK, handle_signal, config, rdr
<1>5. CASE handle_resize
  <2>1. resizes' \in 0 .. MaxResizes
    BY <1>5, SessionConstants DEF TypeOK, handle_resize
  <2> QED BY <1>5, <2>1 DEF TypeOK, handle_resize, config, rdr
<1>6. CASE UNCHANGED vars
  BY <1>6 DEF TypeOK, vars, config, interrupts, rdr
<1> QED BY <1>1, <1>2, <1>3, <1>4, <1>5, <1>6, NextCases

-----------------------------------------------------------------------------
(* Threads that are not there. *)

\* A thread that moves on runs its own code: it is in no log call, before and
\* after the step, or it is being created.
LEMMA MoveFacts ==
  ASSUME TypeOK, Moves
  PROVE  /\ log' = log /\ UNCHANGED config
         /\ \E t \in Threads :
              /\ \E p : pc' = [pc EXCEPT ![t] = p]
              /\ \/ /\ t \in Wanted /\ pc[t] = "none" /\ pc'[t] = "start"
                    /\ pc["main"] = "create"
                 \/ Runs(t, pc[t]) /\ pc[t] \notin {"none", "ended", "exited"}
<1>1. CASE \E t \in Started : Create(t)
  BY <1>1, ThreadFacts DEF Create, Goto, TypeOK, Runs, config, Threads
<1>2. CASE Created \/ Join \/ Free
  BY <1>2, ThreadFacts DEF Created, Join, Free, Goto, Runs
<1>3. CASE \E t \in Workers : InitThread(t)
  BY <1>3, ThreadFacts DEF InitThread, Goto, Runs
<1>4. CASE AllocBuff \/ RenderLoop \/ print_event \/ login_flow \/ read_path
  BY <1>4, ThreadFacts DEF AllocBuff, RenderLoop, Panels, print_event, login_flow,
                           read_path, Goto, Runs
<1>5. CASE ReallocBuff \/ ClearBuff \/ ClearDone
  BY <1>5, ThreadFacts DEF ReallocBuff, ClearBuff, ClearDone, Panels, Goto, Runs
<1> QED BY <1>1, <1>2, <1>3, <1>4, <1>5 DEF Moves

LEMMA AbsentStep ==
  ASSUME TypeOK, AbsentInv, [Next]_vars
  PROVE  AbsentInv'
<1>1. CASE Moves
  <2>1. PICK t \in Threads :
          /\ \E p : pc' = [pc EXCEPT ![t] = p]
          /\ \/ t \in Wanted /\ pc[t] = "none" /\ pc'[t] = "start"
             \/ Runs(t, pc[t]) /\ pc[t] \notin {"none", "ended", "exited"}
    BY <1>1, MoveFacts
  <2>2. log' = log /\ Wanted' = Wanted
    BY <1>1, MoveFacts DEF config, Wanted
  <2> QED BY <2>1, <2>2, ThreadFacts DEF AbsentInv, Runs, Alive, TypeOK
<1>2. CASE Logs
  <2>1. PICK t \in Threads, f \in {"own", "hand"} :
          LogTest(t, f) \/ LogWait(t, f) \/ LogWrite(t, f)
    BY <1>2 DEF Logs
  <2>2. pc' = pc /\ Wanted' = Wanted /\ log[<<t, f>>] # "no"
    BY <2>1 DEF LogTest, LogWait, LogWrite, config, Wanted
  <2>3. \E v : log' = [log EXCEPT ![<<t, f>>] = v]
    BY <2>1 DEF LogTest, LogWait, LogWrite
  <2> QED BY <2>1, <2>2, <2>3, ThreadFacts DEF AbsentInv, Alive, TypeOK
<1>3. CASE \E t \in Workers : Turn(t)
  <2>1. PICK t \in Workers : Turn(t)
    BY <1>3
  <2>2. Wanted' = Wanted
    BY <2>1 DEF Turn, config, Wanted
  <2>3. CASE log' = log /\ pc' = [pc EXCEPT ![t] = "ended"]
    BY <2>1, <2>2, <2>3, ThreadFacts DEF AbsentInv, Turn, Runs, Alive, TypeOK
  <2>4. CASE log' = [log EXCEPT ![<<t, "own">>] = "test"] /\ pc' = pc
    <3>1. Alive(t)
      BY <2>1 DEF Turn, Runs, Alive
    <3> QED BY <2>2, <2>4, <3>1, ThreadFacts DEF AbsentInv, Alive, TypeOK
  <2> QED BY <2>1, <2>3, <2>4 DEF Turn, Goto
<1>4. CASE Calls
  <2>1. Wanted' = Wanted
    BY <1>4 DEF Calls, Boot, Reboot, Submit, config, Wanted
  <2>2. CASE Boot
    BY <2>1, <2>2, ThreadFacts DEF AbsentInv, Boot, Runs, Goto, Alive, TypeOK
  <2>3. CASE Reboot
    BY <2>1, <2>3, ThreadFacts DEF AbsentInv, Reboot, Runs, Goto, Alive, TypeOK
  <2>4. CASE Submit
    BY <2>1, <2>4, ThreadFacts DEF AbsentInv, Submit, Runs, Goto, Alive, TypeOK
  <2> QED BY <1>4, <2>2, <2>3, <2>4 DEF Calls
<1>5. CASE \E t \in Threads : handle_signal(t)
  <2>1. PICK t \in Threads : handle_signal(t)
    BY <1>5
  <2>2. Wanted' = Wanted /\ pc' = pc
    BY <2>1 DEF handle_signal, config, Wanted
  <2>3. Alive(t) /\ log' \in {log, [log EXCEPT ![<<t, "hand">>] = "test"]}
    BY <2>1 DEF handle_signal
  <2> QED BY <2>2, <2>3, ThreadFacts DEF AbsentInv, Alive, TypeOK
<1>6. CASE handle_resize \/ UNCHANGED vars
  <2>1. pc' = pc /\ log' = log /\ UNCHANGED config
    BY <1>6 DEF handle_resize, vars
  <2> QED BY <2>1 DEF AbsentInv, config, Wanted, Alive
<1> QED BY <1>1, <1>2, <1>3, <1>4, <1>5, <1>6, NextCases

-----------------------------------------------------------------------------
(* The main thread's joins. *)

LEMMA JoinStep ==
  ASSUME TypeOK, AbsentInv, JoinInv, [Next]_vars
  PROVE  JoinInv'
<1>1. CASE Created \/ Join \/ Free
  <2>1. Wanted' = Wanted
    BY <1>1 DEF Created, Join, Free, config, Wanted
  <2>2. "main" \notin Wanted
    BY ThreadFacts
  <2>3. \E p \in {"join", "free", "exited"} :
          /\ pc' = [pc EXCEPT !["main"] = p]
          /\ p # "join" => \A t \in Wanted : pc[t] = "ended"
    BY <1>1 DEF JoinInv, Created, Join, Free, Runs, Goto
  <2> QED BY <2>1, <2>2, <2>3, ThreadFacts DEF JoinInv, TypeOK
<1>2. CASE Moves /\ ~(Created \/ Join \/ Free)
  <2>1. PICK t \in Threads :
          /\ \E p : pc' = [pc EXCEPT ![t] = p]
          /\ \/ t \in Wanted /\ pc[t] = "none" /\ pc["main"] = "create"
             \/ Runs(t, pc[t]) /\ pc[t] \notin {"none", "ended", "exited"}
    BY <1>2, MoveFacts
  <2>2. Wanted' = Wanted
    BY <1>2, MoveFacts DEF config, Wanted
  <2>3. pc'["main"] = pc["main"]
    <3>1. CASE \E u \in Started : Create(u)
      BY <3>1, ThreadFacts DEF Create, Goto, TypeOK, Threads
    <3>2. CASE \E u \in Workers : InitThread(u)
      BY <3>2, ThreadFacts DEF InitThread, Goto, TypeOK, Started
    <3>3. CASE AllocBuff \/ RenderLoop \/ print_event \/ login_flow \/ read_path
      BY <3>3, ThreadFacts DEF AllocBuff, RenderLoop, Panels, print_event, login_flow,
                               read_path, Goto, TypeOK
    <3>4. CASE ReallocBuff \/ ClearBuff \/ ClearDone
      BY <3>4, ThreadFacts DEF ReallocBuff, ClearBuff, ClearDone, Panels, Goto, TypeOK
    <3> QED BY <1>2, <3>1, <3>2, <3>3, <3>4 DEF Moves
  <2> QED BY <2>1, <2>2, <2>3, ThreadFacts DEF JoinInv, TypeOK
<1>3. CASE (\E t \in Workers : Turn(t)) \/ Calls
  <2>1. Wanted' = Wanted
    <3>1. UNCHANGED config
      BY <1>3 DEF Turn, Calls, Boot, Reboot, Submit
    <3> QED BY <3>1 DEF config, Wanted
  <2>2. PICK t \in Started :
          /\ pc' = pc \/ \E p : pc' = [pc EXCEPT ![t] = p]
          /\ pc[t] # "ended" /\ t \in Wanted
    <3>1. CASE Calls
      BY <3>1, ThreadFacts DEF Calls, Boot, Reboot, Submit, Runs, Goto, Started, AbsentInv
    <3>2. CASE \E t \in Workers : Turn(t)
      BY <3>2, ThreadFacts DEF Turn, Runs, Goto, Started
    <3> QED BY <1>3, <3>1, <3>2
  <2>3. pc'["main"] = pc["main"]
    BY <2>2, ThreadFacts DEF TypeOK
  <2> QED BY <2>1, <2>2, <2>3, ThreadFacts DEF JoinInv, TypeOK
<1>4. CASE Logs \/ (\E t \in Threads : handle_signal(t)) \/ handle_resize \/ UNCHANGED vars
  <2>1. pc' = pc /\ UNCHANGED config
    BY <1>4 DEF Logs, LogTest, LogWait, LogWrite, handle_signal, handle_resize, vars
  <2> QED BY <2>1 DEF JoinInv, config, Wanted
<1> QED BY <1>1, <1>2, <1>3, <1>4, NextCases

-----------------------------------------------------------------------------
(* The UI and its semaphore. *)

\* The steps of the render thread that change what its loggers see.
LEMMA ActiveStep ==
  ASSUME TypeOK, AbsentInv, ActiveInv, [Next]_vars
  PROVE  ActiveInv'
<1>1. CASE Moves
  <2>1. log' = log
    BY <1>1, MoveFacts
  <2>2. CASE (\E t \in Started : Create(t)) \/ Created \/ Join \/ Free
    <3>1. /\ pc'["render"] = pc["render"] \/ (pc["render"] = "none" /\ pc'["render"] = "start")
          /\ UNCHANGED <<renderer_s, active, resized, resizes>>
      BY <2>2, ThreadFacts DEF Create, Created, Join, Free, Goto, rdr, interrupts, TypeOK
    <3> QED BY <2>1, <3>1 DEF ActiveInv
  <2>3. CASE \E t \in Workers : InitThread(t)
    <3>1. pc'["render"] = pc["render"] /\ UNCHANGED <<renderer_s, active, resized, resizes>>
      BY <2>3, ThreadFacts DEF InitThread, Goto, rdr, interrupts, TypeOK
    <3> QED BY <2>1, <3>1 DEF ActiveInv
  <2>4. CASE AllocBuff \/ login_flow \/ print_event \/ read_path
    <3>1. /\ pc'["render"] \in {"login", "loop", "submit", "print"}
          /\ UNCHANGED <<resized, resizes>>
      BY <2>4, ThreadFacts DEF AllocBuff, login_flow, print_event, read_path, Goto,
                               interrupts, TypeOK
    <3> QED BY <3>1 DEF ActiveInv
  <2>5. CASE RenderLoop
    <3>1. /\ pc'["render"] \in {"clear", "resize", "path", "print"}
          /\ pc'["render"] = "resize" => resized
          /\ resized' => resized /\ resizes' = resizes
      BY <2>5, ThreadFacts DEF RenderLoop, Panels, Goto, TypeOK
    <3>2. resizes' = resizes
      BY <2>5 DEF RenderLoop
    <3> QED BY <3>1, <3>2 DEF ActiveInv
  <2>6. CASE ReallocBuff \/ ClearBuff
    <3>1. /\ pc["render"] \in {"realloc", "clear", "unmake"}
          /\ pc'["render"] \in {"unmake", "inactive", "reinit"}
          /\ pc'["render"] # "inactive" => pc["render"] # "clear"
          /\ UNCHANGED <<resized, resizes>>
      BY <2>6, ThreadFacts DEF ReallocBuff, ClearBuff, Runs, Goto, interrupts, TypeOK
    <3> QED BY <3>1 DEF ActiveInv
  <2>7. CASE ClearDone
    <3>1. /\ pc'["render"] \in {"ended", "path", "print"} /\ active' = FALSE
          /\ UNCHANGED <<resized, resizes>>
      BY <2>7, ThreadFacts DEF ClearDone, Panels, Goto, interrupts, TypeOK
    <3> QED BY <3>1 DEF ActiveInv
  <2> QED BY <1>1, <2>2, <2>3, <2>4, <2>5, <2>6, <2>7 DEF Moves
<1>2. CASE Logs
  <2>1. PICK t \in Threads, f \in {"own", "hand"} :
          LogTest(t, f) \/ LogWait(t, f) \/ LogWrite(t, f)
    BY <1>2 DEF Logs
  <2>2. pc' = pc /\ active' = active /\ UNCHANGED <<resized, resizes>>
    BY <2>1 DEF LogTest, LogWait, LogWrite, rdr, interrupts
  <2>3. CASE pc["render"] \in {"none", "start"}
    <3>1. LogTest(t, f) /\ ~active
      BY <2>1, <2>3, ThreadFacts DEF ActiveInv, LogWait, LogWrite
    <3>2. log' = [log EXCEPT ![<<t, f>>] = "no"] /\ renderer_s' = renderer_s
      BY <3>1 DEF LogTest, rdr
    <3> QED BY <2>2, <2>3, <3>2 DEF ActiveInv, TypeOK
  <2>4. CASE pc["render"] \notin {"none", "start"}
    BY <2>2, <2>4 DEF ActiveInv
  <2> QED BY <2>3, <2>4
<1>3. CASE \E t \in Workers : Turn(t)
  <2>1. pc'["render"] = pc["render"] /\ UNCHANGED <<renderer_s, active, resized, resizes>>
    BY <1>3, ThreadFacts DEF Turn, Goto, TypeOK, rdr, interrupts
  <2>2. \A f \in Frames : log'[f] = log[f] \/ log'[f] = "test"
    BY <1>3 DEF Turn, TypeOK
  <2> QED BY <2>1, <2>2 DEF ActiveInv
<1>4. CASE Calls
  <2>1. /\ pc'["render"] \in {"alloc", "realloc", "print"}
        /\ pc'["render"] = "realloc" => pc["render"] = "resize"
        /\ UNCHANGED <<resized, resizes>>
    BY <1>4, ThreadFacts DEF Calls, Boot, Reboot, Submit, Runs, Goto, TypeOK, interrupts
  <2> QED BY <2>1 DEF ActiveInv
<1>5. CASE \E t \in Threads : handle_signal(t)
  <2>1. /\ pc' = pc /\ UNCHANGED <<renderer_s, active, resized, resizes>>
        /\ \A f \in Frames : log'[f] = log[f] \/ log'[f] = "test"
    BY <1>5 DEF handle_signal, rdr, TypeOK
  <2> QED BY <2>1 DEF ActiveInv
<1>6. CASE handle_resize
  <2>1. /\ pc' = pc /\ log' = log /\ UNCHANGED <<renderer_s, active>>
        /\ resizes' = resizes + 1 /\ resizes \in Nat
    BY <1>6 DEF handle_resize, rdr, TypeOK
  <2> QED BY <2>1 DEF ActiveInv
<1>7. CASE UNCHANGED vars
  BY <1>7 DEF ActiveInv, vars, interrupts, rdr
<1> QED BY <1>1, <1>2, <1>3, <1>4, <1>5, <1>6, <1>7, NextCases

\* Steps that let no frame into the semaphore or out of it.
LEMMA SameHolders ==
  ASSUME \A f \in Frames : log'[f] = "hold" <=> log[f] = "hold"
  PROVE  Holding' = Holding
BY DEF Holding, Frames, Threads

\* sem_wait and sem_post: the value and the holders change against each other.
LEMMA UnitLogs ==
  ASSUME TypeOK, UnitInv, Logs
  PROVE  UnitInv'
<1>1. PICK t \in Threads, f \in {"own", "hand"} :
        LogTest(t, f) \/ LogWait(t, f) \/ LogWrite(t, f)
  BY DEF Logs
<1>2. pc' = pc /\ resizes' = resizes
  BY <1>1 DEF LogTest, LogWait, LogWrite, interrupts
<1>3. <<t, f>> \in Frames /\ Frames' = Frames
  BY ThreadFacts DEF Frames, Threads
<1> DEFINE n == Cardinality(Holding)
<1>4. n \in Nat /\ renderer_s \in Nat
  BY FramesFinite DEF TypeOK
<1>5. CASE LogTest(t, f)
  <2>1. Holding' = Holding
    BY <1>3, <1>5, SameHolders DEF LogTest, TypeOK
  <2> QED BY <1>2, <1>5, <2>1 DEF UnitInv, LogTest, rdr
<1>6. CASE LogWait(t, f)
  <2>1. Holding' = Holding \cup {<<t, f>>} /\ <<t, f>> \notin Holding
    BY <1>3, <1>6 DEF LogWait, Holding, TypeOK
  <2>2. Cardinality(Holding') = n + 1
    BY <2>1, FramesFinite, FS_AddElement
  <2>3. renderer_s' = renderer_s - 1
    BY <1>6 DEF LogWait
  <2> QED BY <1>2, <1>4, <2>2, <2>3 DEF UnitInv
<1>7. CASE LogWrite(t, f)
  <2>1. Holding' = Holding \ {<<t, f>>} /\ <<t, f>> \in Holding
    BY <1>3, <1>7 DEF LogWrite, Holding, TypeOK
  <2>2. Cardinality(Holding') = n - 1
    BY <2>1, FramesFinite, FS_RemoveElement
  <2>3. renderer_s' = renderer_s + 1
    BY <1>7 DEF LogWrite
  <2> QED BY <1>2, <1>4, <2>2, <2>3 DEF UnitInv
<1> QED BY <1>1, <1>5, <1>6, <1>7

\* Boot finds the semaphore unused; Reboot follows a resize.
LEMMA UnitStep ==
  ASSUME TypeOK, ActiveInv, UnitInv, [Next]_vars
  PROVE  UnitInv'
<1>1. CASE Boot
  <2>1. Holding = {} /\ Holding' = Holding
    <3>1. \A f \in Frames : log[f] # "hold" /\ log'[f] # "hold"
      BY <1>1 DEF Boot, Runs, ActiveInv, TypeOK
    <3> QED BY <3>1, SameHolders DEF Holding
  <2>2. Cardinality(Holding') = 0
    BY <2>1, FS_EmptySet
  <2>3. renderer_s' = 1
    BY <1>1 DEF Boot
  <2> QED BY <2>2, <2>3 DEF UnitInv
<1>2. CASE Moves
  <2>1. log' = log
    BY <1>2, MoveFacts
  <2>2. Holding' = Holding
    BY <2>1, SameHolders
  <2>3. UNCHANGED <<renderer_s, resizes>>
    BY <1>2 DEF Moves, Create, Created, Join, Free, InitThread, AllocBuff, RenderLoop,
                ReallocBuff, ClearBuff, ClearDone, print_event, login_flow, read_path,
                rdr, interrupts
  <2>4. pc["render"] \in {"none", "start"} => pc'["render"] \in {"none", "start"}
    <3>1. CASE (\E t \in Started : Create(t)) \/ (\E t \in Workers : InitThread(t))
      BY <3>1, ThreadFacts DEF Create, InitThread, Goto, TypeOK
    <3>2. CASE Created \/ Join \/ Free
      BY <3>2, ThreadFacts DEF Created, Join, Free, Goto, TypeOK
    <3>3. CASE AllocBuff \/ RenderLoop \/ print_event \/ login_flow \/ read_path
               \/ ReallocBuff \/ ClearBuff \/ ClearDone
      BY <3>3 DEF AllocBuff, RenderLoop, print_event, login_flow, read_path, ReallocBuff,
                  ClearBuff, ClearDone, Runs
    <3> QED BY <1>2, <3>1, <3>2, <3>3 DEF Moves
  <2> QED BY <2>2, <2>3, <2>4 DEF UnitInv
<1>3. CASE Logs
  BY <1>3, UnitLogs
<1>4. CASE (\E t \in Workers : Turn(t)) \/ Submit
  <2>1. UNCHANGED <<renderer_s, resizes>>
    BY <1>4 DEF Turn, Submit, rdr, interrupts
  <2>2. pc["render"] \in {"none", "start"} => pc'["render"] = pc["render"]
    BY <1>4, ThreadFacts DEF Turn, Submit, Runs, Goto, TypeOK
  <2>3. \A f \in Frames : log'[f] = "hold" <=> log[f] = "hold"
    <3>1. CASE Submit
      BY <3>1 DEF Submit, Runs, TypeOK
    <3>2. CASE \E t \in Workers : Turn(t)
      BY <3>2 DEF Turn, Runs, TypeOK
    <3> QED BY <1>4, <3>1, <3>2
  <2> QED BY <2>1, <2>2, <2>3, SameHolders DEF UnitInv
<1>5. CASE \E t \in Threads : handle_signal(t)
  <2>1. /\ pc' = pc /\ UNCHANGED <<renderer_s, resizes>>
        /\ \A f \in Frames : log'[f] = "hold" <=> log[f] = "hold"
    BY <1>5 DEF handle_signal, rdr, TypeOK
  <2> QED BY <2>1, SameHolders DEF UnitInv
<1>6. CASE handle_resize
  <2>1. resizes' = resizes + 1 /\ resizes \in Nat
    BY <1>6 DEF handle_resize, TypeOK
  <2> QED BY <2>1 DEF UnitInv
<1>7. CASE UNCHANGED vars
  <2>1. UNCHANGED <<pc, log, renderer_s, resizes>>
    BY <1>7 DEF vars, interrupts, rdr
  <2> QED BY <2>1, SameHolders DEF UnitInv
<1>8. CASE Reboot
  <2>1. resizes > 0 /\ resizes' = resizes
    BY <1>8 DEF Reboot, Runs, ActiveInv, interrupts
  <2> QED BY <2>1 DEF UnitInv, TypeOK
<1> QED BY <1>1, <1>2, <1>3, <1>4, <1>5, <1>6, <1>7, <1>8, NextCases DEF Calls

-----------------------------------------------------------------------------
(* The theorems. *)

LEMMA InitInv == Init => IInv
<1> SUFFICES ASSUME Init PROVE IInv
  OBVIOUS
<1>1. TypeOK
  <2>1. debug \in BOOLEAN /\ ui \in BOOLEAN
    BY SessionConstants DEF Init
  <2>2. signals \in 0 .. MaxSignals /\ resizes \in 0 .. MaxResizes
    BY SessionConstants DEF Init
  <2>3. /\ loop_stop \in BOOLEAN /\ resized \in BOOLEAN /\ active \in BOOLEAN
        /\ renderer_s \in Nat /\ buff = "null" /\ ready = {} /\ lost = {}
    BY DEF Init
  <2>4. log \in [Frames -> {"no", "test", "wait", "hold"}]
    BY DEF Init
  <2>5. /\ pc = [t \in Threads |-> pc[t]]
        /\ \A t \in Threads : pc[t] \in {"create", "none"}
    BY DEF Init
  <2> QED BY <2>1, <2>2, <2>3, <2>4, <2>5 DEF TypeOK
<1>2. \A t \in Threads : pc[t] = IF t = "main" THEN "create" ELSE "none"
  BY DEF Init
<1>3. \A f \in Frames : log[f] = "no"
  BY DEF Init
<1>4. AbsentInv
  BY <1>2, <1>3, ThreadFacts DEF AbsentInv, Alive, Threads
<1>5. JoinInv /\ ActiveInv /\ UnitInv
  BY <1>2, <1>3, ThreadFacts DEF Init, JoinInv, ActiveInv, UnitInv
<1> QED BY <1>1, <1>4, <1>5 DEF IInv

\* Every step of every thread, handler and user preserves the invariant.
THEOREM SessionInductive == IInv /\ [Next]_vars => IInv'
<1> SUFFICES ASSUME IInv, [Next]_vars PROVE IInv'
  OBVIOUS
<1> QED BY TypeStep, AbsentStep, JoinStep, ActiveStep, UnitStep DEF IInv

LEMMA SessionInvariant == Spec => []IInv
BY InitInv, SessionInductive, PTL DEF Spec

\* The threads' places, the log calls and the UI's state are well typed; the
\* value of the UI's semaphore never falls below zero.
THEOREM SessionTypeCorrect == Spec => []TypeOK
<1>1. IInv => TypeOK
  BY DEF IInv
<1> QED BY <1>1, SessionInvariant, PTL

\* clear_mem frees the pool when no thread and no handler is left to use it.
THEOREM PoolIsLast == Spec => []PoolOutlivesThreads
<1>1. IInv => PoolOutlivesThreads
  <2> SUFFICES ASSUME IInv, pc["main"] = "exited"
               PROVE  (\A t \in Started : ~Alive(t)) /\ \A f \in Frames : log[f] = "no"
    BY DEF PoolOutlivesThreads
  <2>1. \A t \in Started : pc[t] \in {"ended", "none"}
    BY DEF IInv, JoinInv, AbsentInv
  <2>2. \A t \in Threads : ~Alive(t)
    BY <2>1 DEF Alive, Threads
  <2>3. \A t \in Threads, f \in {"own", "hand"} : log[<<t, f>>] = "no"
    BY <2>2 DEF IInv, AbsentInv
  <2>4. ASSUME NEW g \in Frames PROVE log[g] = "no"
    <3>1. PICK t \in Threads, f \in {"own", "hand"} : g = <<t, f>>
      BY DEF Frames
    <3> QED BY <2>3, <3>1
  <2> QED BY <2>2, <2>4 DEF Threads
<1> QED BY <1>1, SessionInvariant, PTL

\* Without a resize the UI's semaphore is exclusive, whatever handlers run on
\* top of whatever log calls.
THEOREM RendererExclusive == Spec => []SemBalanced
<1>1. IInv => SemBalanced
  BY DEF IInv, UnitInv, ActiveInv, SemBalanced
<1> QED BY <1>1, SessionInvariant, PTL

\* Nobody starts to write into the buffer of a render thread that has ended.
THEOREM WritersStop == Spec => NoLateWriters
<1>1. ASSUME IInv, [Next]_vars
      PROVE  [pc["render"] = "ended" => Writing' \subseteq Writing]_vars
  <2> SUFFICES ASSUME Next, pc["render"] = "ended", NEW f \in Frames,
                      log'[f] \in {"wait", "hold"}
               PROVE  log[f] \in {"wait", "hold"}
    BY <1>1 DEF Writing, Frames, Threads
  <2>1. ~active /\ log \in [Frames -> {"no", "test", "wait", "hold"}]
    BY <1>1 DEF IInv, ActiveInv, TypeOK
  <2>2. CASE Moves
    BY <1>1, <2>2, MoveFacts DEF IInv
  <2>3. CASE Logs
    BY <2>1, <2>3, ThreadFacts DEF Logs, LogTest, LogWait, LogWrite
  <2>4. CASE (\E t \in Workers : Turn(t)) \/ Calls
    BY <2>1, <2>4 DEF Turn, Calls, Boot, Reboot, Submit
  <2>5. CASE (\E t \in Threads : handle_signal(t)) \/ handle_resize \/ UNCHANGED vars
    BY <2>1, <2>5 DEF handle_signal, handle_resize, vars
  <2> QED BY <1>1, <2>2, <2>3, <2>4, <2>5, NextCases
<1> QED BY <1>1, SessionInvariant, PTL DEF Spec, NoLateWriters
=============================================================================
