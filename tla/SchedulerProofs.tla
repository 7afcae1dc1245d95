-------------------------- MODULE SchedulerProofs --------------------------
(***************************************************************************)
(* Type correctness of Scheduler, and that it never runs the dead, for any *)
(* number of processes, any sleeps and any set of processes that programs  *)
(* may kill, the executor included.                                        *)
(*                                                                         *)
(* The argument: the list always holds the processes 1 .. n, newest first, *)
(* so going round it from the current process comes past Boot; and Boot,   *)
(* which nothing may kill and which never sleeps, is always READY or       *)
(* RUNNING.  So the search for a READY process succeeds.                   *)
(***************************************************************************)
EXTENDS Scheduler, BasicTheorems

NewestFirst == \A i \in 1 .. Len(list) : list[i] = Len(list) + 1 - i

\* A kernel task that has a child in hand has one that exists; and is itself
\* not its child.
ChildInHand ==
  /\ taskC = "focus" => childC \in Pid
  /\ taskD = "start" => childD \in Executor + 1 .. Len(list)

OneRuns == /\ \A p \in Pid : state[p] = "RUNNING" => p = current
           /\ state[current] = "RUNNING" \/ current = Boot
           /\ state[Boot] \in {"READY", "RUNNING"}
           /\ current \in 1 .. Len(list)

SInv == TypeOK /\ NewestFirst /\ ChildInHand /\ OneRuns

-----------------------------------------------------------------------------
LEMMA PidFacts ==
  /\ MaxPid \in Nat /\ MaxPid >= 4 /\ MaxSleep \in Nat \ {0}
  /\ Boot = 1 /\ Shell = 2 /\ Launcher = 3 /\ Executor = 4 /\ NoPid = 0
  /\ Boot \in Pid /\ Pid \subseteq Nat
  BY SchedulerAssumption DEF SchedulerAssumption, Pid, Boot, Shell, Launcher, Executor, NoPid

\* Going round the list from the current process visits processes only, and
\* comes past every one of them.
LEMMA Round ==
  ASSUME SInv
  PROVE  /\ \A k \in 1 .. Len(list) : After(k) \in 1 .. Len(list)
         /\ \A p \in 1 .. Len(list) : \E k \in 1 .. Len(list) : After(k) = p
<1>1. Len(list) \in Nat /\ list \in Seq(Pid) /\ DOMAIN list = 1 .. Len(list)
  BY PidFacts DEF SInv, TypeOK
<1>2. current \in 1 .. Len(list) /\ current \in Nat
  BY <1>1 DEF SInv, OneRuns
<1>3. PosOf(current) = Len(list) + 1 - current
  <2>1. \A i \in DOMAIN list : list[i] = current <=> i = Len(list) + 1 - current
    BY <1>1, <1>2 DEF SInv, NewestFirst
  <2>2. Len(list) + 1 - current \in DOMAIN list
    BY <1>1, <1>2
  <2>. QED  BY <2>1, <2>2 DEF PosOf
<1>4. \A k \in 1 .. Len(list) :
        After(k) = IF k >= current THEN Len(list) + current - k ELSE current - k
  BY <1>1, <1>2, <1>3 DEF SInv, NewestFirst, After
<1>5. ASSUME NEW p \in 1 .. Len(list)
      PROVE  \E k \in 1 .. Len(list) : After(k) = p
  <2>1. CASE p >= current
    <3>1. Len(list) + current - p \in 1 .. Len(list)
      BY <1>1, <1>2, <2>1
    <3>. QED  BY <1>1, <1>2, <1>4, <2>1, <3>1
  <2>2. CASE p < current
    <3>1. current - p \in 1 .. Len(list)
      BY <1>1, <1>2, <2>2
    <3>. QED  BY <1>1, <1>2, <1>4, <2>2, <3>1
  <2>. QED  BY <1>1, <1>2, <2>1, <2>2
<1>6. ASSUME NEW k \in 1 .. Len(list)
      PROVE  After(k) \in 1 .. Len(list)
  <2>1. CASE k >= current
    BY <1>1, <1>2, <1>4, <2>1
  <2>2. CASE k < current
    BY <1>1, <1>2, <1>4, <2>2
  <2>. QED  BY <1>1, <1>2, <2>1, <2>2
<1>. QED  BY <1>5, <1>6

\* With Boot READY the search succeeds: a READY process of the list is chosen.
LEMMA SomeoneIsChosen ==
  ASSUME SInv, NEW st, st[Boot] = "READY"
  PROVE  Chosen(st) \in 1 .. Len(list) /\ st[Chosen(st)] = "READY"
<1> DEFINE ready == {k \in 1 .. Len(list) : st[After(k)] = "READY"}
<1>1. Boot \in 1 .. Len(list) /\ Len(list) \in Nat
  BY PidFacts DEF SInv, TypeOK
<1>2. ready # {} /\ ready \subseteq Nat
  <2>1. PICK k \in 1 .. Len(list) : After(k) = Boot
    BY <1>1, Round
  <2>. QED  BY <2>1
<1>3. \E k \in ready : \A j \in ready : k <= j
  BY <1>2, Least
<1>4. PICK k \in ready : Chosen(st) = After(k)
  BY <1>2, <1>3 DEF Chosen
<1>. QED  BY <1>4, Round

\* What the timer and every "int 0x20" leave: the new current process, and only
\* it, is RUNNING, and it was not dead.
LEMMA SwitchRuns ==
  ASSUME SInv, NEW st \in [Pid -> State], NEW wait \in [Pid -> 0 .. MaxSleep],
         \A p \in Pid : st[p] = "RUNNING" => p = current,
         st[Boot] \in {"READY", "RUNNING"},
         Switch(st, wait), UNCHANGED list
  PROVE  /\ sleep' \in [Pid -> 0 .. MaxSleep] /\ state' \in [Pid -> State]
         /\ current' \in Pid /\ OneRuns'
         /\ \A p \in Pid : state'[p] = "RUNNING" => st[p] # "ZOMBIE"
<1> DEFINE saved == [Woken(st) EXCEPT ![current] = IF @ = "RUNNING" THEN "READY" ELSE @]
<1>1. sleep' \in [Pid -> 0 .. MaxSleep]
  BY PidFacts DEF Switch
<1>2. saved \in [Pid -> State] /\ \A p \in Pid : saved[p] # "RUNNING"
  BY PidFacts DEF Woken, State, SInv, OneRuns
<1>3. /\ saved[Boot] = "READY"
      /\ \A p \in Pid : saved[p] = "READY" => st[p] # "ZOMBIE"
  BY PidFacts DEF Woken, State, SInv, OneRuns
<1>4. Chosen(saved) \in 1 .. Len(list) /\ saved[Chosen(saved)] = "READY"
  BY <1>3, SomeoneIsChosen
<1>5. current' = Chosen(saved) /\ state' = [saved EXCEPT ![Chosen(saved)] = "RUNNING"]
  BY DEF Switch
<1>6. 1 .. Len(list) \subseteq Pid
  BY PidFacts DEF SInv, TypeOK, Pid
<1>. HIDE DEF saved
<1>7. /\ current' \in Pid /\ state' \in [Pid -> State]
      /\ \A p \in Pid : state'[p] = "RUNNING" <=> p = current'
      /\ \A p \in Pid : p # current' => state'[p] = saved[p]
  BY <1>2, <1>4, <1>5, <1>6 DEF State
<1>8. state'[Boot] \in {"READY", "RUNNING"}
  BY <1>3, <1>7, PidFacts
<1>9. OneRuns'
  BY <1>4, <1>5, <1>7, <1>8 DEF OneRuns
<1>10. \A p \in Pid : state'[p] = "RUNNING" => st[p] # "ZOMBIE"
  BY <1>3, <1>4, <1>5, <1>7
<1>. QED  BY <1>1, <1>7, <1>9, <1>10

\* A new process is the newest.
LEMMA CreateKeeps ==
  ASSUME SInv, Create, UNCHANGED current
  PROVE  /\ list' \in Seq(Pid) /\ Len(list') \in Executor .. MaxPid
         /\ Len(list') = Len(list) + 1 /\ NewPid = Len(list')
         /\ state' \in [Pid -> State] /\ parent' \in [Pid -> Pid \cup {NoPid}]
         /\ NewestFirst' /\ OneRuns'
         /\ \A p \in Pid : state'[p] = "RUNNING" => state[p] # "ZOMBIE"
<1>1. /\ list \in Seq(Pid) /\ Len(list) \in Executor .. MaxPid
      /\ state \in [Pid -> State] /\ parent \in [Pid -> Pid \cup {NoPid}] /\ current \in Pid
  BY DEF SInv, TypeOK
<1>2. NewPid \in Pid /\ NewPid = Len(list) + 1
  BY DEF Create, NewPid
<1>3. /\ list' \in Seq(Pid) /\ Len(list') = Len(list) + 1
      /\ list'[1] = NewPid /\ \A i \in 1 .. Len(list) : list'[i + 1] = list[i]
  BY <1>1, <1>2 DEF Create
<1>4. Len(list') \in Executor .. MaxPid
  BY <1>1, <1>2, <1>3, PidFacts DEF Pid
<1>5. NewestFirst'
  <2>1. ASSUME NEW i \in 1 .. Len(list'), i # 1
        PROVE  list'[i] = Len(list') + 1 - i
    <3>1. i - 1 \in 1 .. Len(list) /\ list'[i - 1 + 1] = list[i - 1] /\ i - 1 + 1 = i
      BY <1>1, <1>3, <2>1
    <3>. QED  BY <1>1, <1>3, <3>1 DEF SInv, NewestFirst
  <2>. QED  BY <1>1, <1>2, <1>3, <2>1 DEF NewestFirst
<1>6. state' = [state EXCEPT ![NewPid] = "READY"] /\ parent' = [parent EXCEPT ![NewPid] = current]
  BY DEF Create
<1>7. state' \in [Pid -> State] /\ parent' \in [Pid -> Pid \cup {NoPid}]
  BY <1>1, <1>2, <1>6 DEF State
<1>8. OneRuns' /\ \A p \in Pid : state'[p] = "RUNNING" => state[p] # "ZOMBIE"
  BY <1>1, <1>2, <1>3, <1>6, PidFacts DEF SInv, OneRuns, State
<1>. QED  BY <1>2, <1>3, <1>4, <1>5, <1>7, <1>8

-----------------------------------------------------------------------------
LEMMA Initially == Init => SInv
<1> SUFFICES ASSUME Init PROVE SInv
  OBVIOUS
<1>1. list = <<4, 3, 2, 1>> /\ Len(list) = 4 /\ 1 .. 4 \subseteq Pid /\ 1 \in Pid /\ 2 \in Pid
  BY PidFacts DEF Init, Pid
<1>2. TypeOK
  <2>1. list \in Seq(Pid)
    BY <1>1
  <2>2. state \in [Pid -> State] /\ parent \in [Pid -> Pid \cup {NoPid}] /\ sleep \in [Pid -> 0 .. MaxSleep]
    BY PidFacts DEF Init, State
  <2>3. focus \subseteq Pid /\ foreground \in Pid /\ current \in Pid /\ left \subseteq Pid
    BY <1>1, PidFacts DEF Init
  <2>4. /\ pending \in BOOLEAN /\ taskC = "start" /\ taskD = "poll"
        /\ childC = NoPid /\ childD = NoPid
    BY DEF Init
  <2>. QED  BY <1>1, <2>1, <2>2, <2>3, <2>4, PidFacts DEF TypeOK
<1>3. NewestFirst
  BY <1>1 DEF NewestFirst
<1>4. ChildInHand
  BY DEF Init, ChildInHand
<1>5. OneRuns
  BY <1>1, PidFacts DEF Init, OneRuns
<1>. QED  BY <1>2, <1>3, <1>4, <1>5 DEF SInv

\* Every step keeps the invariant, and gives no dead process the processor.
LEMMA Step ==
  ASSUME SInv, [Next]_vars
  PROVE  SInv' /\ \A p \in Pid : state'[p] = "RUNNING" => p = current' /\ (state[p] # "ZOMBIE" \/ UNCHANGED vars)
<1> DEFINE Live == \A p \in Pid : state'[p] = "RUNNING" => state[p] # "ZOMBIE"
<1> SUFFICES SInv' /\ (Live \/ UNCHANGED vars)
  BY DEF SInv, OneRuns
<1>0. /\ TypeOK /\ NewestFirst /\ ChildInHand /\ OneRuns
      /\ state \in [Pid -> State] /\ sleep \in [Pid -> 0 .. MaxSleep] /\ current \in Pid
      /\ list \in Seq(Pid) /\ Len(list) \in 4 .. MaxPid
  BY PidFacts DEF SInv, TypeOK
<1>1. CASE Tick
  <2>1. Switch(state, sleep) /\ UNCHANGED <<list, parent, input, pending, tasks, left>>
    BY <1>1 DEF Tick
  <2>2. OneRuns' /\ Live /\ state' \in [Pid -> State] /\ sleep' \in [Pid -> 0 .. MaxSleep] /\ current' \in Pid
    BY <1>0, <2>1, SwitchRuns DEF OneRuns
  <2>. QED  BY <1>0, <2>1, <2>2 DEF SInv, TypeOK, NewestFirst, ChildInHand, OneRuns, input, tasks
<1>2. ASSUME NEW p \in Pid, SysExec(p) PROVE SInv' /\ Live /\ OneRuns'
  BY <1>0, <1>2 DEF SysExec, procs, input, tasks, SInv, TypeOK, NewestFirst, ChildInHand, OneRuns
<1>3. ASSUME NEW p \in Pid, SysExit(p) PROVE SInv' /\ Live
  <2> DEFINE st == [state EXCEPT ![p] = "ZOMBIE"]
  <2>1. /\ Switch(st, sleep) /\ UNCHANGED <<list, parent, input, pending, tasks>>
        /\ left' = left \cup {p} /\ p > 4
    BY <1>3, PidFacts DEF SysExit, Program
  <2>2. st \in [Pid -> State] /\ (\A q \in Pid : st[q] = "RUNNING" => q = current)
        /\ st[Boot] \in {"READY", "RUNNING"} /\ (\A q \in Pid : st[q] # "ZOMBIE" => state[q] # "ZOMBIE")
    BY <1>0, <2>1, PidFacts DEF OneRuns, State
  <2>. HIDE DEF st
  <2>3. OneRuns' /\ state' \in [Pid -> State] /\ sleep' \in [Pid -> 0 .. MaxSleep] /\ current' \in Pid
        /\ \A q \in Pid : state'[q] = "RUNNING" => st[q] # "ZOMBIE"
    BY <1>0, <2>1, <2>2, SwitchRuns
  <2>. QED  BY <1>0, <2>1, <2>2, <2>3 DEF SInv, TypeOK, NewestFirst, ChildInHand, input, tasks
<1>4. ASSUME NEW p \in Pid, NEW q \in Pid, SysKill(p, q) PROVE SInv' /\ Live
  <2> DEFINE st == [state EXCEPT ![q] = "ZOMBIE"]
  <2>1. p = current /\ p > 4 /\ q > 3 /\ UNCHANGED <<list, parent, pending, tasks>> /\ Inherit(q)
    BY <1>4, PidFacts DEF SysKill, Program, Protected
  <2>2. st \in [Pid -> State] /\ (\A r \in Pid : st[r] = "RUNNING" => r = current)
        /\ st[Boot] \in {"READY", "RUNNING"} /\ (\A r \in Pid : st[r] # "ZOMBIE" => state[r] # "ZOMBIE")
        /\ (q # p => st[current] = state[current])
    BY <1>0, <2>1, PidFacts DEF OneRuns, State
  <2>3. focus' \subseteq Pid /\ foreground' \in Pid
    BY <1>0, <2>1, PidFacts DEF Inherit, Created, input, TypeOK
  <2>4. CASE q = p
    <3>1. Switch(st, sleep) /\ left' = left \cup {p}
      BY <1>4, <2>4 DEF SysKill
    <3>. HIDE DEF st
    <3>2. OneRuns' /\ state' \in [Pid -> State] /\ sleep' \in [Pid -> 0 .. MaxSleep] /\ current' \in Pid
          /\ \A r \in Pid : state'[r] = "RUNNING" => st[r] # "ZOMBIE"
      BY <1>0, <2>1, <2>2, <3>1, SwitchRuns
    <3>. QED  BY <1>0, <2>1, <2>2, <2>3, <3>1, <3>2 DEF SInv, TypeOK, NewestFirst, ChildInHand, tasks
  <2>5. CASE q # p
    <3>1. state' = st /\ UNCHANGED <<sleep, current, left>>
      BY <1>4, <2>5 DEF SysKill
    <3>. HIDE DEF st
    <3>2. OneRuns'
      BY <1>0, <2>1, <2>2, <2>5, <3>1 DEF OneRuns
    <3>. QED  BY <1>0, <2>1, <2>2, <2>3, <3>1, <3>2 DEF SInv, TypeOK, NewestFirst, ChildInHand, tasks, OneRuns
  <2>. QED  BY <2>4, <2>5
<1>5. ASSUME NEW p \in Pid, NEW n \in 1 .. MaxSleep, SysSleep(p, n) PROVE SInv' /\ Live
  <2> DEFINE st == [state EXCEPT ![p] = "SLEEPING"]
             wait == [sleep EXCEPT ![p] = n]
  <2>1. /\ Switch(st, wait) /\ UNCHANGED <<list, parent, input, pending, tasks, left>>
        /\ p # 1 /\ p = current
    BY <1>5, PidFacts DEF SysSleep, Program
  <2>2. st \in [Pid -> State] /\ (\A q \in Pid : st[q] = "RUNNING" => q = current)
        /\ st[Boot] \in {"READY", "RUNNING"} /\ wait \in [Pid -> 0 .. MaxSleep]
    BY <1>0, <2>1, PidFacts DEF OneRuns, State
  <2>3. \A q \in Pid : st[q] # "ZOMBIE" => state[q] # "ZOMBIE"
    BY <1>0, <2>1 DEF OneRuns
  <2>. HIDE DEF st, wait
  <2>4. OneRuns' /\ state' \in [Pid -> State] /\ sleep' \in [Pid -> 0 .. MaxSleep] /\ current' \in Pid
        /\ \A q \in Pid : state'[q] = "RUNNING" => st[q] # "ZOMBIE"
    BY <1>0, <2>1, <2>2, SwitchRuns
  <2>. QED  BY <1>0, <2>1, <2>3, <2>4 DEF SInv, TypeOK, NewestFirst, ChildInHand, input, tasks
<1>6. CASE LauncherStep
  <2>1. CASE LaunchExplorer
    <3>1. /\ UNCHANGED <<sleep, input, current, pending, taskD, childD, left>> /\ current = Launcher
      BY <2>1 DEF LaunchExplorer
    <3>2. CASE Create /\ childC' = NewPid /\ taskC' = "focus"
      <4>1. NewPid \in Pid
        BY <3>2 DEF Create
      <4>2. TypeOK'
        BY <1>0, <3>1, <3>2, <4>1, CreateKeeps DEF TypeOK, input
      <4>3. ChildInHand'
        BY <1>0, <3>1, <3>2, <4>1, CreateKeeps, PidFacts DEF ChildInHand
      <4>4. NewestFirst' /\ OneRuns' /\ Live
        BY <3>1, <3>2, CreateKeeps
      <4>. QED  BY <4>2, <4>3, <4>4 DEF SInv
    <3>3. CASE UNCHANGED <<list, state, parent, childC>> /\ taskC' = "done"
      BY <1>0, <3>1, <3>3 DEF SInv, TypeOK, NewestFirst, ChildInHand, OneRuns, input
    <3>. QED  BY <2>1, <3>2, <3>3 DEF LaunchExplorer
  <2>2. CASE FocusExplorer
    <3>1. childC \in Pid /\ focus' \subseteq Pid /\ foreground' \in Pid
      BY <1>0, <2>2 DEF FocusExplorer, ChildInHand, TakeFocus, TypeOK
    <3>. QED  BY <1>0, <2>2, <3>1, PidFacts DEF FocusExplorer, SInv, TypeOK, NewestFirst, ChildInHand, OneRuns, procs
  <2>. QED  BY <1>6, <2>1, <2>2 DEF LauncherStep
<1>7. CASE ExecutorStep
  <2>1. CASE Load
    <3>1. /\ UNCHANGED <<sleep, input, current, pending, taskC, childC, left>>
      BY <2>1 DEF Load
    <3>2. CASE Create /\ childD' = NewPid /\ taskD' = "start"
      <4>1. NewPid \in Pid /\ NewPid > 4 /\ NewPid = Len(list')
        BY <1>0, <3>1, <3>2, CreateKeeps DEF Create, NewPid
      <4>2. TypeOK'
        BY <1>0, <3>1, <3>2, <4>1, CreateKeeps DEF TypeOK, input
      <4>3. ChildInHand'
        BY <1>0, <3>1, <3>2, <4>1, PidFacts DEF ChildInHand
      <4>4. NewestFirst' /\ OneRuns' /\ Live
        BY <3>1, <3>2, CreateKeeps
      <4>. QED  BY <4>2, <4>3, <4>4 DEF SInv
    <3>3. CASE UNCHANGED <<list, state, parent, childD>> /\ taskD' = "clear"
      BY <1>0, <3>1, <3>3 DEF SInv, TypeOK, NewestFirst, ChildInHand, OneRuns, input
    <3>. QED  BY <2>1, <3>2, <3>3 DEF Load
  <2>2. CASE Start
    <3>0. /\ taskD = "start" /\ current = Executor
          /\ taskD' = "clear" /\ childD' = NoPid
          /\ UNCHANGED <<list, sleep, parent, current, pending, taskC, childC, left>>
      BY <2>2 DEF Start
    <3>1. childD \in Pid /\ childD > 4 /\ childD # current
      BY <1>0, <3>0, PidFacts DEF ChildInHand, Pid
    <3>2. focus' \subseteq Pid /\ foreground' \in Pid
      BY <1>0, <2>2, <3>1 DEF Start, TakeFocus, TypeOK
    <3>3. state' = [state EXCEPT ![childD] = "READY"] /\ current' = current /\ list' = list
      BY <2>2 DEF Start
    <3>4. state' \in [Pid -> State] /\ OneRuns' /\ Live
      BY <1>0, <3>1, <3>3, PidFacts DEF State, OneRuns
    <3>5. TypeOK'
      BY <1>0, <3>0, <3>2, <3>4 DEF TypeOK
    <3>6. NewestFirst' /\ ChildInHand'
      BY <1>0, <3>0 DEF NewestFirst, ChildInHand
    <3>. QED  BY <3>4, <3>5, <3>6 DEF SInv
  <2>3. CASE Clear
    BY <1>0, <2>3, PidFacts DEF Clear, SInv, TypeOK, NewestFirst, ChildInHand, OneRuns, procs, input
  <2>. QED  BY <1>7, <2>1, <2>2, <2>3 DEF ExecutorStep
<1>8. CASE UNCHANGED vars
  BY <1>0, <1>8 DEF vars, procs, input, tasks, SInv, TypeOK, NewestFirst, ChildInHand, OneRuns
<1>. QED  BY <1>1, <1>2, <1>3, <1>4, <1>5, <1>6, <1>7, <1>8 DEF Next, Calls

\* The processes, the keyboard's owners and the mailbox keep their types.
THEOREM SchedulerTypeCorrect == Spec => []TypeOK
<1>1. Init => SInv
  BY Initially
<1>2. SInv /\ [Next]_vars => SInv'
  BY Step
<1>. QED  BY <1>1, <1>2, PTL DEF Spec, SInv

\* schedule() never gives the processor to a dead process, and one process at
\* a time is RUNNING, whatever programs kill.
THEOREM OnlyLiveRunTheorem == Spec => OnlyLiveRun
<1>1. Init => SInv
  BY Initially
<1>2. SInv /\ [Next]_vars => SInv'
  BY Step
<1>3. SInv /\ [Next]_vars =>
        [\A p \in Pid : state'[p] = "RUNNING" => p = current' /\ state[p] # "ZOMBIE"]_vars
  BY Step
<1>. QED  BY <1>1, <1>2, <1>3, PTL DEF Spec, OnlyLiveRun

-----------------------------------------------------------------------------
\* A process that is yet to be created is not dead.
Unborn == \A p \in Pid : state[p] = "ZOMBIE" => p \in 1 .. Len(list)

\* The switch kills nobody; it changes no dead process but, were it chosen, to
\* RUNNING.
LEMMA SwitchDead ==
  ASSUME SInv, NEW st \in [Pid -> State], NEW wait, Switch(st, wait), NEW p \in Pid
  PROVE  /\ st[p] = "ZOMBIE" => state'[p] \in {"ZOMBIE", "RUNNING"}
         /\ st[p] # "ZOMBIE" => state'[p] # "ZOMBIE"
<1> DEFINE woken == Woken(st)
           saved == [woken EXCEPT ![current] = IF @ = "RUNNING" THEN "READY" ELSE @]
           chosen == Chosen(saved)
<1>1. DOMAIN woken = Pid /\ (woken[p] = "ZOMBIE" <=> st[p] = "ZOMBIE")
  BY DEF Woken
<1>2. state' = [saved EXCEPT ![chosen] = "RUNNING"]
  BY DEF Switch
<1> HIDE DEF woken, chosen
<1>3. DOMAIN saved = Pid /\ (saved[p] = "ZOMBIE" <=> st[p] = "ZOMBIE")
  BY <1>1 DEF SInv, TypeOK
<1> HIDE DEF saved
<1>. QED  BY <1>2, <1>3

\* The dead stay dead, but for the child that the executor starts; and only a
\* process of the list dies.
LEMMA Deaths ==
  ASSUME SInv, [Next]_vars, Unborn, NEW p \in Pid
  PROVE  /\ state[p] = "ZOMBIE" => state'[p] = "ZOMBIE" \/ (Start /\ p = childD)
         /\ state[p] # "ZOMBIE" /\ state'[p] = "ZOMBIE" => p \in 1 .. Len(list) /\ list' = list
<1> DEFINE Dead == state[p] = "ZOMBIE" => state'[p] = "ZOMBIE"
           Dies == state[p] # "ZOMBIE" /\ state'[p] = "ZOMBIE" => p \in 1 .. Len(list) /\ list' = list
<1>0. /\ state \in [Pid -> State] /\ NewPid = Len(list) + 1 /\ current \in 1 .. Len(list)
      /\ Len(list) \in Nat /\ DOMAIN list = 1 .. Len(list)
      /\ \A i \in 1 .. Len(list) : list[i] \in 1 .. Len(list)
  <2>1. Len(list) \in Nat /\ DOMAIN list = 1 .. Len(list)
    BY DEF SInv, TypeOK
  <2>2. \A i \in 1 .. Len(list) : list[i] = Len(list) + 1 - i
    BY DEF SInv, NewestFirst
  <2>3. \A i \in 1 .. Len(list) : list[i] \in 1 .. Len(list)
    BY <2>1, <2>2
  <2>. QED  BY <2>1, <2>3 DEF SInv, TypeOK, OneRuns, NewPid
<1>1. state[p] = "ZOMBIE" => state'[p] # "RUNNING" \/ UNCHANGED vars
  BY Step
<1>2. CASE UNCHANGED vars
  BY <1>2 DEF vars, procs
<1>3. CASE state' = state /\ list' = list
  BY <1>3
<1>4. CASE Tick
  <2>1. Switch(state, sleep) /\ list' = list
    BY <1>4 DEF Tick
  <2>. QED  BY <1>0, <1>1, <1>2, <2>1, SwitchDead
<1>5. ASSUME NEW q \in Pid, SysExit(q) PROVE (Dead \/ UNCHANGED vars) /\ Dies
  <2> DEFINE st == [state EXCEPT ![q] = "ZOMBIE"]
  <2>1. st \in [Pid -> State] /\ Switch(st, sleep) /\ list' = list /\ q \in 1 .. Len(list)
    BY <1>0, <1>5 DEF SysExit, State, Program
  <2>2. /\ state[p] = "ZOMBIE" => st[p] = "ZOMBIE"
        /\ state[p] # "ZOMBIE" /\ st[p] = "ZOMBIE" => p = q
    BY <1>0
  <2> HIDE DEF st
  <2>. QED  BY <1>1, <2>1, <2>2, SwitchDead
<1>6. ASSUME NEW r \in Pid, NEW q \in Pid, SysKill(r, q) PROVE (Dead \/ UNCHANGED vars) /\ Dies
  <2> DEFINE st == [state EXCEPT ![q] = "ZOMBIE"]
  <2>1. st \in [Pid -> State] /\ (Switch(st, sleep) \/ state' = st) /\ list' = list
    BY <1>0, <1>6 DEF SysKill, State
  <2>2. q \in 1 .. Len(list)
    BY <1>0, <1>6 DEF SysKill, Created
  <2>3. /\ state[p] = "ZOMBIE" => st[p] = "ZOMBIE"
        /\ state[p] # "ZOMBIE" /\ st[p] = "ZOMBIE" => p = q
    BY <1>0
  <2> HIDE DEF st
  <2>. QED  BY <1>1, <2>1, <2>2, <2>3, SwitchDead
<1>7. ASSUME NEW q \in Pid, NEW n \in 1 .. MaxSleep, SysSleep(q, n)
      PROVE  (Dead \/ UNCHANGED vars) /\ Dies
  <2> DEFINE st == [state EXCEPT ![q] = "SLEEPING"]
             wait == [sleep EXCEPT ![q] = n]
  <2>1. state[q] # "ZOMBIE"
    BY <1>7, PidFacts DEF SysSleep, Program, SInv, OneRuns
  <2>2. st \in [Pid -> State] /\ Switch(st, wait) /\ list' = list
    BY <1>0, <1>7 DEF SysSleep, State
  <2>3. state[p] = "ZOMBIE" <=> st[p] = "ZOMBIE"
    BY <1>0, <2>1
  <2> HIDE DEF st, wait
  <2>. QED  BY <1>1, <2>2, <2>3, SwitchDead
<1>8. CASE Create
  <2>1. state' = [state EXCEPT ![NewPid] = "READY"]
    BY <1>8 DEF Create
  <2>2. state[p] = "ZOMBIE" => p # NewPid
    BY <1>0 DEF Unborn
  <2>. QED  BY <1>0, <2>1, <2>2
<1>9. CASE Start
  BY <1>0, <1>9 DEF Start
<1>10. CASE Tick \/ Calls
  <2>1. ASSUME NEW q \in Pid, SysExec(q) PROVE state' = state /\ list' = list
    BY <2>1 DEF SysExec, procs
  <2>. QED  BY <1>2, <1>3, <1>4, <1>5, <1>6, <1>7, <1>10, <2>1 DEF Calls
<1>11. CASE ExecutorStep \/ LauncherStep
  BY <1>3, <1>8, <1>9, <1>11 DEF ExecutorStep, LauncherStep, Load, Clear, LaunchExplorer, FocusExplorer, procs
<1>. QED  BY <1>2, <1>10, <1>11 DEF Next

\* The keyboard changes hands: from its owner, or from a process that is killed,
\* to one process.
LEMMA KeyboardStep ==
  ASSUME SInv, [Next]_vars, Unborn, OneKeyboardOwner
  PROVE  Unborn' /\ OneKeyboardOwner'
<1>0. /\ focus \subseteq Pid /\ foreground \in Pid /\ parent \in [Pid -> Pid \cup {NoPid}]
      /\ state \in [Pid -> State] /\ SInv' /\ focus' \subseteq Pid /\ foreground' \in Pid
      /\ Len(list) \in Nat /\ Len(list') \in Nat
  <2>1. SInv'
    BY Step
  <2>2. /\ focus \subseteq Pid /\ foreground \in Pid /\ parent \in [Pid -> Pid \cup {NoPid}]
        /\ state \in [Pid -> State] /\ Len(list) \in Nat
    BY DEF SInv, TypeOK
  <2>3. TypeOK'
    BY <2>1 DEF SInv
  <2>4. focus' \subseteq Pid /\ foreground' \in Pid /\ Len(list') \in Nat
    BY <2>3 DEF TypeOK
  <2>. QED  BY <2>1, <2>2, <2>4
<1>1. Unborn'
  <2>1. SUFFICES ASSUME NEW p \in Pid, state'[p] = "ZOMBIE" PROVE p \in 1 .. Len(list')
    BY DEF Unborn
  <2>2. p \in 1 .. Len(list)
    BY <2>1, Deaths DEF Unborn
  <2>3. list' = list \/ Create
    BY DEF Next, Calls, ExecutorStep, LauncherStep, Tick, SysExec, SysExit, SysKill, SysSleep,
           Load, Start, Clear, LaunchExplorer, FocusExplorer, vars, procs
  <2>4. Create => Len(list') = Len(list) + 1
    BY DEF SInv, TypeOK, Create
  <2>. QED  BY <1>0, <2>2, <2>3, <2>4
<1>2. \A p \in Pid : state'[p] # "ZOMBIE" => state[p] # "ZOMBIE" \/ (Start /\ p = childD)
  BY Deaths
<1>3. CASE UNCHANGED input /\ ~ Start
  <2>1. focus' = focus /\ foreground' = foreground
    BY <1>3 DEF input
  <2>2. \A p \in focus : state[p] # "ZOMBIE" => p = foreground
    BY DEF OneKeyboardOwner, Alive
  <2>3. \A p \in focus' : state'[p] # "ZOMBIE" => p = foreground'
    BY <1>0, <1>2, <1>3, <2>1, <2>2
  <2>. QED  BY <1>1, <2>3 DEF OneKeyboardOwner, Alive
<1>4. ASSUME NEW q \in Pid, NEW r \in Pid, SysKill(r, q), ~ UNCHANGED input
      PROVE  OneKeyboardOwner'
  <2>1. q \in focus /\ focus' = focus \cup {parent[q]} /\ foreground' = parent[q] /\ state[q] # "ZOMBIE"
    BY <1>4 DEF SysKill, Inherit, input, Alive
  <2>2. q = foreground
    BY <1>0, <2>1 DEF OneKeyboardOwner, Alive
  <2>3. state'[q] = "ZOMBIE"
    <3>1. r # q => state' = [state EXCEPT ![q] = "ZOMBIE"]
      BY <1>4 DEF SysKill
    <3>2. CASE r = q
      <4> DEFINE st == [state EXCEPT ![q] = "ZOMBIE"]
      <4>1. st \in [Pid -> State] /\ st[q] = "ZOMBIE" /\ Switch(st, sleep)
        BY <1>0, <1>4, <3>2 DEF SysKill, State
      <4> HIDE DEF st
      <4>2. state'[q] # "RUNNING"
        <5>1. /\ \A p \in Pid : st[p] = "RUNNING" => p = current
              /\ st[Boot] \in {"READY", "RUNNING"} /\ list' = list /\ sleep \in [Pid -> 0 .. MaxSleep]
          <6>1. /\ \A p \in Pid : st[p] = IF p = q THEN "ZOMBIE" ELSE state[p]
                /\ q # Boot /\ list' = list
            BY <1>0, <1>4, PidFacts DEF st, SysKill, Protected
          <6>2. /\ \A p \in Pid : state[p] = "RUNNING" => p = current
                /\ state[Boot] \in {"READY", "RUNNING"} /\ sleep \in [Pid -> 0 .. MaxSleep]
            BY DEF SInv, TypeOK, OneRuns
          <6>. QED  BY <6>1, <6>2, PidFacts
        <5>. QED  BY <4>1, <5>1, SwitchRuns
      <4>. QED  BY <4>1, <4>2, SwitchDead
    <3>. QED  BY <1>0, <3>1, <3>2
  <2>4. ~ Start
    BY <1>4, PidFacts DEF SysKill, Start, Program
  <2>5. \A p \in focus : state'[p] # "ZOMBIE" => FALSE
    BY <1>0, <1>2, <2>2, <2>3, <2>4 DEF OneKeyboardOwner, Alive
  <2>. QED  BY <2>1, <2>5 DEF OneKeyboardOwner, Alive
<1>5. ASSUME NEW q \in Pid, TakeFocus(q), Start => q = childD
      PROVE  OneKeyboardOwner'
  <2>1. focus' = (focus \ {foreground}) \cup {q} /\ foreground' = q
    BY <1>5 DEF TakeFocus
  <2>2. \A p \in focus \ {foreground} : state'[p] # "ZOMBIE" => p = q
    BY <1>0, <1>2, <1>5 DEF OneKeyboardOwner, Alive
  <2>. QED  BY <2>1, <2>2 DEF OneKeyboardOwner, Alive
<1>6. CASE FocusExplorer
  <2>1. TakeFocus(childC) /\ childC \in Pid /\ ~ Start
    BY <1>6, PidFacts DEF FocusExplorer, Start, SInv, ChildInHand
  <2>. QED  BY <1>1, <1>5, <2>1
<1>7. CASE Start
  <2>1. TakeFocus(childD) /\ childD \in Pid
    BY <1>7, PidFacts DEF Start, SInv, TypeOK, ChildInHand, Pid
  <2>. QED  BY <1>1, <1>5, <2>1
<1>8. CASE Tick \/ Load \/ Clear \/ LaunchExplorer \/ UNCHANGED vars
  <2>1. UNCHANGED input
    BY <1>8 DEF Tick, Load, Clear, LaunchExplorer, vars
  <2>. QED  BY <1>1, <1>3, <1>7, <2>1
<1>9. CASE Calls
  <2>1. ASSUME NEW p \in Pid, SysExec(p) \/ SysExit(p) \/ \E n \in 1 .. MaxSleep : SysSleep(p, n)
        PROVE  UNCHANGED input
    BY <2>1 DEF SysExec, SysExit, SysSleep
  <2>. QED  BY <1>1, <1>3, <1>4, <1>7, <1>9, <2>1 DEF Calls
<1>. QED  BY <1>6, <1>7, <1>8, <1>9 DEF Next, ExecutorStep, LauncherStep

\* Two live processes never both believe they have the keyboard, whatever is
\* killed and started, and for any number of processes.
THEOREM OneOwnerTheorem == Spec => []OneKeyboardOwner
<1>1. Init => SInv /\ Unborn /\ OneKeyboardOwner
  BY Initially, PidFacts DEF Init, Unborn, OneKeyboardOwner, Alive
<1>2. SInv /\ [Next]_vars => SInv'
  BY Step
<1>3. SInv /\ Unborn /\ OneKeyboardOwner /\ [Next]_vars => Unborn' /\ OneKeyboardOwner'
  BY KeyboardStep
<1>. QED  BY <1>1, <1>2, <1>3, PTL DEF Spec

-----------------------------------------------------------------------------
\* A process that is yet to be created is not asleep.
UnbornAwake == \A p \in Pid : p > Len(list) => sleep[p] = 0

\* The switch wakes those whose time has come; and nobody else is up after it
\* who was not before.
LEMMA SwitchWakes ==
  ASSUME SInv, NEW st \in [Pid -> State], NEW wait \in [Pid -> 0 .. MaxSleep],
         st[Boot] \in {"READY", "RUNNING"}, \A q \in Pid : st[q] = "RUNNING" => q = current,
         Switch(st, wait), NEW p \in Pid, state'[p] \in {"READY", "RUNNING"}
  PROVE  sleep'[p] = 0 \/ (st[p] \in {"READY", "RUNNING"} /\ wait[p] > 0)
<1> DEFINE saved == [Woken(st) EXCEPT ![current] = IF @ = "RUNNING" THEN "READY" ELSE @]
           Awake(q) == st[q] \in {"READY", "RUNNING"} \/ sleep'[q] = 0
<1>1. sleep'[p] = 0 \/ wait[p] > 0
  BY PidFacts DEF Switch
<1>2. /\ DOMAIN saved = Pid
      /\ saved[Boot] = "READY" /\ \A q \in Pid : saved[q] \in {"READY", "RUNNING"} => Awake(q)
  <2>1. /\ DOMAIN Woken(st) = Pid
        /\ \A q \in Pid : Woken(st)[q] = IF st[q] = "SLEEPING" /\ sleep'[q] = 0 THEN "READY" ELSE st[q]
    BY DEF Woken
  <2>2. st[Boot] = "RUNNING" => current = Boot
    BY PidFacts
  <2>. QED  BY <2>1, <2>2, PidFacts
<1>3. state' = [saved EXCEPT ![Chosen(saved)] = "RUNNING"]
  BY DEF Switch
<1>4. Chosen(saved) \in 1 .. Len(list) /\ saved[Chosen(saved)] = "READY"
  BY <1>2, SomeoneIsChosen
<1>. HIDE DEF saved
<1>5. saved[p] \in {"READY", "RUNNING"}
  BY <1>2, <1>3, <1>4
<1>. QED  BY <1>1, <1>2, <1>5

LEMMA SleepStep ==
  ASSUME SInv, [Next]_vars, UnbornAwake
  PROVE  /\ UnbornAwake'
         /\ \/ UNCHANGED vars
            \/ \A p \in Up(state') :
                 sleep'[p] = 0 \/ p = childD \/ (p \in Up(state) /\ sleep[p] > 0)
<1> DEFINE OnTime == \A p \in Pid : state'[p] \in {"READY", "RUNNING"} =>
                       \/ sleep'[p] = 0 \/ p = childD
                       \/ state[p] \in {"READY", "RUNNING"} /\ sleep[p] > 0
<1>a. SUFFICES UnbornAwake' /\ (OnTime \/ UNCHANGED vars)
  <2>1. \A p : /\ p \in Up(state') <=> p \in Pid /\ state'[p] \in {"READY", "RUNNING"}
               /\ p \in Up(state) <=> p \in Pid /\ state[p] \in {"READY", "RUNNING"}
    BY DEF Up
  <2>. QED  BY <1>a, <2>1
<1>0. /\ state \in [Pid -> State] /\ sleep \in [Pid -> 0 .. MaxSleep] /\ Len(list) \in Nat
      /\ state[Boot] \in {"READY", "RUNNING"} /\ \A p \in Pid : state[p] = "RUNNING" => p = current
      /\ current \in 1 .. Len(list)
  BY DEF SInv, TypeOK, OneRuns
<1>1. CASE UNCHANGED vars
  BY <1>1 DEF vars, procs, UnbornAwake
<1>2. CASE UNCHANGED <<state, sleep, list>>
  <2>1. \A p \in Pid : sleep[p] = 0 \/ sleep[p] > 0
    BY <1>0, PidFacts
  <2>. QED  BY <1>2, <2>1 DEF UnbornAwake
<1>3. ASSUME NEW st \in [Pid -> State], NEW wait \in [Pid -> 0 .. MaxSleep],
             Switch(st, wait), list' = list, NEW r \in 1 .. Len(list), r # Boot,
             \A p \in Pid : st[p] = state[p] \/ (p = r /\ st[p] \in {"ZOMBIE", "SLEEPING"}),
             \A p \in Pid : wait[p] = sleep[p] \/ (p = r /\ st[p] = "SLEEPING")
      PROVE  UnbornAwake' /\ OnTime
  <2>1. \A p \in Pid : sleep'[p] = IF wait[p] > 0 THEN wait[p] - 1 ELSE 0
    BY <1>3 DEF Switch
  <2>2. UnbornAwake'
    BY <1>0, <1>3, <2>1, PidFacts DEF UnbornAwake
  <2>3. OnTime
    BY <1>0, <1>3, SwitchWakes, PidFacts
  <2>. QED  BY <2>2, <2>3
<1>4. Executor \in 1 .. Len(list) /\ Executor # Boot
  BY PidFacts DEF SInv, TypeOK
<1>5. CASE Tick
  BY <1>0, <1>3, <1>4, <1>5 DEF Tick
<1>6. ASSUME NEW q \in Pid, SysExit(q) PROVE UnbornAwake' /\ OnTime
  <2> DEFINE st == [state EXCEPT ![q] = "ZOMBIE"]
  <2>1. /\ st \in [Pid -> State] /\ Switch(st, sleep) /\ list' = list /\ q \in 1 .. Len(list) /\ q # Boot
        /\ \A p \in Pid : st[p] = state[p] \/ (p = q /\ st[p] = "ZOMBIE")
    BY <1>0, <1>6, PidFacts DEF SysExit, State, Program
  <2> HIDE DEF st
  <2>. QED  BY <1>0, <1>3, <2>1
<1>7. ASSUME NEW r \in Pid, NEW q \in Pid, SysKill(r, q) PROVE UnbornAwake' /\ OnTime
  <2> DEFINE st == [state EXCEPT ![q] = "ZOMBIE"]
  <2>1. /\ st \in [Pid -> State] /\ list' = list
        /\ \A p \in Pid : st[p] = state[p] \/ (p = q /\ st[p] = "ZOMBIE")
    BY <1>0, <1>7 DEF SysKill, State
  <2>2. CASE q = r
    <3>1. Switch(st, sleep) /\ q \in 1 .. Len(list) /\ q # Boot
      BY <1>0, <1>7, <2>2, PidFacts DEF SysKill, Program
    <3> HIDE DEF st
    <3>. QED  BY <1>0, <1>3, <2>1, <3>1
  <2>3. CASE q # r
    <3>1. state' = st /\ sleep' = sleep
      BY <1>7, <2>3 DEF SysKill
    <3> HIDE DEF st
    <3>2. \A p \in Pid : sleep[p] = 0 \/ sleep[p] > 0
      BY <1>0, PidFacts
    <3>. QED  BY <2>1, <3>1, <3>2 DEF UnbornAwake
  <2>. QED  BY <2>2, <2>3
<1>8. ASSUME NEW q \in Pid, NEW n \in 1 .. MaxSleep, SysSleep(q, n) PROVE UnbornAwake' /\ OnTime
  <2> DEFINE st == [state EXCEPT ![q] = "SLEEPING"]
             wait == [sleep EXCEPT ![q] = n]
  <2>1. /\ st \in [Pid -> State] /\ wait \in [Pid -> 0 .. MaxSleep]
        /\ Switch(st, wait) /\ list' = list /\ q \in 1 .. Len(list) /\ q # Boot
        /\ \A p \in Pid : st[p] = state[p] \/ (p = q /\ st[p] = "SLEEPING")
        /\ \A p \in Pid : wait[p] = sleep[p] \/ (p = q /\ st[p] = "SLEEPING")
    BY <1>0, <1>8, PidFacts DEF SysSleep, State, Program
  <2> HIDE DEF st, wait
  <2>. QED  BY <1>0, <1>3, <2>1
<1>9. ASSUME Create, sleep' = sleep PROVE UnbornAwake' /\ OnTime
  <2>1. Len(list') = Len(list) + 1 /\ state' = [state EXCEPT ![NewPid] = "READY"] /\ sleep[NewPid] = 0
    BY <1>0, <1>9 DEF Create, NewPid, UnbornAwake, SInv, TypeOK
  <2>2. \A p \in Pid : sleep[p] = 0 \/ sleep[p] > 0
    BY <1>0, PidFacts
  <2>3. OnTime
    BY <1>0, <1>9, <2>1, <2>2
  <2>4. UnbornAwake'
    BY <1>0, <1>9, <2>1, PidFacts DEF UnbornAwake, Pid
  <2>. QED  BY <2>3, <2>4
<1>10. CASE Start
  <2>1. state' = [state EXCEPT ![childD] = "READY"] /\ sleep' = sleep /\ list' = list
    BY <1>10 DEF Start
  <2>2. \A p \in Pid : sleep[p] = 0 \/ sleep[p] > 0
    BY <1>0, PidFacts
  <2>. QED  BY <1>0, <2>1, <2>2 DEF UnbornAwake
<1>11. CASE Calls
  <2>1. ASSUME NEW q \in Pid, SysExec(q) PROVE UNCHANGED <<state, sleep, list>>
    BY <2>1 DEF SysExec, procs
  <2>. QED  BY <1>2, <1>6, <1>7, <1>8, <1>11, <2>1 DEF Calls
<1>12. CASE ExecutorStep \/ LauncherStep
  BY <1>2, <1>9, <1>10, <1>12 DEF ExecutorStep, LauncherStep, Load, Clear, LaunchExplorer, FocusExplorer, procs
<1>. QED  BY <1>1, <1>5, <1>11, <1>12 DEF Next

\* Nobody but the executor's child is up before its sleep is over, however ticks,
\* sleeps and kills fall together.
THEOREM SleepsItsTimeTheorem == Spec => SleepsItsTime
<1>1. Init => SInv /\ UnbornAwake
  BY Initially, PidFacts DEF Init, UnbornAwake
<1>2. SInv /\ [Next]_vars => SInv'
  BY Step
<1>3. SInv /\ UnbornAwake /\ [Next]_vars => UnbornAwake'
  BY SleepStep
<1>4. SInv /\ UnbornAwake /\ [Next]_vars =>
        [\A p \in Up(state') : sleep'[p] = 0 \/ p = childD \/ (p \in Up(state) /\ sleep[p] > 0)]_vars
  BY SleepStep
<1>. QED  BY <1>1, <1>2, <1>3, <1>4, PTL DEF Spec, SleepsItsTime

=============================================================================
