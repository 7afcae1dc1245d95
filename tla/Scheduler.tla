------------------------------ MODULE Scheduler ------------------------------
(***************************************************************************)
(* Processes of the kernel: the round robin of schedule(), the calls that  *)
(* change a process's state (SYS_EXEC, SYS_EXIT, SYS_KILL, SYS_SLEEP), and *)
(* the two kernel tasks that start programs, task_c (the Explorer, once)   *)
(* and task_d (every SYS_EXEC, through a one-place mailbox).               *)
(*                                                                         *)
(* One processor.  A system call runs with interrupts off and is one step; *)
(* kernel tasks run with interrupts on, so the timer may take the          *)
(* processor from task_c and task_d between any two of their steps.        *)
(***************************************************************************)
EXTENDS Integers, Sequences, FiniteSets

CONSTANTS MaxPid,      \* how many processes memory can hold
          MaxSleep,    \* the longest sleep, in ticks
          Killable     \* the processes programs ask SYS_KILL to end

Boot == 1              \* kernel_main's idle loop: never sleeps, never ends
Shell == 2
Launcher == 3          \* task_c
Executor == 4          \* task_d
Pid == 1 .. MaxPid
NoPid == 0

ASSUME SchedulerAssumption ==
  MaxPid \in Nat /\ MaxPid >= Executor /\ MaxSleep \in Nat \ {0} /\ Killable \subseteq Pid

VARIABLES list,        \* the processes, head first
          state,       \* of each process
          sleep,       \* ticks to its wake_up_time
          parent,      \* parent_pid
          focus,       \* processes with is_foreground set
          foreground,  \* foreground_process
          current,     \* current_process
          pending,     \* g_exec_pending_flag
          taskC, taskD,        \* where the two kernel tasks are
          childC, childD,      \* the process each has just created
          left         \* processes past their exit: only "hlt" is left of them

procs == <<list, state, sleep, parent>>
input == <<focus, foreground>>
tasks == <<taskC, taskD, childC, childD>>
vars == <<procs, input, current, pending, tasks, left>>

Created == {p \in Pid : \E i \in DOMAIN list : list[i] = p}
Alive(p) == state[p] # "ZOMBIE"

Init == /\ list = <<Executor, Launcher, Shell, Boot>>
        /\ state = [p \in Pid |-> IF p <= Executor THEN "READY" ELSE "none"]
        /\ sleep = [p \in Pid |-> 0]
        /\ parent = [p \in Pid |-> IF p \in Boot + 1 .. Executor THEN Boot ELSE NoPid]
        /\ focus = {Shell} /\ foreground = Shell
        /\ current = Boot
        /\ pending = FALSE
        /\ taskC = "start" /\ taskD = "poll" /\ childC = NoPid /\ childD = NoPid
        /\ left = {}

(******************************* schedule() ********************************)
PosOf(p) == CHOOSE i \in DOMAIN list : list[i] = p
\* The k-th process after the current one, going round the list.
After(k) == LET i == PosOf(current) + k
            IN list[IF i > Len(list) THEN i - Len(list) ELSE i]

\* Mutant of Chosen: the first process that does not sleep.
ChosenAwake(st) ==
  LET awake == {k \in 1 .. Len(list) : st[After(k)] # "SLEEPING"}
  IN After(CHOOSE k \in awake : \A j \in awake : k <= j)

\* Mutant of Chosen: the search starts at the head of the list every time.
ChosenFromHead(st) ==
  LET ready == {i \in DOMAIN list : st[list[i]] = "READY"}
  IN IF ready = {} THEN list[1]
     ELSE list[CHOOSE i \in ready : \A j \in ready : i <= j]

\* The first READY process after the current one, which comes last; the head
\* of the list when there is none.
Chosen(st) ==
  LET ready == {k \in 1 .. Len(list) : st[After(k)] = "READY"}
  IN IF ready = {} THEN list[1]
     ELSE After(CHOOSE k \in ready : \A j \in ready : k <= j)

\* Mutant of Woken: every sleeper is woken.
WokenAll(st) == [p \in Pid |-> IF st[p] = "SLEEPING" THEN "READY" ELSE st[p]]

\* Sleepers whose time has come are READY.
Woken(st) == [p \in Pid |-> IF st[p] = "SLEEPING" /\ sleep'[p] = 0 THEN "READY" ELSE st[p]]

\* The timer's interrupt, or "int 0x20": one tick, and the processor goes to
\* the next process. st and wait are the states and sleeps it finds.
Switch(st, wait) ==
  /\ sleep' = [p \in Pid |-> IF wait[p] > 0 THEN wait[p] - 1 ELSE 0]
  /\ LET woken == Woken(st)
         saved == [woken EXCEPT ![current] = IF @ = "RUNNING" THEN "READY" ELSE @]
     IN /\ current' = Chosen(saved)
        /\ state' = [saved EXCEPT ![Chosen(saved)] = "RUNNING"]

Tick == /\ Switch(state, sleep)
        /\ UNCHANGED <<list, parent, input, pending, tasks, left>>

(****************************** system calls *******************************)
\* A ring 3 program that has the processor.
Program(p) == p > Executor /\ current = p /\ p \notin left

\* One request at a time; a second one is told -2 and changes nothing.
SysExec(p) == /\ Program(p)
              /\ ~pending /\ pending' = TRUE
              /\ UNCHANGED <<procs, input, current, tasks, left>>

\* SYS_EXIT: the focus stays where it was.
SysExit(p) == /\ Program(p)
              /\ Switch([state EXCEPT ![p] = "ZOMBIE"], sleep)
              /\ left' = left \cup {p}
              /\ UNCHANGED <<list, parent, input, pending, tasks>>

\* "pid <= 3": boot loop, shell and launcher cannot be killed.
Protected(q) == q <= Launcher

\* The killed process's parent gets the keyboard, dead or alive.
Inherit(q) ==
  IF q \in focus /\ parent[q] \in Created
  THEN focus' = focus \cup {parent[q]} /\ foreground' = parent[q]
  ELSE UNCHANGED input

SysKill(p, q) ==
  /\ Program(p) /\ q \in Killable \cap Created /\ ~Protected(q) /\ Alive(q)
  /\ Inherit(q)
  /\ IF q = p
     THEN Switch([state EXCEPT ![q] = "ZOMBIE"], sleep) /\ left' = left \cup {p}
     ELSE state' = [state EXCEPT ![q] = "ZOMBIE"] /\ UNCHANGED <<sleep, current, left>>
  /\ UNCHANGED <<list, parent, pending, tasks>>

\* sys_sleep, of programs and of the shell while it has the keyboard.
SysSleep(p, n) ==
  /\ Program(p) \/ (p = Shell /\ current = Shell /\ Shell \in focus)
  /\ Switch([state EXCEPT ![p] = "SLEEPING"], [sleep EXCEPT ![p] = n])
  /\ UNCHANGED <<list, parent, input, pending, tasks, left>>

(************************* task_c and task_d *******************************)
\* create_process: a READY process at the head of the list, its parent the task
\* that asked. The program may run before the task goes on.
NewPid == Len(list) + 1
Create == /\ NewPid \in Pid
          /\ list' = <<NewPid>> \o list
          /\ state' = [state EXCEPT ![NewPid] = "READY"]
          /\ parent' = [parent EXCEPT ![NewPid] = current]

\* The child gets the keyboard from its owner.
TakeFocus(q) == /\ focus' = (focus \ {foreground}) \cup {q}
                /\ foreground' = q

\* The launcher creates the Explorer; loading may fail.
LaunchExplorer ==
  /\ current = Launcher /\ taskC = "start"
  /\ \/ Create /\ childC' = NewPid /\ taskC' = "focus"
     \/ UNCHANGED <<list, state, parent, childC>> /\ taskC' = "done"
  /\ UNCHANGED <<sleep, input, current, pending, taskD, childD, left>>

FocusExplorer == /\ current = Launcher /\ taskC = "focus"
                 /\ TakeFocus(childC)
                 /\ taskC' = "done" /\ childC' = NoPid
                 /\ UNCHANGED <<procs, current, pending, taskD, childD, left>>

\* Mutant of Load: the result of create_elf_process is not looked at.
LoadUnchecked ==
  /\ current = Executor /\ taskD = "poll" /\ pending
  /\ taskD' = "start"
  /\ \/ Create /\ childD' = NewPid
     \/ UNCHANGED <<list, state, parent, childD>>
  /\ UNCHANGED <<sleep, input, current, pending, taskC, childC, left>>

\* The executor sees a request and loads the program, which may fail.
Load == /\ current = Executor /\ taskD = "poll" /\ pending
        /\ \/ Create /\ childD' = NewPid /\ taskD' = "start"
           \/ UNCHANGED <<list, state, parent, childD>> /\ taskD' = "clear"
        /\ UNCHANGED <<sleep, input, current, pending, taskC, childC, left>>

\* Mutant of Start: the owner of the keyboard keeps it too.
StartBoth == /\ current = Executor /\ taskD = "start"
             /\ focus' = focus \cup {childD} /\ foreground' = childD
             /\ state' = [state EXCEPT ![childD] = "READY"]
             /\ taskD' = "clear" /\ childD' = NoPid
             /\ UNCHANGED <<list, sleep, parent, current, pending, taskC, childC, left>>

\* Under "cli": the child gets the keyboard and is made READY, whatever has
\* become of it since it was created.
Start == /\ current = Executor /\ taskD = "start"
         /\ TakeFocus(childD)
         /\ state' = [state EXCEPT ![childD] = "READY"]
         /\ taskD' = "clear" /\ childD' = NoPid
         /\ UNCHANGED <<list, sleep, parent, current, pending, taskC, childC, left>>

\* Mutant of Clear: a request that failed is left in the mailbox.
ClearNothing == /\ current = Executor /\ taskD = "clear"
                /\ taskD' = "poll"
                /\ UNCHANGED <<procs, input, current, pending, taskC, childC, childD, left>>

Clear == /\ current = Executor /\ taskD = "clear"
         /\ pending' = FALSE /\ taskD' = "poll"
         /\ UNCHANGED <<procs, input, current, taskC, childC, childD, left>>

(******************************* the system ********************************)
Calls == \E p \in Pid : \/ SysExec(p) \/ SysExit(p)
                        \/ \E q \in Pid : SysKill(p, q)
                        \/ \E n \in 1 .. MaxSleep : SysSleep(p, n)
ExecutorStep == Load \/ Start \/ Clear
LauncherStep == LaunchExplorer \/ FocusExplorer

Next == Tick \/ Calls \/ ExecutorStep \/ LauncherStep

Spec == Init /\ [][Next]_vars

\* The timer never stops; and a kernel task that gets its slice again and
\* again moves on (a slice is 10 ms).
FairSpec == Spec /\ WF_vars(Tick) /\ SF_vars(ExecutorStep) /\ SF_vars(LauncherStep)

(******************************** properties *******************************)
State == {"none", "ZOMBIE", "READY", "RUNNING", "SLEEPING"}

TypeOK ==
  /\ list \in Seq(Pid) /\ Len(list) \in Executor .. MaxPid
  /\ state \in [Pid -> State] /\ sleep \in [Pid -> 0 .. MaxSleep]
  /\ parent \in [Pid -> Pid \cup {NoPid}]
  /\ focus \subseteq Pid /\ foreground \in Pid /\ current \in Pid
  /\ pending \in BOOLEAN
  /\ taskC \in {"start", "focus", "done"} /\ taskD \in {"poll", "start", "clear"}
  /\ childC \in Pid \cup {NoPid} /\ childD \in Pid \cup {NoPid}
  /\ left \subseteq Pid

\* The processor is never given to the dead, and one process runs at a time:
\* the fallback of schedule() to the head of the list, which would run whatever
\* is there, is never taken.
OnlyLiveRun ==
  [][\A p \in Pid : state'[p] = "RUNNING" => p = current' /\ state[p] # "ZOMBIE"]_vars

\* Two live processes never both believe they have the keyboard, through any
\* order of kills, exits and starts: each of task_c, task_d and kill_process
\* takes the flag from one process and gives it to another.
OneKeyboardOwner == \A p \in focus : Alive(p) => p = foreground

\* Nobody is up before its sleep is over, unless the executor got it up: it makes
\* its child READY though the child may have run, and gone to sleep, by then.
Up(st) == {p \in Pid : st[p] \in {"READY", "RUNNING"}}
SleepsItsTime ==
  [][\A p \in Up(state') : sleep'[p] = 0 \/ p = childD \/ (p \in Up(state) /\ sleep[p] > 0)]_vars

\* Every SYS_EXEC that was accepted is served and frees the mailbox, whatever
\* the programs that run in between do to each other (task_d left alone).
ExecServed == pending ~> ~pending

\* A process that is ready gets the processor in its turn or is killed first,
\* though new processes come in at the head of the list.
EveryoneRuns == \A p \in Pid : (state[p] = "READY") ~> (current = p \/ ~Alive(p))

\* What proc.h says of PROCESS_ZOMBIE, "Morto / Descartado (Aguardando
\* limpeza)": the dead stay dead. (Does not hold of the code, see zombie.)
DeadStayDead == [][\A p \in Pid : state[p] = "ZOMBIE" => state'[p] = "ZOMBIE"]_vars
=============================================================================
