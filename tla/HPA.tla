-------------------------------- MODULE HPA --------------------------------
(***************************************************************************)
(* The worker pool of TerraME HPA (src/hpa): the main script hands calls   *)
(* of Lua functions to a bag of tasks with hpa:parallel(), a pool of       *)
(* QThreads (ProcTask) empties the bag, and the script waits for them with *)
(* hpa:join() and hpa:joinall() and resizes the pool with hpa:np().        *)
(*                                                                         *)
(* Every step is what one thread does between two points where another     *)
(* thread can interfere.  The bag is only changed under lock_bag, so the   *)
(* two sections it protects (the insertion in parallel, the removal in     *)
(* ProcTask::run) are one step each; Bag->empty(), getName() and           *)
(* isRunning() are read outside that lock and are steps of their own.      *)
(***************************************************************************)
EXTENDS Integers, Sequences, FiniteSets

CONSTANTS
    Task,         \* the calls the script may hand to hpa:parallel()
    Name,         \* the names of the Lua functions that they call
    NameOf,       \* the function that each task calls
    NoTask,       \* a worker that has not taken a task yet
    NoName,       \* its name: the empty string
    MaxCpu,       \* bound: the largest pool
    InitCpu,      \* std::thread::hardware_concurrency(), which may be 0
    NpArg,        \* the integers the script may pass to hpa:np()
    TaskNumCpu,   \* getNumCpu() as ProcTask::run sees it
    FailingTask   \* the tasks whose function raises a Lua error

ASSUME HPAAssumption ==
    /\ NameOf \in [Task -> Name]
    /\ NoTask \notin Task
    /\ NoName \notin Name
    /\ MaxCpu \in Nat
    /\ InitCpu \in 0 .. MaxCpu
    /\ \A n \in NpArg : n \in Int /\ n <= MaxCpu
    /\ TaskNumCpu \in Int
    /\ FailingTask \subseteq Task

VARIABLES
    bag,        \* BAG, the tasks that wait
    running,    \* QThread::isRunning() of each worker
    pc,         \* where each worker is in ProcTask::run
    task,       \* tempParam of each worker
    name,       \* nameFunc of each worker: survives the task
    just_one,    \* just_one of each worker
    numCPU,     \* numCPU of hpa.cpp; the workers are 1 .. numCPU
    mpc,        \* where the main script is in the HPA call that it makes
    mi,         \* i, the loop index of that call
    arg,        \* nameFuncJoin
    np,         \* newQuantProc when joinall was called by np, else 0
    scanned,    \* the bag as join's scan found it when it began
    alive,      \* FALSE once the process died
    submitted,  \* history: the tasks that were handed to parallel
    execs,      \* history: how often each task's function was executed
    awaited     \* history: the tasks in execution when join was called

wvars == <<running, pc, task, name, just_one>>
hist  == <<submitted, execs, awaited>>
vars  == <<bag, wvars, numCPU, mpc, mi, arg, np, scanned, alive, hist>>

Worker == 1 .. MaxCpu       \* every worker that may come to exist
Pool   == 1 .. numCPU       \* the vector workers

InBag(t)    == \E k \in DOMAIN bag : bag[k] = t
Held(w, t)  == pc[w] = "execute" /\ task[w] = t
JoinAllLocs == {"while", "start", "wait", "lastStart", "lastWait"}
JoinLocs    == {"named", "scan", "scanning", "waitAll"}

----------------------------------------------------------------------------
(* createWorkers: threads that were never started, with an empty name. *)
NewWorkers ==
    /\ running' = [w \in Worker |-> FALSE]
    /\ pc'      = [w \in Worker |-> "stopped"]
    /\ task'    = [w \in Worker |-> NoTask]
    /\ name'    = [w \in Worker |-> NoName]
    /\ just_one' = [w \in Worker |-> FALSE]

Init ==
    /\ bag = <<>>
    /\ running = [w \in Worker |-> FALSE]
    /\ pc      = [w \in Worker |-> "stopped"]
    /\ task    = [w \in Worker |-> NoTask]
    /\ name    = [w \in Worker |-> NoName]
    /\ just_one = [w \in Worker |-> FALSE]
    /\ numCPU = InitCpu
    /\ mpc = "script" /\ mi = 1 /\ arg = NoName /\ np = 0
    /\ scanned = <<>>
    /\ alive = TRUE
    /\ submitted = {}
    /\ execs = [t \in Task |-> 0]
    /\ awaited = {}

(* QThread::start of a worker that is not running: run() begins, with its  *)
(* local just_one.                                                         *)
Start(w) ==
    /\ running' = [running EXCEPT ![w] = TRUE]
    /\ pc'      = [pc EXCEPT ![w] = "check"]
    /\ just_one' = [just_one EXCEPT ![w] = FALSE]
    /\ UNCHANGED <<task, name>>

At(loc)  == alive /\ mpc = loc
Goto(loc) == mpc' = loc /\ mi' = 1

(* isRunning() and wait(): wait blocks until the thread is not running. *)
CanPassNoWait(w) == TRUE          \* mutant: the call of wait is missing
CanPass(w) == ~running[w]

----------------------------------------------------------------------------
(* ProcTask::run, the body of a worker. *)

(* while (!Bag->empty()), read without the lock. *)
RunCheck(w) ==
    /\ alive /\ pc[w] = "check"
    /\ pc' = [pc EXCEPT ![w] = IF bag = <<>> THEN "finished" ELSE "lock"]
    /\ UNCHANGED <<bag, running, task, name, just_one, numCPU, mpc, mi, arg, np, scanned, alive, hist>>

TakenCall(t) == t                     \* mutant: getCallTask for getNameTask
TakenName(t) == NameOf[t]
FrontKept(b) == b                     \* mutant: front without pop_front
BagAfter(b)  == Tail(b)

(* The section under lock_bag: the bag is tested again, its first task is  *)
(* removed and the worker takes its name and its parameters.               *)
RunTake(w) ==
    /\ alive /\ pc[w] = "lock"
    /\ IF bag = <<>>
       THEN /\ pc' = [pc EXCEPT ![w] = "finished"]
            /\ UNCHANGED <<bag, task, name, just_one>>
       ELSE /\ pc'      = [pc EXCEPT ![w] = "execute"]
            /\ task'    = [task EXCEPT ![w] = Head(bag)]
            /\ name'    = [name EXCEPT ![w] = TakenName(Head(bag))]
            /\ just_one' = [just_one EXCEPT ![w] = @ \/ Len(bag) <= TaskNumCpu]
            /\ bag'     = BagAfter(bag)
    /\ UNCHANGED <<running, numCPU, mpc, mi, arg, np, scanned, alive, hist>>

(* lua_resume runs the function; the clean-up of the Lua stack that        *)
(* follows touches nothing that another thread sees.                       *)
RunExecute(w) ==
    /\ alive /\ pc[w] = "execute" /\ task[w] \notin FailingTask
    /\ execs' = [execs EXCEPT ![task[w]] = @ + 1]
    /\ pc' = [pc EXCEPT ![w] = IF just_one[w] THEN "finished" ELSE "check"]
    /\ UNCHANGED <<bag, running, task, name, just_one, numCPU, mpc, mi, arg, np, scanned, alive, submitted, awaited>>

(* A Lua error in the function: run() reports it and calls lua_yield on a  *)
(* thread in which no call is active, an error that nothing catches.       *)
RunFail(w) ==
    /\ alive /\ pc[w] = "execute" /\ task[w] \in FailingTask
    /\ alive' = FALSE
    /\ UNCHANGED <<bag, wvars, numCPU, mpc, mi, arg, np, scanned, hist>>

(* run() returned: only now QThread::isRunning() turns false.  A task that *)
(* was put in the bag after the worker's last test stays there.            *)
RunFinish(w) ==
    /\ alive /\ pc[w] = "finished"
    /\ running' = [running EXCEPT ![w] = FALSE]
    /\ pc'      = [pc EXCEPT ![w] = "stopped"]
    /\ UNCHANGED <<bag, task, name, just_one, numCPU, mpc, mi, arg, np, scanned, alive, hist>>

Run(w) == RunCheck(w) \/ RunTake(w) \/ RunExecute(w) \/ RunFail(w) \/ RunFinish(w)

----------------------------------------------------------------------------
(* HPA::parallel *)

(* The insertion, under lock_bag. *)
Parallel(t) ==
    /\ At("script") /\ t \notin submitted
    /\ bag' = Append(bag, t)
    /\ submitted' = submitted \cup {t}
    /\ Goto("parallel")
    /\ UNCHANGED <<wvars, numCPU, arg, np, scanned, alive, execs, awaited>>

(* The first worker that is not running is started; none may be. *)
ParallelStart ==
    /\ At("parallel")
    /\ \/ /\ mi \in Pool /\ running[mi]
          /\ mi' = mi + 1 /\ mpc' = mpc
          /\ UNCHANGED wvars
       \/ /\ mi \in Pool /\ ~running[mi]
          /\ Start(mi)
          /\ Goto("script")
       \/ /\ mi \notin Pool
          /\ Goto("script")
          /\ UNCHANGED wvars
    /\ UNCHANGED <<bag, numCPU, arg, np, scanned, alive, hist>>

----------------------------------------------------------------------------
(* HPA::joinall and HPA::np, which calls it *)

JoinAll ==
    /\ At("script")
    /\ Goto("while")
    /\ np' = 0
    /\ UNCHANGED <<bag, wvars, numCPU, arg, scanned, alive, hist>>

(* Mutant of Np: the call of joinall is missing. *)
NpWithoutJoin(n) ==
    /\ At("script") /\ n \notin {0, numCPU}
    /\ mpc' = "lastWait" /\ mi' = MaxCpu + 1
    /\ np' = n
    /\ UNCHANGED <<bag, wvars, numCPU, arg, scanned, alive, hist>>

(* np(0) and np(numCPU) only return the size of the pool. *)
Np(n) ==
    /\ At("script") /\ n \notin {0, numCPU}
    /\ Goto("while")
    /\ np' = n
    /\ UNCHANGED <<bag, wvars, numCPU, arg, scanned, alive, hist>>

(* Mutant of JoinAllWhile: the loops after the while are missing. *)
JoinAllWhileOnly ==
    /\ At("while")
    /\ IF bag # <<>> THEN Goto("start")
                     ELSE mpc' = "lastWait" /\ mi' = MaxCpu + 1
    /\ UNCHANGED <<bag, wvars, numCPU, arg, np, scanned, alive, hist>>

JoinAllWhile ==
    /\ At("while")
    /\ Goto(IF bag # <<>> THEN "start" ELSE "lastStart")
    /\ UNCHANGED <<bag, wvars, numCPU, arg, np, scanned, alive, hist>>

MayStartBusy(w) == running[w] /\ bag # <<>>    \* mutant: the ! is missing
MayStart(w)     == ~running[w] /\ bag # <<>>

(* The loops that start the workers, inside and after the while. *)
JoinAllStart ==
    /\ At("start") \/ At("lastStart")
    /\ \/ /\ mi \in Pool
          /\ mi' = mi + 1 /\ mpc' = mpc
          /\ IF MayStart(mi) THEN Start(mi) ELSE UNCHANGED wvars
       \/ /\ mi \notin Pool
          /\ Goto(IF mpc = "start" THEN "wait" ELSE "lastWait")
          /\ UNCHANGED wvars
    /\ UNCHANGED <<bag, numCPU, arg, np, scanned, alive, hist>>

(* The loops that wait for the workers one after the other. *)
JoinAllWait ==
    /\ At("wait") \/ At("lastWait")
    /\ \/ /\ mi \in Pool /\ CanPass(mi)
          /\ mi' = mi + 1 /\ mpc' = mpc
       \/ /\ mi \notin Pool /\ mpc = "wait"
          /\ Goto("while")
    /\ UNCHANGED <<bag, wvars, numCPU, arg, np, scanned, alive, hist>>

JoinAllReturn ==
    /\ At("lastWait") /\ mi \notin Pool /\ np = 0
    /\ Goto("script")
    /\ UNCHANGED <<bag, wvars, numCPU, arg, np, scanned, alive, hist>>

(* The rest of np: removeWorkers and createWorkers.  Deleting a QThread    *)
(* that is running ends the process.                                       *)
NpReplace ==
    /\ At("lastWait") /\ mi \notin Pool /\ np # 0
    /\ alive' = ~(\E w \in Pool : running[w])
    /\ NewWorkers
    /\ numCPU' = np
    /\ np' = 0
    /\ Goto("script")
    /\ UNCHANGED <<bag, arg, scanned, hist>>

----------------------------------------------------------------------------
(* HPA::join *)

Join(f) ==
    /\ At("script")
    /\ Goto("named")
    /\ arg' = f
    /\ awaited' = {t \in Task : NameOf[t] = f /\ \E w \in Pool : Held(w, t)}
    /\ UNCHANGED <<bag, wvars, numCPU, np, scanned, alive, submitted, execs>>

NamedOther(w) == name[w] # arg    \* mutant: compare without the !
Named(w)      == name[w] = arg

(* Worker w may be assigning its name, which join reads without a lock: it *)
(* then finds the name or not, or reads freed memory and ends the process. *)
Renaming(w) == pc[w] = "lock" /\ bag # <<>>

(* Waits for the workers whose name is f, at the moment each is looked at. *)
JoinNamed ==
    /\ At("named")
    /\ \/ /\ mi \in Pool /\ (Named(mi) => CanPass(mi) \/ Renaming(mi))
          /\ mi' = mi + 1 /\ mpc' = mpc
          /\ alive' = alive
       \/ /\ mi \in Pool /\ Renaming(mi)
          /\ alive' = FALSE
          /\ UNCHANGED <<mpc, mi>>
       \/ /\ mi \notin Pool
          /\ Goto("scan")
          /\ alive' = alive
    /\ UNCHANGED <<bag, wvars, numCPU, arg, np, scanned, hist>>

JoinScan ==
    /\ At("scan")
    /\ scanned' = bag
    /\ Goto("scanning")
    /\ UNCHANGED <<bag, wvars, numCPU, arg, np, alive, hist>>

(* The scan holds just_one, not lock_bag.  A node that a worker removes     *)
(* under the iterator is read after it was freed: the scan may then find   *)
(* the name or not, whatever is in the bag, or end the process.            *)
JoinScanned ==
    /\ At("scanning")
    /\ \/ /\ bag = scanned
          /\ Goto(IF \E t \in Task : NameOf[t] = arg /\ InBag(t)
                  THEN "waitAll" ELSE "script")
          /\ alive' = alive
       \/ /\ bag # scanned
          /\ \/ Goto("waitAll") /\ alive' = alive
             \/ Goto("script")  /\ alive' = alive
             \/ alive' = FALSE /\ UNCHANGED <<mpc, mi>>
    /\ scanned' = <<>>
    /\ UNCHANGED <<bag, wvars, numCPU, arg, np, hist>>

(* A task of that name is in the bag: waits for every worker, once. *)
JoinWaitAll ==
    /\ At("waitAll")
    /\ \/ /\ mi \in Pool /\ CanPass(mi)
          /\ mi' = mi + 1 /\ mpc' = mpc
       \/ /\ mi \notin Pool
          /\ Goto("script")
    /\ UNCHANGED <<bag, wvars, numCPU, arg, np, scanned, alive, hist>>

----------------------------------------------------------------------------
(* The script ends: ~HPA deletes the workers, and one that still runs ends *)
(* the process.                                                            *)
Destroy ==
    /\ At("script")
    /\ Goto("ended")
    /\ alive' = ~(\E w \in Pool : running[w])
    /\ NewWorkers
    /\ UNCHANGED <<bag, numCPU, arg, np, scanned, hist>>

(* The calls the script may make, and the steps of the call it is in. *)
Script ==
    \/ \E t \in Task : Parallel(t)
    \/ \E f \in Name : Join(f)
    \/ \E n \in NpArg : Np(n)
    \/ JoinAll
    \/ Destroy
InCall ==
    \/ ParallelStart
    \/ JoinAllWhile \/ JoinAllStart \/ JoinAllWait \/ JoinAllReturn \/ NpReplace
    \/ JoinNamed \/ JoinScan \/ JoinScanned \/ JoinWaitAll

Next == Script \/ InCall \/ \E w \in Worker : Run(w)

Spec == Init /\ [][Next]_vars

(* The operating system runs every thread that can run.  Nothing makes the *)
(* script call anything.                                                   *)
FairSpec == Spec /\ WF_vars(InCall) /\ \A w \in Worker : WF_vars(Run(w))

----------------------------------------------------------------------------
TypeOK ==
    /\ bag \in Seq(Task) /\ scanned \in Seq(Task)
    /\ running \in [Worker -> BOOLEAN]
    /\ pc \in [Worker -> {"stopped", "check", "lock", "execute", "finished"}]
    /\ task \in [Worker -> Task \cup {NoTask}]
    /\ name \in [Worker -> Name \cup {NoName}]
    /\ just_one \in [Worker -> BOOLEAN]
    /\ numCPU \in Int /\ numCPU <= MaxCpu
    /\ mpc \in {"script", "parallel", "ended"} \cup JoinAllLocs \cup JoinLocs
    /\ mi \in Nat
    /\ arg \in Name \cup {NoName}
    /\ np \in NpArg \cup {0}
    /\ alive \in BOOLEAN
    /\ submitted \subseteq Task
    /\ execs \in [Task -> Nat]
    /\ awaited \subseteq Task

(* A call handed to parallel is executed exactly once: at any moment it is *)
(* once in the bag, or in the hands of one worker, or executed, and a call *)
(* that was not handed over is nowhere.  (Bag insertion and removal,       *)
(* ProcTask::run with its two tests of the bag.)                           *)
InOnePlace(t) ==
    /\ execs[t] <= 1
    /\ \A j, k \in DOMAIN bag : bag[j] = t /\ bag[k] = t => j = k
    /\ \A v, w \in Worker : Held(v, t) /\ Held(w, t) => v = w
    /\ ~(InBag(t) /\ execs[t] = 1)
    /\ ~(InBag(t) /\ \E w \in Worker : Held(w, t))
    /\ ~(execs[t] = 1 /\ \E w \in Worker : Held(w, t))
    /\ t \in submitted <=> InBag(t) \/ execs[t] = 1 \/ \E w \in Worker : Held(w, t)
ExactlyOnce == mpc # "ended" => \A t \in Task : InOnePlace(t)

(* joinall returns only when every task handed over before was executed    *)
(* and no worker is running, whatever the workers did meanwhile.           *)
Quiet == (\A w \in Worker : ~running[w]) /\ (\A t \in submitted : execs[t] = 1)
JoinAllCompletes ==
    [][(mpc \in JoinAllLocs /\ mpc' \notin JoinAllLocs) => Quiet]_vars

(* The pool is only replaced when its threads are at rest: np never kills  *)
(* a task, nor the process by deleting a thread that runs.                 *)
ResizeIsSafe == [][numCPU' # numCPU => Quiet /\ alive']_vars

(* join(f) waits at least for the calls of f that were being executed when *)
(* it was called ("Executa o Join na/nas funcoes name_func que esta/estao  *)
(* executando").                                                           *)
JoinWaitsForRunning ==
    [][(mpc \in JoinLocs /\ mpc' = "script") => \A t \in awaited : execs[t] = 1]_vars

(* The pool keeps the promise of TaskPool. *)
TP == INSTANCE TaskPool WITH executed <- execs, waiting <- (mpc \in JoinAllLocs)
ImplementsTaskPool == TP!Spec

(* joinall always returns when there are workers, or the process dies with *)
(* a failing task.                                                         *)
JoinAllReturns == (mpc \in JoinAllLocs /\ numCPU > 0) ~> (mpc = "script" \/ ~alive)

(* What the comment in join says of a call of f that waits in the bag      *)
(* ("existe processo na bag com este nome e temos que aguardar a sua       *)
(* execucao") and hpa-basic.lua counts on.                                 *)
JoinWaitsForBag ==
    [][(mpc \in JoinLocs /\ mpc' = "script")
        => \A t \in submitted : NameOf[t] = arg => execs[t] = 1]_vars
============================================================================
