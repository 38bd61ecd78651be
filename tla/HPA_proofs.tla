----------------------------- MODULE HPA_proofs -----------------------------
(***************************************************************************)
(* What HPA guarantees for every set of tasks, every size of the pool and  *)
(* every sequence of calls of the script, and its critical sections for    *)
(* any number of threads, sections and rounds.                             *)
(***************************************************************************)
EXTENDS HPA, Sections, TLAPS

(* A worker runs exactly when it is inside run(), only the workers of the  *)
(* present pool do, and one that executes has a task.                      *)
ThreadInv ==
    \A w \in Worker : /\ running[w] <=> pc[w] # "stopped"
                      /\ running[w] => w \in Pool
                      /\ pc[w] = "execute" => task[w] \in Task

(* joinall leaves its while loop with an empty bag, which nobody fills,    *)
(* and its last loop leaves stopped workers behind; none outlives ~HPA.    *)
JoinInv ==
    /\ mi >= 1
    /\ mpc \in {"lastStart", "lastWait"} => bag = <<>>
    /\ mpc = "lastWait" => \A w \in Pool : w < mi => ~running[w]
    /\ mpc = "ended" => \A w \in Worker : ~running[w]

IInv == TypeOK /\ ThreadInv /\ JoinInv /\ ExactlyOnce

----------------------------------------------------------------------------
(* Where the elements of a queue are after one was appended. *)
LEMMA AppendFacts ==
    ASSUME NEW S, NEW q \in Seq(S), NEW e \in S
    PROVE  /\ Append(q, e) \in Seq(S)
           /\ DOMAIN Append(q, e) = 1 .. Len(q) + 1
           /\ \A i \in 1 .. Len(q) : Append(q, e)[i] = q[i]
           /\ Append(q, e)[Len(q) + 1] = e
    OBVIOUS

(* Where the elements of a queue are after its first was removed. *)
LEMMA TailFacts ==
    ASSUME NEW S, NEW q \in Seq(S), q # <<>>
    PROVE  /\ Head(q) \in S /\ Head(q) = q[1]
           /\ 1 \in DOMAIN q
           /\ Tail(q) \in Seq(S)
           /\ DOMAIN q = 1 .. Len(q)
           /\ DOMAIN Tail(q) = 1 .. Len(q) - 1
           /\ Len(q) \in Nat \ {0}
           /\ \A i \in 1 .. Len(q) - 1 : Tail(q)[i] = q[i + 1]
    OBVIOUS

----------------------------------------------------------------------------
LEMMA InitInv == Init => IInv
  <1> SUFFICES ASSUME Init PROVE IInv
    OBVIOUS
  <1> USE HPAAssumption
  <1>1. TypeOK
    BY DEF Init, TypeOK, Worker, JoinAllLocs, JoinLocs
  <1>2. ThreadInv /\ JoinInv
    BY DEF Init, ThreadInv, JoinInv
  <1>3. ExactlyOnce
    BY DEF Init, ExactlyOnce, InOnePlace, InBag, Held
  <1>4. QED
    BY <1>1, <1>2, <1>3 DEF IInv

----------------------------------------------------------------------------
(* A step that leaves the bag, the workers and the history of the tasks    *)
(* alone leaves every task where it was.                                   *)
LEMMA PlacesKept ==
    ASSUME ExactlyOnce, mpc # "ended",
           UNCHANGED <<bag, pc, task, submitted, execs>>
    PROVE  ExactlyOnce'
    BY DEF ExactlyOnce, InOnePlace, InBag, Held

(* Starting a stopped worker puts no task in its hands. *)
LEMMA PlacesKeptByStart ==
    ASSUME IInv, mpc # "ended", NEW w \in Worker, ~running[w], Start(w),
           UNCHANGED <<bag, submitted, execs>>
    PROVE  ExactlyOnce'
  <1>1. pc[w] = "stopped"
    BY DEF IInv, ThreadInv
  <1>2. \A v \in Worker, t \in Task : Held(v, t)' <=> Held(v, t)
    BY <1>1 DEF IInv, TypeOK, Start, Held
  <1>3. \A t \in Task : InOnePlace(t) => InOnePlace(t)'
    BY <1>2 DEF InOnePlace, InBag
  <1>4. QED
    BY <1>3 DEF IInv, ExactlyOnce

(* When joinall has seen every worker of its last loop stopped, nothing is *)
(* left to do.                                                             *)
LEMMA LastWaitIsQuiet ==
    ASSUME IInv, mpc = "lastWait", mi \notin Pool
    PROVE  Quiet
  <1>1. \A w \in Worker : ~running[w]
    BY DEF IInv, TypeOK, ThreadInv, JoinInv, Pool, Worker
  <1>2. \A t \in Task : ~InBag(t) /\ ~\E w \in Worker : Held(w, t)
    BY <1>1 DEF IInv, JoinInv, ThreadInv, InBag, Held
  <1>3. QED
    BY <1>1, <1>2 DEF Quiet, IInv, TypeOK, ExactlyOnce, InOnePlace

----------------------------------------------------------------------------
(* The steps of a worker preserve the invariant. *)
LEMMA RunInv ==
    ASSUME IInv, NEW w \in Worker, Run(w)
    PROVE  IInv'
  <1> USE HPAAssumption DEF IInv
  <1>1. CASE RunCheck(w)
    <2>1. TypeOK'
      BY <1>1 DEF RunCheck, TypeOK, hist
    <2>2. ThreadInv' /\ JoinInv'
      BY <1>1 DEF RunCheck, TypeOK, ThreadInv, JoinInv, Pool
    <2>3. \A v \in Worker, t \in Task : Held(v, t)' <=> Held(v, t)
      BY <1>1 DEF RunCheck, TypeOK, Held
    <2>4. ExactlyOnce'
      BY <1>1, <2>3 DEF RunCheck, ExactlyOnce, InOnePlace, InBag, hist
    <2>5. QED
      BY <2>1, <2>2, <2>4
  <1>2. CASE RunTake(w) /\ bag = <<>>
    <2>1. TypeOK'
      BY <1>2 DEF RunTake, TypeOK, hist
    <2>2. ThreadInv' /\ JoinInv'
      BY <1>2 DEF RunTake, TypeOK, ThreadInv, JoinInv, Pool
    <2>3. \A v \in Worker, t \in Task : Held(v, t)' <=> Held(v, t)
      BY <1>2 DEF RunTake, TypeOK, Held
    <2>4. ExactlyOnce'
      BY <1>2, <2>3 DEF RunTake, ExactlyOnce, InOnePlace, InBag, hist
    <2>5. QED
      BY <2>1, <2>2, <2>4
  <1>3. CASE RunTake(w) /\ bag # <<>>
    <2> DEFINE h == Head(bag)
    <2>a. bag \in Seq(Task) /\ bag # <<>> /\ bag' = Tail(bag)
      BY <1>3 DEF RunTake, BagAfter, TypeOK
    <2>0. /\ h \in Task /\ h = bag[1] /\ 1 \in DOMAIN bag
          /\ bag' = Tail(bag) /\ bag' \in Seq(Task)
          /\ DOMAIN bag = 1 .. Len(bag) /\ Len(bag) \in Nat \ {0}
          /\ DOMAIN bag' = 1 .. Len(bag) - 1
          /\ \A i \in 1 .. Len(bag) - 1 : bag'[i] = bag[i + 1]
      BY <2>a, TailFacts
    <2>b. just_one' \in [Worker -> BOOLEAN]
      <3> DEFINE last == just_one[w] \/ Len(bag) <= TaskNumCpu
      <3>1. last \in BOOLEAN
        OBVIOUS
      <3>2. just_one' = [just_one EXCEPT ![w] = last]
        BY <1>3 DEF RunTake
      <3> HIDE DEF last
      <3>3. QED
        BY <3>1, <3>2 DEF TypeOK
    <2>c. task' \in [Worker -> Task \cup {NoTask}] /\ name' \in [Worker -> Name \cup {NoName}]
      <3>1. NameOf[h] \in Name
        BY <2>0
      <3>2. task' = [task EXCEPT ![w] = h] /\ name' = [name EXCEPT ![w] = NameOf[h]]
        BY <1>3 DEF RunTake, TakenName
      <3> HIDE DEF h
      <3>3. QED
        BY <3>1, <3>2, <2>0 DEF TypeOK
    <2>d. /\ pc' = [pc EXCEPT ![w] = "execute"]
          /\ UNCHANGED <<running, numCPU, mpc, mi, arg, np, scanned, alive, submitted, execs, awaited>>
      BY <1>3 DEF RunTake, hist
    <2>1. TypeOK'
      BY <2>0, <2>b, <2>c, <2>d DEF TypeOK
    <2>2. ThreadInv' /\ JoinInv'
      BY <1>3, <2>0 DEF RunTake, TypeOK, ThreadInv, JoinInv, Pool
    <2>3. \A v \in Worker, t \in Task :
              Held(v, t)' <=> Held(v, t) \/ (v = w /\ t = h)
      BY <1>3 DEF RunTake, TypeOK, Held
    <2>4. ASSUME mpc # "ended", NEW t \in Task
          PROVE  InOnePlace(t)'
      <3>1. InOnePlace(t) /\ InOnePlace(h)
        BY <2>0, <2>4 DEF ExactlyOnce
      <3>2. InBag(t)' <=> InBag(t) /\ t # h
        <4>1. ASSUME InBag(t)' PROVE InBag(t) /\ t # h
          <5>1. PICK k \in 1 .. Len(bag) - 1 : bag[k + 1] = t
            BY <4>1, <2>0 DEF InBag
          <5>2. k + 1 \in DOMAIN bag /\ k + 1 # 1
            BY <2>0
          <5>3. QED
            BY <5>1, <5>2, <3>1, <2>0 DEF InBag, InOnePlace
        <4>2. ASSUME InBag(t), t # h PROVE InBag(t)'
          <5>1. PICK k \in 1 .. Len(bag) : bag[k] = t
            BY <4>2, <2>0 DEF InBag
          <5>2. k - 1 \in 1 .. Len(bag) - 1 /\ bag'[k - 1] = t
            BY <5>1, <4>2, <2>0
          <5>3. QED
            BY <5>2, <2>0 DEF InBag
        <4>3. QED
          BY <4>1, <4>2
      <3>3. \A j, k \in DOMAIN bag' : bag'[j] = t /\ bag'[k] = t => j = k
        BY <2>0, <3>1 DEF InOnePlace
      <3>4. InBag(h) /\ execs' = execs /\ submitted' = submitted
        BY <2>0, <1>3 DEF InBag, RunTake, hist
      <3>5. QED
        BY <3>1, <3>2, <3>3, <3>4, <2>3 DEF InOnePlace
    <2>5. ExactlyOnce'
      BY <1>3, <2>4 DEF ExactlyOnce, RunTake
    <2>6. QED
      BY <2>1, <2>2, <2>5
  <1>4. CASE RunExecute(w)
    <2> DEFINE h == task[w]
    <2>0. h \in Task /\ execs' = [execs EXCEPT ![h] = execs[h] + 1]
      BY <1>4 DEF RunExecute, ThreadInv
    <2>1. TypeOK'
      <3>1. execs' \in [Task -> Nat]
        BY <2>0 DEF TypeOK
      <3>2. QED
        BY <3>1, <1>4 DEF RunExecute, TypeOK
    <2>2. ThreadInv' /\ JoinInv'
      BY <1>4 DEF RunExecute, TypeOK, ThreadInv, JoinInv, Pool
    <2>3. \A v \in Worker, t \in Task :
              Held(v, t)' <=> Held(v, t) /\ v # w
      BY <1>4 DEF RunExecute, TypeOK, Held
    <2>4. ASSUME mpc # "ended", NEW t \in Task
          PROVE  InOnePlace(t)'
      <3>1. InOnePlace(t)
        BY <2>4 DEF ExactlyOnce
      <3>2. Held(w, h) /\ bag' = bag /\ submitted' = submitted
        BY <1>4 DEF Held, RunExecute
      <3>3. CASE t = h
        <4>1. ~InBag(t) /\ execs[t] = 0 /\ t \in submitted
          BY <3>1, <3>2, <3>3 DEF InOnePlace, TypeOK
        <4>2. execs'[t] = 1
          BY <4>1, <3>3, <2>0 DEF TypeOK
        <4>3. \A v \in Worker : ~Held(v, t)'
          BY <2>3, <3>1, <3>2, <3>3 DEF InOnePlace
        <4>4. QED
          BY <4>1, <4>2, <4>3, <3>1, <3>2 DEF InOnePlace, InBag
      <3>4. CASE t # h
        <4>1. execs'[t] = execs[t]
          BY <3>4, <2>0 DEF TypeOK
        <4>2. \A v \in Worker : Held(v, t)' <=> Held(v, t)
          BY <2>3, <3>4 DEF Held
        <4>3. QED
          BY <4>1, <4>2, <3>1, <3>2 DEF InOnePlace, InBag
      <3>5. QED
        BY <3>3, <3>4
    <2>5. ExactlyOnce'
      BY <1>4, <2>4 DEF ExactlyOnce, RunExecute
    <2>6. QED
      BY <2>1, <2>2, <2>5
  <1>5. CASE RunFail(w)
    <2>1. TypeOK'
      BY <1>5 DEF RunFail, TypeOK, wvars, hist
    <2>2. ThreadInv' /\ JoinInv'
      BY <1>5 DEF RunFail, ThreadInv, JoinInv, Pool, wvars
    <2>3. ExactlyOnce'
      BY <1>5 DEF RunFail, ExactlyOnce, InOnePlace, InBag, Held, wvars, hist
    <2>4. QED
      BY <2>1, <2>2, <2>3
  <1>6. CASE RunFinish(w)
    <2>1. TypeOK'
      BY <1>6 DEF RunFinish, TypeOK, hist
    <2>2. ThreadInv' /\ JoinInv'
      BY <1>6 DEF RunFinish, TypeOK, ThreadInv, JoinInv, Pool
    <2>3. \A v \in Worker, t \in Task : Held(v, t)' <=> Held(v, t)
      BY <1>6 DEF RunFinish, TypeOK, Held
    <2>4. ExactlyOnce'
      BY <1>6, <2>3 DEF RunFinish, ExactlyOnce, InOnePlace, InBag, hist
    <2>5. QED
      BY <2>1, <2>2, <2>4
  <1>7. QED
    BY <1>1, <1>2, <1>3, <1>4, <1>5, <1>6 DEF Run

(* The steps of the script's thread preserve the invariant. *)
LEMMA ParallelInv ==
    ASSUME IInv, NEW t \in Task, Parallel(t)
    PROVE  IInv'
  <1> USE HPAAssumption DEF IInv
  <1>0. /\ bag' = Append(bag, t) /\ bag' \in Seq(Task)
        /\ DOMAIN bag = 1 .. Len(bag) /\ Len(bag) \in Nat
        /\ DOMAIN bag' = 1 .. Len(bag) + 1
        /\ \A i \in 1 .. Len(bag) : bag'[i] = bag[i]
        /\ bag'[Len(bag) + 1] = t
    BY AppendFacts DEF Parallel, TypeOK
  <1>1. TypeOK'
    BY <1>0 DEF Parallel, TypeOK, wvars, Goto
  <1>2. ThreadInv' /\ JoinInv'
    BY DEF Parallel, ThreadInv, JoinInv, Pool, wvars, Goto
  <1>3. \A v \in Worker, u \in Task : Held(v, u)' <=> Held(v, u)
    BY DEF Parallel, Held, wvars
  <1>4. \A u \in Task : InBag(u)' <=> InBag(u) \/ u = t
    BY <1>0 DEF InBag
  <1>5. \A u \in Task : InOnePlace(u)
    BY DEF ExactlyOnce, Parallel, At
  <1>6. t \notin submitted /\ submitted' = submitted \cup {t} /\ execs' = execs
    BY DEF Parallel
  <1>7. ASSUME NEW u \in Task PROVE InOnePlace(u)'
    <2>1. ~InBag(t) /\ execs[t] = 0 /\ \A v \in Worker : ~Held(v, t)
      BY <1>5, <1>6 DEF InOnePlace, TypeOK
    <2>2. \A j, k \in DOMAIN bag' : bag'[j] = u /\ bag'[k] = u => j = k
      BY <1>0, <1>5, <2>1 DEF InOnePlace, InBag
    <2>3. QED
      BY <1>3, <1>4, <1>5, <1>6, <2>1, <2>2 DEF InOnePlace
  <1>8. QED
    BY <1>1, <1>2, <1>7 DEF ExactlyOnce

LEMMA StartInv ==
    ASSUME IInv, ParallelStart \/ JoinAllStart
    PROVE  IInv'
  <1> USE HPAAssumption DEF IInv
  <1>1. /\ UNCHANGED <<bag, numCPU, arg, np, scanned, alive, hist>>
        /\ mpc # "ended" /\ mpc # "lastWait" /\ mpc' # "ended"
    BY DEF ParallelStart, JoinAllStart, At, Goto
  <1>2. \/ UNCHANGED wvars
        \/ mi \in Pool /\ ~running[mi] /\ Start(mi) /\ (mpc = "lastStart" => FALSE)
    BY DEF ParallelStart, JoinAllStart, At, Goto, MayStart, JoinInv
  <1>3. mi \in Pool => mi \in Worker
    BY DEF Pool, Worker, TypeOK
  <1>4. TypeOK'
    <2>1. mpc' \in {mpc, "script", "wait", "lastWait"} /\ mi' \in {1, mi + 1}
      BY DEF ParallelStart, JoinAllStart, At, Goto
    <2>2. /\ running' \in [Worker -> BOOLEAN]
          /\ pc' \in [Worker -> {"stopped", "check", "lock", "execute", "finished"}]
          /\ task' \in [Worker -> Task \cup {NoTask}]
          /\ name' \in [Worker -> Name \cup {NoName}]
          /\ just_one' \in [Worker -> BOOLEAN]
      BY <1>2, <1>3 DEF Start, TypeOK, wvars
    <2>3. QED
      BY <1>1, <2>1, <2>2 DEF TypeOK, JoinAllLocs, JoinLocs, hist
  <1>5. ThreadInv'
    BY <1>1, <1>2, <1>3 DEF ThreadInv, Start, TypeOK, Pool, wvars
  <1>6. JoinInv'
    BY <1>1, <1>2 DEF JoinInv, ParallelStart, JoinAllStart, At, Goto, TypeOK, Pool
  <1>7. ExactlyOnce'
    <2>1. CASE UNCHANGED wvars
      BY <2>1, <1>1, PlacesKept DEF wvars, hist
    <2>2. CASE ~UNCHANGED wvars
      BY <2>2, <1>1, <1>2, <1>3, PlacesKeptByStart DEF hist
    <2>3. QED
      BY <2>1, <2>2
  <1>8. QED
    BY <1>4, <1>5, <1>6, <1>7

(* The steps that replace the pool: removeWorkers deletes no worker that   *)
(* has a task, ~HPA may, but then the script is over.                      *)
LEMMA ReplaceInv ==
    ASSUME IInv, NpReplace \/ Destroy
    PROVE  IInv'
  <1> USE HPAAssumption DEF IInv
  <1>0. alive' \in BOOLEAN
    BY DEF NpReplace, Destroy
  <1>a. /\ running' \in [Worker -> BOOLEAN]
        /\ pc' \in [Worker -> {"stopped", "check", "lock", "execute", "finished"}]
        /\ task' \in [Worker -> Task \cup {NoTask}]
        /\ name' \in [Worker -> Name \cup {NoName}]
        /\ just_one' \in [Worker -> BOOLEAN]
    BY DEF NpReplace, Destroy, NewWorkers
  <1>b. /\ mpc' \in {"script", "ended"} /\ mi' = 1
        /\ numCPU' \in Int /\ numCPU' <= MaxCpu
        /\ np' \in NpArg \cup {0}
        /\ UNCHANGED <<bag, arg, scanned, submitted, execs, awaited>>
    BY DEF NpReplace, Destroy, Goto, TypeOK, hist
  <1>1. TypeOK'
    BY <1>0, <1>a, <1>b DEF TypeOK
  <1>2. ThreadInv' /\ JoinInv'
    BY DEF NpReplace, Destroy, NewWorkers, Goto, ThreadInv, JoinInv
  <1>3. ASSUME NpReplace PROVE ExactlyOnce'
    <2>1. Quiet
      BY <1>3, LastWaitIsQuiet DEF NpReplace, At
    <2>2. \A v \in Worker, t \in Task : ~Held(v, t) /\ ~Held(v, t)'
      BY <1>3, <2>1 DEF NpReplace, NewWorkers, Held, Quiet, ThreadInv
    <2>3. \A t \in Task : InOnePlace(t)
      BY <1>3 DEF NpReplace, At, ExactlyOnce
    <2>4. QED
      BY <1>3, <2>2, <2>3 DEF ExactlyOnce, NpReplace, InOnePlace, InBag, hist
  <1>4. ASSUME Destroy PROVE ExactlyOnce'
    BY <1>4 DEF Destroy, Goto, ExactlyOnce
  <1>5. QED
    BY <1>1, <1>2, <1>3, <1>4

(* The other steps move the script's thread inside a call. *)
Moves == \/ JoinAll \/ JoinAllWhile \/ JoinAllWait \/ JoinAllReturn
         \/ JoinNamed \/ JoinScan \/ JoinScanned \/ JoinWaitAll
         \/ \E n \in NpArg : Np(n)
         \/ \E f \in Name : Join(f)

LEMMA MovesInv ==
    ASSUME IInv, Moves
    PROVE  IInv'
  <1> USE HPAAssumption DEF IInv
  <1>1. UNCHANGED <<bag, wvars, numCPU, submitted, execs>> /\ mpc # "ended"
    BY DEF Moves, JoinAll, JoinAllWhile, JoinAllWait, JoinAllReturn, JoinNamed,
           JoinScan, JoinScanned, JoinWaitAll, Np, Join, At, hist
  <1>2. TypeOK'
    <2>1. mi' \in {1, mi, mi + 1} /\ (np' \in NpArg \/ np' \in {0, np}) /\ alive' \in {alive, FALSE}
      BY DEF Moves, JoinAll, JoinAllWhile, JoinAllWait, JoinAllReturn, JoinNamed,
             JoinScan, JoinScanned, JoinWaitAll, Np, Join, Goto
    <2>2. mpc' \in {"script", "parallel", "ended"} \cup JoinAllLocs \cup JoinLocs
      BY DEF Moves, JoinAll, JoinAllWhile, JoinAllWait, JoinAllReturn, JoinNamed,
             JoinScan, JoinScanned, JoinWaitAll, Np, Join, Goto, TypeOK,
             JoinAllLocs, JoinLocs
    <2>3. /\ arg' = arg \/ arg' \in Name
          /\ scanned' \in {scanned, bag, <<>>}
          /\ awaited' = awaited \/ awaited' \subseteq Task
      BY DEF Moves, JoinAll, JoinAllWhile, JoinAllWait, JoinAllReturn, JoinNamed,
             JoinScan, JoinScanned, JoinWaitAll, Np, Join, hist
    <2>4. mi' \in Nat /\ np' \in NpArg \cup {0}
      BY <2>1 DEF TypeOK
    <2>5. arg' \in Name \cup {NoName}
      BY <2>3 DEF TypeOK
    <2>6. scanned' \in Seq(Task)
      <3>1. bag \in Seq(Task) /\ scanned \in Seq(Task) /\ <<>> \in Seq(Task)
        BY DEF TypeOK
      <3>2. QED
        BY <3>1, <2>3
    <2>7. awaited' \subseteq Task
      BY <2>3 DEF TypeOK
    <2>8. alive' \in BOOLEAN
      BY <2>1, Zenon DEF TypeOK
    <2>9. QED
      BY <1>1, <2>2, <2>4, <2>5, <2>6, <2>7, <2>8 DEF TypeOK, wvars
  <1>3. ThreadInv'
    BY <1>1 DEF ThreadInv, wvars, Pool
  <1>4. JoinInv'
    BY <1>1 DEF Moves, JoinAll, JoinAllWhile, JoinAllWait, JoinAllReturn, JoinNamed,
           JoinScan, JoinScanned, JoinWaitAll, Np, Join, At, Goto, CanPass, JoinInv,
           TypeOK, Pool, wvars
  <1>5. ExactlyOnce'
    BY <1>1, PlacesKept DEF wvars
  <1>6. QED
    BY <1>2, <1>3, <1>4, <1>5

(* Every step of the system preserves the invariant. *)
LEMMA NextInv == IInv /\ [Next]_vars => IInv'
  <1> SUFFICES ASSUME IInv, [Next]_vars PROVE IInv'
    OBVIOUS
  <1>1. CASE \E w \in Worker : Run(w)
    BY <1>1, RunInv
  <1>2. CASE Script \/ InCall
    BY <1>2, ParallelInv, StartInv, ReplaceInv, MovesInv DEF Script, InCall, Moves
  <1>3. CASE UNCHANGED vars
    BY <1>3 DEF vars, wvars, hist, IInv, TypeOK, ThreadInv, JoinInv, ExactlyOnce,
                InOnePlace, InBag, Held, Pool
  <1>4. QED
    BY <1>1, <1>2, <1>3 DEF Next

(* IInv holds in every reachable state. *)
LEMMA Invariance == Spec => []IInv
  BY InitInv, NextInv, PTL DEF Spec

----------------------------------------------------------------------------
(* Every variable keeps its type (procTask.h, hpa.h). *)
THEOREM TypeCorrect == Spec => []TypeOK
  BY Invariance, PTL DEF IInv

(* Every call handed to parallel is in the bag, in the hands of one        *)
(* worker or executed once, with any number of workers and tasks.          *)
THEOREM TasksExecutedOnce == Spec => []ExactlyOnce
  BY Invariance, PTL DEF IInv

(* joinall returns only when all the work handed over is done. *)
THEOREM JoinAllIsComplete == Spec => JoinAllCompletes
  <1>1. IInv /\ [Next]_vars
          => [(mpc \in JoinAllLocs /\ mpc' \notin JoinAllLocs) => Quiet]_vars
    <2> SUFFICES ASSUME IInv, Next, mpc \in JoinAllLocs, mpc' \notin JoinAllLocs
                 PROVE  Quiet
      OBVIOUS
    <2>1. mpc = "lastWait" /\ mi \notin Pool
      BY DEF Next, Script, InCall, Run, RunCheck, RunTake, RunExecute, RunFail,
             RunFinish, Parallel, ParallelStart, JoinAll, Np, JoinAllWhile,
             JoinAllStart, JoinAllWait, JoinAllReturn, NpReplace, Join, JoinNamed,
             JoinScan, JoinScanned, JoinWaitAll, Destroy, At, Goto, JoinAllLocs
    <2>2. QED
      BY <2>1, LastWaitIsQuiet
  <1>2. QED
    BY <1>1, Invariance, PTL DEF Spec, JoinAllCompletes

(* np replaces the pool only at rest, and never kills the process. *)
THEOREM ResizeIsAlwaysSafe == Spec => ResizeIsSafe
  <1>1. IInv /\ [Next]_vars => [numCPU' # numCPU => Quiet /\ alive']_vars
    <2> SUFFICES ASSUME IInv, Next, numCPU' # numCPU
                 PROVE  Quiet /\ alive'
      OBVIOUS
    <2>1. NpReplace
      BY DEF Next, Script, InCall, Run, RunCheck, RunTake, RunExecute, RunFail,
             RunFinish, Parallel, ParallelStart, JoinAll, Np, JoinAllWhile,
             JoinAllStart, JoinAllWait, JoinAllReturn, Join, JoinNamed,
             JoinScan, JoinScanned, JoinWaitAll, Destroy
    <2>2. Quiet
      BY <2>1, LastWaitIsQuiet DEF NpReplace, At
    <2>3. Pool \subseteq Worker
      BY HPAAssumption DEF Pool, Worker, IInv, TypeOK
    <2>4. QED
      BY <2>1, <2>2, <2>3 DEF NpReplace, Quiet
  <1>2. QED
    BY <1>1, Invariance, PTL DEF Spec, ResizeIsSafe

(* The pool implements TaskPool: it starts as TaskPool does, and each of   *)
(* its steps is a step of TaskPool or changes nothing that TaskPool shows. *)
THEOREM PoolImplementsTaskPool == Spec => ImplementsTaskPool
  <1>1. Init => TP!Init
    BY DEF Init, TP!Init, JoinAllLocs
  <1>2. IInv /\ [Next]_vars => [TP!Next]_(TP!vars)
    <2> SUFFICES ASSUME IInv, Next, ~(UNCHANGED TP!vars)
                 PROVE  TP!Next
      BY DEF vars, hist, TP!vars
    <2> USE DEF TP!vars
    <2>1. ASSUME NEW w \in Worker, Run(w)
          PROVE  TP!Next
      <3>1. RunExecute(w)
        BY <2>1 DEF Run, RunCheck, RunTake, RunExecute, RunFail, RunFinish, hist
      <3>2. mpc # "ended"
        BY <3>1 DEF RunExecute, IInv, ThreadInv, JoinInv
      <3>3. task[w] \in Task /\ Held(w, task[w])
        BY <3>1 DEF RunExecute, IInv, ThreadInv, Held
      <3>4. task[w] \in submitted /\ execs[task[w]] = 0
        BY <3>2, <3>3 DEF IInv, ExactlyOnce, InOnePlace, TypeOK
      <3>5. TP!Execute(task[w])
        BY <3>1, <3>4 DEF RunExecute, TP!Execute
      <3>6. QED
        BY <3>3, <3>5 DEF TP!Next
    <2>2. ASSUME NEW t \in Task, Parallel(t)
          PROVE  TP!Next
      <3>1. TP!Submit(t)
        BY <2>2 DEF Parallel, At, Goto, TP!Submit, JoinAllLocs
      <3>2. QED
        BY <3>1 DEF TP!Next
    <2>3. ASSUME JoinAll \/ \E n \in NpArg : Np(n)
          PROVE  TP!Next
      <3>1. TP!JoinAll
        BY <2>3 DEF JoinAll, Np, At, Goto, TP!JoinAll, JoinAllLocs, hist
      <3>2. QED
        BY <3>1 DEF TP!Next
    <2>4. ASSUME JoinAllReturn \/ NpReplace
          PROVE  TP!Next
      <3>1. Quiet
        BY <2>4, LastWaitIsQuiet DEF JoinAllReturn, NpReplace, At
      <3>2. TP!Resume
        BY <2>4, <3>1 DEF JoinAllReturn, NpReplace, At, Goto, TP!Resume, JoinAllLocs, Quiet, hist
      <3>3. QED
        BY <3>2 DEF TP!Next
    <2>5. ASSUME \/ ParallelStart \/ JoinAllWhile \/ JoinAllStart \/ JoinAllWait
                 \/ JoinNamed \/ JoinScan \/ JoinScanned \/ JoinWaitAll
                 \/ Destroy \/ \E f \in Name : Join(f)
          PROVE  FALSE
      BY <2>5 DEF ParallelStart, JoinAllWhile, JoinAllStart, JoinAllWait, JoinNamed,
             JoinScan, JoinScanned, JoinWaitAll, Destroy, Join, At, Goto,
             JoinAllLocs, hist
    <2>6. QED
      BY <2>1, <2>2, <2>3, <2>4, <2>5 DEF Next, Script, InCall
  <1>3. QED
    BY <1>1, <1>2, Invariance, PTL DEF Spec, ImplementsTaskPool, TP!Spec

----------------------------------------------------------------------------
(* A worker that executes has the name of its task, and what join awaits   *)
(* was executed, or is in the hands of a worker that it has not looked at. *)
NameInv == \A w \in Worker : pc[w] = "execute" => name[w] = NameOf[task[w]]
Awaits(t) == execs[t] = 1 \/ (mpc = "named" /\ \E w \in Pool : w >= mi /\ Held(w, t))
AwaitInv == mpc \in JoinLocs => \A t \in awaited : NameOf[t] = arg /\ Awaits(t)

LEMMA PoolWorkers == IInv => Pool \subseteq Worker /\ \A w \in Worker : w \in Nat
  BY HPAAssumption DEF IInv, TypeOK, Pool, Worker

(* The steps of the workers. *)
LEMMA NameKeptByRun ==
    ASSUME IInv, NameInv, NEW w \in Worker, Run(w)
    PROVE  NameInv'
  <1>1. CASE RunTake(w)
    BY <1>1 DEF RunTake, NameInv, TakenName, IInv, TypeOK
  <1>2. CASE RunCheck(w) \/ RunExecute(w) \/ RunFail(w) \/ RunFinish(w)
    BY <1>2 DEF RunCheck, RunExecute, RunFail, RunFinish, NameInv, IInv, TypeOK, wvars
  <1>3. QED
    BY <1>1, <1>2 DEF Run

LEMMA AwaitKeptByRun ==
    ASSUME IInv, AwaitInv, NEW w \in Worker, Run(w), mpc \in JoinLocs
    PROVE  AwaitInv'
  <1>1. UNCHANGED <<mpc, mi, arg, numCPU, awaited>> /\ mpc # "ended"
    BY DEF Run, RunCheck, RunTake, RunExecute, RunFail, RunFinish, hist, JoinLocs
  <1>2. ASSUME NEW t \in Task, execs[t] = 1 PROVE execs'[t] = 1
    <2>1. CASE RunExecute(w)
      <3>1. Held(w, task[w]) /\ InOnePlace(t)
        BY <1>1, <2>1 DEF RunExecute, Held, IInv, ExactlyOnce
      <3>2. task[w] # t
        BY <1>2, <3>1 DEF InOnePlace
      <3>3. QED
        BY <1>2, <2>1, <3>2 DEF RunExecute, IInv, TypeOK
    <2>2. CASE RunCheck(w) \/ RunTake(w) \/ RunFail(w) \/ RunFinish(w)
      BY <1>2, <2>2 DEF RunCheck, RunTake, RunFail, RunFinish, hist
    <2>3. QED
      BY <2>1, <2>2 DEF Run
  <1>3. ASSUME NEW t \in Task, NEW v \in Worker, Held(v, t)
        PROVE  Held(v, t)' \/ execs'[t] = 1
    <2>1. CASE RunExecute(w) /\ v = w
      <3>1. task[w] = t /\ InOnePlace(t)
        BY <1>1, <1>3, <2>1 DEF Held, IInv, ExactlyOnce
      <3>2. execs[t] = 0
        BY <1>3, <3>1 DEF InOnePlace, IInv, TypeOK
      <3>3. QED
        BY <2>1, <3>1, <3>2 DEF RunExecute, IInv, TypeOK
    <2>2. CASE ~RunExecute(w) \/ v # w
      BY <1>3, <2>2 DEF Run, RunCheck, RunTake, RunExecute, RunFail, RunFinish, Held, IInv,
                        TypeOK, wvars
    <2>3. QED
      BY <2>1, <2>2
  <1>4. awaited \subseteq Task
    BY DEF IInv, TypeOK
  <1>5. \A t \in awaited : Awaits(t) => Awaits(t)'
    BY <1>1, <1>2, <1>3, <1>4, PoolWorkers DEF Awaits, Pool
  <1>6. QED
    BY <1>1, <1>2, <1>4, <1>5 DEF AwaitInv

(* Looking at a worker: join waits for it when it executes one of those    *)
(* that it awaits.                                                         *)
LEMMA AwaitKeptByNamed ==
    ASSUME IInv, NameInv, AwaitInv, JoinNamed
    PROVE  AwaitInv'
  <1>1. /\ mpc = "named" /\ UNCHANGED <<bag, wvars, numCPU, arg, hist>>
        /\ \A t \in awaited : NameOf[t] = arg /\ Awaits(t)
    BY DEF JoinNamed, At, AwaitInv, JoinLocs
  <1>2. mi \in Nat /\ awaited \subseteq Task
    BY DEF IInv, TypeOK
  <1>3. CASE mi \in Pool /\ (Named(mi) => CanPass(mi) \/ Renaming(mi)) /\ mi' = mi + 1 /\ mpc' = mpc
    <2>1. ASSUME NEW t \in awaited PROVE ~Held(mi, t)
      <3>1. SUFFICES ASSUME Held(mi, t) PROVE FALSE
        OBVIOUS
      <3>2. mi \in Worker /\ pc[mi] = "execute" /\ task[mi] = t
        BY <1>3, <3>1, PoolWorkers DEF Held
      <3>3. Named(mi) /\ running[mi] /\ ~Renaming(mi)
        BY <1>1, <3>2 DEF Named, NameInv, IInv, ThreadInv, Renaming
      <3>4. QED
        BY <1>3, <3>3 DEF CanPass
    <2>2. ASSUME NEW t \in awaited PROVE Awaits(t)'
      <3>1. CASE execs[t] = 1
        BY <1>1, <3>1 DEF Awaits, hist
      <3>2. CASE execs[t] # 1
        <4>1. PICK w \in Pool : w >= mi /\ Held(w, t)
          BY <1>1, <3>2 DEF Awaits
        <4>2. w >= mi + 1
          BY <1>2, <2>1, <4>1 DEF Pool
        <4>3. w \in Pool' /\ Held(w, t)'
          BY <1>1, <4>1 DEF Pool, Held, wvars
        <4>4. QED
          BY <1>1, <1>3, <4>2, <4>3 DEF Awaits
      <3>3. QED
        BY <3>1, <3>2
    <2>3. QED
      BY <1>1, <1>3, <2>2 DEF AwaitInv, hist
  <1>4. CASE mi \notin Pool /\ mpc' = "scan"
    <2>1. \A t \in awaited : execs[t] = 1
      <3>1. mi >= 1 /\ \A w \in Pool : w < mi
        BY <1>2, <1>4 DEF Pool, IInv, TypeOK, JoinInv
      <3>2. \A w \in Pool : ~(w >= mi)
        BY <1>2, <3>1 DEF Pool
      <3>3. QED
        BY <1>1, <3>2 DEF Awaits
    <2>2. QED
      BY <1>1, <1>4, <2>1 DEF AwaitInv, Awaits, hist
  <1>5. CASE UNCHANGED <<mpc, mi>>
    <2>1. \A t \in awaited : Awaits(t)'
      BY <1>1, <1>5 DEF Awaits, Pool, Held, wvars, hist
    <2>2. QED
      BY <1>1, <1>5, <2>1 DEF AwaitInv, hist
  <1>6. QED
    BY <1>3, <1>4, <1>5 DEF JoinNamed, Goto

LEMMA AwaitNext == IInv /\ NameInv /\ AwaitInv /\ [Next]_vars => (NameInv /\ AwaitInv)'
  <1> SUFFICES ASSUME IInv, NameInv, AwaitInv, [Next]_vars
               PROVE  NameInv' /\ AwaitInv'
    OBVIOUS
  <1>1. ASSUME NEW w \in Worker, Run(w) PROVE NameInv' /\ AwaitInv'
    <2>1. mpc' = mpc
      BY <1>1 DEF Run, RunCheck, RunTake, RunExecute, RunFail, RunFinish
    <2>2. QED
      BY <1>1, <2>1, NameKeptByRun, AwaitKeptByRun DEF AwaitInv
  <1>2. CASE JoinNamed
    <2>1. NameInv'
      BY <1>2 DEF JoinNamed, NameInv, wvars
    <2>2. QED
      BY <1>2, <2>1, AwaitKeptByNamed
  <1>3. CASE \E f \in Name : Join(f)
    <2>1. PICK f \in Name : Join(f)
      BY <1>3
    <2>2. /\ mpc' = "named" /\ mi' = 1 /\ arg' = f /\ UNCHANGED <<wvars, numCPU>>
          /\ awaited' = {t \in Task : NameOf[t] = f /\ \E w \in Pool : Held(w, t)}
      BY <2>1 DEF Join, Goto
    <2>3. \A w \in Pool : w >= 1
      BY DEF Pool, IInv, TypeOK
    <2>4. \A t \in awaited' : NameOf[t] = f /\ Awaits(t)'
      BY <2>2, <2>3 DEF Awaits, Pool, Held, wvars
    <2>5. QED
      BY <2>2, <2>4 DEF AwaitInv, NameInv, wvars
  <1>4. CASE JoinScan \/ JoinScanned \/ JoinWaitAll
    BY <1>4 DEF JoinScan, JoinScanned, JoinWaitAll, At, Goto, NameInv, AwaitInv, Awaits, Pool,
                Held, JoinLocs, wvars, hist
  <1>5. CASE \/ (\E t \in Task : Parallel(t)) \/ (\E n \in NpArg : Np(n)) \/ JoinAll
             \/ JoinAllWhile \/ JoinAllWait \/ JoinAllReturn
    <2>1. mpc' \notin JoinLocs /\ UNCHANGED wvars
      BY <1>5 DEF Parallel, Np, JoinAll, JoinAllWhile, JoinAllWait, JoinAllReturn, At, Goto,
                  JoinLocs
    <2>2. QED
      BY <2>1 DEF NameInv, AwaitInv, wvars
  <1>6. CASE ParallelStart \/ JoinAllStart
    <2>1. mpc' \notin JoinLocs
      BY <1>6 DEF ParallelStart, JoinAllStart, At, Goto, JoinLocs
    <2>2. \A w \in Worker : pc'[w] = "execute" =>
              pc[w] = "execute" /\ task'[w] = task[w] /\ name'[w] = name[w]
      BY <1>6 DEF ParallelStart, JoinAllStart, Start, IInv, TypeOK, wvars
    <2>3. QED
      BY <2>1, <2>2 DEF NameInv, AwaitInv
  <1>7. CASE NpReplace \/ Destroy
    BY <1>7 DEF NpReplace, Destroy, NewWorkers, Goto, NameInv, AwaitInv, JoinLocs
  <1>8. CASE UNCHANGED vars
    BY <1>8 DEF vars, wvars, hist, NameInv, AwaitInv, Awaits, Pool, Held
  <1>9. QED
    BY <1>1, <1>2, <1>3, <1>4, <1>5, <1>6, <1>7, <1>8 DEF Next, Script, InCall

(* join(f) does not return before the calls of f that were executed when   *)
(* it was called (hpa.cpp:319-331).                                        *)
THEOREM JoinWaits == Spec => JoinWaitsForRunning
  <1>1. Init => NameInv /\ AwaitInv
    BY DEF Init, NameInv, AwaitInv, JoinLocs
  <1>2. AwaitInv /\ [Next]_vars
          => [(mpc \in JoinLocs /\ mpc' = "script") => \A t \in awaited : execs[t] = 1]_vars
    <2> SUFFICES ASSUME AwaitInv, Next, mpc \in JoinLocs, mpc' = "script"
                 PROVE  \A t \in awaited : execs[t] = 1
      OBVIOUS
    <2>1. mpc # "named"
      BY DEF Next, Script, InCall, Run, RunCheck, RunTake, RunExecute, RunFail,
             RunFinish, Parallel, ParallelStart, JoinAll, Np, JoinAllWhile,
             JoinAllStart, JoinAllWait, JoinAllReturn, NpReplace, Join, JoinNamed,
             JoinScan, JoinScanned, JoinWaitAll, Destroy, At, Goto, JoinLocs
    <2>2. QED
      BY <2>1 DEF AwaitInv, Awaits
  <1>3. QED
    BY <1>1, <1>2, AwaitNext, Invariance, PTL DEF Spec, JoinWaitsForRunning

----------------------------------------------------------------------------
(* The critical sections. *)

(* A thread inside a section holds its mutex, and what it read is still    *)
(* the value when it writes.                                               *)
OwnerInv == \A p \in Thread : Inside(p) => owner[MyKey(p)] = p
FreshInv == \A p \in Thread : place[p] = "write" => seen[p] = value[id[p]]

SectionsInv == SectionsTypeOK /\ OwnerInv /\ FreshInv /\ NoLostUpdate

LEMMA SectionsInitInv == SectionsInit => SectionsInv
  <1> SUFFICES ASSUME SectionsInit PROVE SectionsInv
    OBVIOUS
  <1>1. SectionsTypeOK
    BY DEF SectionsInit, SectionsTypeOK, Locs
  <1>2. OwnerInv /\ FreshInv /\ NoLostUpdate
    BY DEF SectionsInit, OwnerInv, FreshInv, NoLostUpdate, Inside
  <1>3. QED
    BY <1>1, <1>2 DEF SectionsInv

(* The invariant excludes two threads in one section. *)
LEMMA OwnerExcludes == SectionsInv => MutualExclusion
  BY DEF SectionsInv, OwnerInv, MutualExclusion

LEMMA KeyTyped == SectionsInv => \A p \in Thread : MyKey(p) \in Key
  BY SectionsAssumption DEF SectionsInv, SectionsTypeOK, MyKey, Key

LEMMA SectionsNextInv == SectionsInv /\ [SectionsNext]_sectionVars => SectionsInv'
  <1> SUFFICES ASSUME SectionsInv, [SectionsNext]_sectionVars PROVE SectionsInv'
    OBVIOUS
  <1> USE SectionsAssumption DEF SectionsInv
  <1>1. ASSUME NEW p \in Thread, NEW a \in Id, Acquire(p, a)
        PROVE  SectionsInv'
    <2>1. SectionsTypeOK'
      BY <1>1 DEF Acquire, SectionsTypeOK, ThreadGoes, Locs
    <2>2. \A q \in Thread : (Inside(q)' <=> Inside(q) /\ q # p) /\ (q # p => id'[q] = id[q])
      BY <1>1 DEF Acquire, SectionsTypeOK, ThreadGoes, Inside, ThreadAt
    <2>3. OwnerInv'
      BY <1>1, <2>2 DEF Acquire, OwnerInv, MyKey
    <2>4. FreshInv' /\ NoLostUpdate'
      BY <1>1, <2>2 DEF Acquire, FreshInv, NoLostUpdate, ThreadGoes, SectionsTypeOK
    <2>5. QED
      BY <2>1, <2>3, <2>4
  <1>2. ASSUME NEW p \in Thread, Enter(p) \/ Insert(p) \/ Lookup(p)
        PROVE  SectionsInv'
    <2>1. SectionsTypeOK'
      <3>1. MyKey(p) \in Key
        BY KeyTyped
      <3>2. CASE Enter(p)
        BY <3>2 DEF Enter, SectionsTypeOK, ThreadGoes, Locs
      <3>3. CASE Insert(p)
        BY <3>1, <3>3 DEF Insert, SectionsTypeOK, ThreadGoes, Locs
      <3>4. CASE Lookup(p)
        BY <3>4 DEF Lookup, SectionsTypeOK, ThreadGoes, Locs
      <3>5. QED
        BY <1>2, <3>2, <3>3, <3>4
    <2>2. \A q \in Thread : /\ Inside(q)' <=> Inside(q)
                            /\ place'[q] = "write" => place[q] = "write"
      BY <1>2 DEF Enter, Insert, Lookup, ThreadGoes, ThreadAt, SectionsTypeOK, Inside
    <2>3. UNCHANGED <<owner, id, seen, value, written>>
      BY <1>2 DEF Enter, Insert, Lookup
    <2>4. QED
      BY <2>1, <2>2, <2>3 DEF OwnerInv, FreshInv, NoLostUpdate, MyKey
  <1>3. ASSUME NEW p \in Thread, Lock(p)
        PROVE  SectionsInv'
    <2>1. MyKey(p) \in Key
      BY KeyTyped
    <2>2. SectionsTypeOK'
      BY <1>3, <2>1 DEF Lock, SectionsTypeOK, ThreadGoes, Locs
    <2>3. \A q \in Thread : Inside(q)' <=> Inside(q) \/ q = p
      BY <1>3 DEF Lock, ThreadGoes, ThreadAt, SectionsTypeOK, Inside
    <2>4. \A q \in Thread : Inside(q) => MyKey(q) # MyKey(p)
      BY <1>3 DEF Lock, Free, OwnerInv
    <2>5. OwnerInv'
      BY <1>3, <2>1, <2>3, <2>4 DEF Lock, OwnerInv, MyKey, SectionsTypeOK
    <2>6. FreshInv' /\ NoLostUpdate'
      BY <1>3 DEF Lock, FreshInv, NoLostUpdate, ThreadGoes, SectionsTypeOK
    <2>7. QED
      BY <2>2, <2>5, <2>6
  <1>4. ASSUME NEW p \in Thread, Read(p)
        PROVE  SectionsInv'
    <2>1. SectionsTypeOK'
      BY <1>4 DEF Read, SectionsTypeOK, ThreadGoes, Locs
    <2>2. \A q \in Thread : Inside(q)' <=> Inside(q)
      BY <1>4 DEF Read, ThreadGoes, ThreadAt, SectionsTypeOK, Inside
    <2>3. OwnerInv' /\ NoLostUpdate'
      BY <1>4, <2>2 DEF Read, OwnerInv, NoLostUpdate, MyKey
    <2>4. FreshInv'
      BY <1>4 DEF Read, FreshInv, ThreadGoes, SectionsTypeOK
    <2>5. QED
      BY <2>1, <2>3, <2>4
  <1>5. ASSUME NEW p \in Thread, Write(p)
        PROVE  SectionsInv'
    <2>1. Inside(p) /\ seen[p] = value[id[p]] /\ id[p] \in Id
      BY <1>5 DEF Write, ThreadAt, Inside, FreshInv, SectionsTypeOK
    <2>2. SectionsTypeOK'
      BY <1>5, <2>1 DEF Write, SectionsTypeOK, ThreadGoes, Locs
    <2>3. \A q \in Thread : Inside(q)' <=> Inside(q)
      BY <1>5 DEF Write, ThreadGoes, ThreadAt, SectionsTypeOK, Inside
    <2>4. OwnerInv'
      BY <1>5, <2>3 DEF Write, OwnerInv, MyKey
    <2>5. FreshInv'
      <3> SUFFICES ASSUME NEW q \in Thread, place'[q] = "write"
                   PROVE  seen'[q] = value'[id'[q]]
        BY DEF FreshInv
      <3>1. q # p /\ place[q] = "write" /\ Inside(q)
        BY <1>5 DEF Write, ThreadGoes, SectionsTypeOK, Inside
      <3>2. id[q] # id[p]
        BY <2>1, <3>1 DEF OwnerInv, MyKey
      <3>3. QED
        BY <1>5, <3>1, <3>2 DEF Write, FreshInv, SectionsTypeOK
    <2>6. NoLostUpdate'
      BY <1>5, <2>1 DEF Write, NoLostUpdate, SectionsTypeOK
    <2>7. QED
      BY <2>2, <2>4, <2>5, <2>6
  <1>6. ASSUME NEW p \in Thread, Release(p)
        PROVE  SectionsInv'
    <2>1. MyKey(p) \in Key /\ Inside(p)
      BY <1>6, KeyTyped DEF Release, ThreadAt, Inside
    <2>2. SectionsTypeOK'
      BY <1>6, <2>1 DEF Release, Unlocked, SectionsTypeOK, ThreadGoes, Locs
    <2>3. \A q \in Thread : Inside(q)' <=> Inside(q) /\ q # p
      BY <1>6 DEF Release, ThreadGoes, ThreadAt, SectionsTypeOK, Inside
    <2>4. \A q \in Thread : Inside(q) /\ q # p => MyKey(q) # MyKey(p)
      BY <2>1 DEF OwnerInv
    <2>5. OwnerInv'
      BY <1>6, <2>1, <2>3, <2>4 DEF Release, Unlocked, OwnerInv, MyKey, SectionsTypeOK
    <2>6. FreshInv' /\ NoLostUpdate'
      BY <1>6 DEF Release, FreshInv, NoLostUpdate, ThreadGoes, SectionsTypeOK
    <2>7. QED
      BY <2>2, <2>5, <2>6
  <1>7. CASE JoinLock \/ JoinUnlock \/ UNCHANGED sectionVars
    BY <1>7 DEF JoinLock, JoinUnlock, sectionVars, SectionsTypeOK, OwnerInv, FreshInv, NoLostUpdate,
                Inside, MyKey
  <1>8. QED
    BY <1>1, <1>2, <1>3, <1>4, <1>5, <1>6, <1>7 DEF SectionsNext, Step

LEMMA SectionsInvariant == SectionsSpec => []SectionsInv
  BY SectionsInitInv, SectionsNextInv, PTL DEF SectionsSpec

(* The mutexes belong to threads, and each pc is a place of the code of    *)
(* acquire and release (hpa.cpp).                                          *)
THEOREM SectionsTyped == SectionsSpec => []SectionsTypeOK
  BY SectionsInvariant, PTL DEF SectionsInv

(* At most one task is inside a section (hpa.cpp, acquire and release). *)
THEOREM SectionsExclude == SectionsSpec => []MutualExclusion
  BY SectionsInvariant, OwnerExcludes, PTL

(* An update made inside a section is never lost. *)
THEOREM UpdatesAreKept == SectionsSpec => []NoLostUpdate
  BY SectionsInvariant, PTL DEF SectionsInv
=============================================================================
