------------------------------ MODULE Sections ------------------------------
(***************************************************************************)
(* The critical sections of TerraME HPA: hpa:acquire(id) and               *)
(* hpa:release(id), called by the tasks that the workers run.  A hash      *)
(* table holds one QMutex per section, created by the first acquire; the   *)
(* mutex justOne protects its creation, and join holds it during its scan. *)
(*                                                                         *)
(* A task does what the tasks of hpa-basic.lua do: acquire, read a global  *)
(* variable, write it, release, a number of times and one section at a     *)
(* time.  The names differ from those of HPA, so that HPA_proofs can       *)
(* extend both.                                                            *)
(***************************************************************************)
EXTENDS Integers, FiniteSets

CONSTANTS
    Thread,   \* the workers that run tasks
    Id,       \* the Lua values that they pass to acquire and release
    KeyOf,    \* the section of an id: its lua_tonumber as an int, "id" is 0
    Rounds,   \* bound: how often a task enters a section
    Nobody,   \* a mutex that is not locked
    MainScript \* the main script, inside join

ASSUME SectionsAssumption ==
    /\ KeyOf \in [Id -> Int]
    /\ Rounds \in Nat
    /\ Nobody \notin Thread /\ MainScript \notin Thread /\ Nobody # MainScript

Key == {KeyOf[a] : a \in Id}

VARIABLES
    lockSection,  \* the keys in the hash table
    owner,        \* who holds the mutex of each key
    justOne,      \* who holds justOne
    place, id,    \* where each thread is, and the id that it uses
    seen,         \* the value of the variable that each thread read
    value,        \* the global variable that each id protects
    entered,      \* how often each thread called acquire
    written,      \* history: how many increments of each variable were done
    processAlive  \* FALSE once the process died

sectionVars == <<lockSection, owner, justOne, place, id, seen, value, entered, written,
                 processAlive>>

Locs == {"outside", "enter", "insert", "lookup", "lock", "read", "write", "release"}

SectionsInit ==
    /\ lockSection = {}
    /\ owner = [k \in Key |-> Nobody]
    /\ justOne = Nobody
    /\ place = [p \in Thread |-> "outside"]
    /\ id \in [Thread -> Id]
    /\ seen = [p \in Thread |-> 0]
    /\ value = [a \in Id |-> 0]
    /\ entered = [p \in Thread |-> 0]
    /\ written = [a \in Id |-> 0]
    /\ processAlive = TRUE

MyKey(p)   == KeyOf[id[p]]
ThreadAt(p, loc) == processAlive /\ place[p] = loc
ThreadGoes(p, loc) == place' = [place EXCEPT ![p] = loc]

(* The thread is changing the hash table. *)
Inserting(p) == place[p] = "insert" /\ MyKey(p) \notin lockSection

----------------------------------------------------------------------------
(* HPA::acquire *)

Acquire(p, a) ==
    /\ ThreadAt(p, "outside") /\ entered[p] < Rounds
    /\ id' = [id EXCEPT ![p] = a]
    /\ entered' = [entered EXCEPT ![p] = @ + 1]
    /\ ThreadGoes(p, "enter")
    /\ UNCHANGED <<lockSection, owner, justOne, seen, value, written, processAlive>>

(* justOne.lock() *)
Enter(p) ==
    /\ ThreadAt(p, "enter") /\ justOne = Nobody
    /\ justOne' = p
    /\ ThreadGoes(p, "insert")
    /\ UNCHANGED <<lockSection, owner, id, seen, value, entered, written, processAlive>>

(* Mutant: a new mutex replaces the one that is there. *)
InsertAlways(p) ==
    /\ ThreadAt(p, "insert")
    /\ lockSection' = lockSection \cup {MyKey(p)}
    /\ owner' = [owner EXCEPT ![MyKey(p)] = Nobody]
    /\ justOne' = Nobody
    /\ ThreadGoes(p, "lookup")
    /\ UNCHANGED <<id, seen, value, entered, written, processAlive>>

(* Mutant: the key is the Lua value, not its number. *)
InsertId(p) ==
    /\ ThreadAt(p, "insert")
    /\ lockSection' = lockSection \cup {id[p]}
    /\ justOne' = Nobody
    /\ ThreadGoes(p, "lookup")
    /\ UNCHANGED <<owner, id, seen, value, entered, written, processAlive>>

(* An unlocked mutex is inserted when there is none; justOne.unlock().     *)
Insert(p) ==
    /\ ThreadAt(p, "insert")
    /\ lockSection' = lockSection \cup {MyKey(p)}
    /\ justOne' = Nobody
    /\ ThreadGoes(p, "lookup")
    /\ UNCHANGED <<owner, id, seen, value, entered, written, processAlive>>

(* lockSection[name], read after justOne was released: while another       *)
(* thread inserts a key the table may be moving, and the process may die.  *)
Lookup(p) ==
    /\ ThreadAt(p, "lookup")
    /\ \/ ThreadGoes(p, "lock") /\ processAlive' = processAlive
       \/ /\ \E q \in Thread : Inserting(q)
          /\ processAlive' = FALSE
          /\ UNCHANGED place
    /\ UNCHANGED <<lockSection, owner, justOne, id, seen, value, entered, written>>

(* ->lock() *)
FreeForAll(p) == TRUE                    \* mutant: tryLock, result unused
Free(p)       == owner[MyKey(p)] = Nobody
Lock(p) ==
    /\ ThreadAt(p, "lock") /\ Free(p)
    /\ owner' = [owner EXCEPT ![MyKey(p)] = p]
    /\ ThreadGoes(p, "read")
    /\ UNCHANGED <<lockSection, justOne, id, seen, value, entered, written, processAlive>>

----------------------------------------------------------------------------
(* The body of the section, x = x + 1, is a read and a write. *)
Read(p) ==
    /\ ThreadAt(p, "read")
    /\ seen' = [seen EXCEPT ![p] = value[id[p]]]
    /\ ThreadGoes(p, "write")
    /\ UNCHANGED <<lockSection, owner, justOne, id, value, entered, written, processAlive>>

Write(p) ==
    /\ ThreadAt(p, "write")
    /\ value' = [value EXCEPT ![id[p]] = seen[p] + 1]
    /\ written' = [written EXCEPT ![id[p]] = @ + 1]
    /\ ThreadGoes(p, "release")
    /\ UNCHANGED <<lockSection, owner, justOne, id, seen, entered, processAlive>>

(* HPA::release, whose whole body is inside justOne. *)
UnlockedKeep(p) == owner                 \* mutant: unlock is missing
Unlocked(p)     == [owner EXCEPT ![MyKey(p)] = Nobody]
Release(p) ==
    /\ ThreadAt(p, "release") /\ justOne = Nobody
    /\ owner' = Unlocked(p)
    /\ ThreadGoes(p, "outside")
    /\ UNCHANGED <<lockSection, justOne, id, seen, value, entered, written, processAlive>>

----------------------------------------------------------------------------
(* HPA::join locks justOne while it scans the bag. *)
JoinLock ==
    /\ processAlive /\ justOne = Nobody
    /\ justOne' = MainScript
    /\ UNCHANGED <<lockSection, owner, place, id, seen, value, entered, written, processAlive>>
JoinUnlock ==
    /\ processAlive /\ justOne = MainScript
    /\ justOne' = Nobody
    /\ UNCHANGED <<lockSection, owner, place, id, seen, value, entered, written, processAlive>>

Step(p) == \/ Enter(p) \/ Insert(p) \/ Lookup(p) \/ Lock(p)
           \/ Read(p) \/ Write(p) \/ Release(p)

SectionsNext == \/ \E p \in Thread : Step(p) \/ \E a \in Id : Acquire(p, a)
        \/ JoinLock \/ JoinUnlock

SectionsSpec == SectionsInit /\ [][SectionsNext]_sectionVars

(* Threads that can go on do.  The script holds justOne only for the time  *)
(* of a scan, so that a thread which waits for it gets it between two.     *)
SectionsFairSpec ==
    /\ SectionsSpec
    /\ WF_sectionVars(JoinUnlock)
    /\ \A p \in Thread : WF_sectionVars(Step(p)) /\ SF_sectionVars(Enter(p)) /\ SF_sectionVars(Release(p))

----------------------------------------------------------------------------
SectionsTypeOK ==
    /\ lockSection \subseteq Key
    /\ owner \in [Key -> Thread \cup {Nobody}]
    /\ justOne \in Thread \cup {Nobody, MainScript}
    /\ place \in [Thread -> Locs]
    /\ id \in [Thread -> Id]
    /\ seen \in [Thread -> Nat]
    /\ value \in [Id -> Nat]
    /\ entered \in [Thread -> Nat]
    /\ written \in [Id -> Nat]
    /\ processAlive \in BOOLEAN

Inside(p) == place[p] \in {"read", "write", "release"}

(* At most one task is between acquire(a) and release(b) when a and b are  *)
(* the same section, even when the section was created by two acquires at  *)
(* once.                                                                   *)
MutualExclusion ==
    \A p, q \in Thread : Inside(p) /\ Inside(q) /\ MyKey(p) = MyKey(q) => p = q

(* No increment made inside a section is lost: what the sums of            *)
(* hpa-basic.lua compare with a sequential run.                            *)
NoLostUpdate == \A a \in Id : value[a] = written[a]

(* A task that calls acquire enters, unless the process died. *)
AcquireReturns == \A p \in Thread : (place[p] = "enter") ~> (place[p] = "read" \/ ~processAlive)

(* The hash table is not read while a thread inserts in it, what           *)
(* hpa-basic.lua needs when its tasks create sections as they go.          *)
NoTableRace == ~ \E p, q \in Thread : place[p] = "lookup" /\ Inserting(q)
============================================================================
