----------------------------- MODULE RuntimeLock -----------------------------
(***************************************************************************)
(* The directory lock of internal/app/runtimecoord/lock.go: mkdir takes    *)
(* it, a goroutine touches it while it is held, and whoever finds it       *)
(* untouched for longer than the stale time removes it and tries again.    *)
(* Processes may crash or be suspended (a laptop lid), after which the     *)
(* touching stops.  Every file operation is a step of its own and names    *)
(* the lock by its path, whoever made the directory.                       *)
(***************************************************************************)
EXTENDS Naturals, FiniteSets

CONSTANTS Procs,      \* processes that want the lock
          Crashers,   \* those that may crash
          Sleepers    \* those that may be suspended and resumed

ASSUME LockAssumption == Crashers \subseteq Procs /\ Sleepers \subseteq Procs

VARIABLES dir,        \* the lock directory: "none", "fresh" or "stale"
          proc,       \* where each process is
          sleeping,     \* the suspended ones
          troubled    \* those that crashed or were suspended some time

lockVars == <<dir, proc, sleeping, troubled>>

\* A process whose touchLoop keeps the directory fresh.
Touching(p) == proc[p] = "holding" /\ p \notin sleeping
Running(p) == p \notin sleeping
-----------------------------------------------------------------------------
LockInit ==
  /\ dir = "none"
  /\ proc = [p \in Procs |-> "out"]
  /\ sleeping = {} /\ troubled = {}

LockCall(p) ==
  /\ Running(p) /\ proc[p] = "out"
  /\ proc' = [proc EXCEPT ![p] = "making"]
  /\ UNCHANGED <<dir, sleeping, troubled>>

\* os.Mkdir succeeds and the touching begins, or the directory is there already.
Mkdir(p) ==
  /\ Running(p) /\ proc[p] = "making"
  /\ IF dir = "none"
       THEN dir' = "fresh" /\ proc' = [proc EXCEPT ![p] = "holding"]
       ELSE proc' = [proc EXCEPT ![p] = "looking"] /\ UNCHANGED dir
  /\ UNCHANGED <<sleeping, troubled>>

\* Mutant of Stat: a fresh lock is taken for a stale one.
StatImpatient(p) ==
  /\ Running(p) /\ proc[p] = "looking"
  /\ proc' = [proc EXCEPT ![p] = IF dir = "none" THEN "making" ELSE "removing"]
  /\ UNCHANGED <<dir, sleeping, troubled>>

\* Mutant of Stat: a stale lock is a conflict like any other.
StatNeverStale(p) ==
  /\ Running(p) /\ proc[p] = "looking"
  /\ proc' = [proc EXCEPT ![p] = IF dir = "none" THEN "making" ELSE "out"]
  /\ UNCHANGED <<dir, sleeping, troubled>>

\* os.Stat and the age of the directory: try again, give up, or remove it.
Stat(p) ==
  /\ Running(p) /\ proc[p] = "looking"
  /\ proc' = [proc EXCEPT ![p] =
                CASE dir = "none" -> "making" [] dir = "fresh" -> "out" [] dir = "stale" -> "removing"]
  /\ UNCHANGED <<dir, sleeping, troubled>>

\* os.Remove of what was stale when it was looked at.
RemoveStale(p) ==
  /\ Running(p) /\ proc[p] = "removing"
  /\ dir' = "none"
  /\ proc' = [proc EXCEPT ![p] = "making"]
  /\ UNCHANGED <<sleeping, troubled>>

\* A turn of touchLoop, which touches whatever directory is there.
Touch(p) ==
  /\ Touching(p) /\ dir = "stale"
  /\ dir' = "fresh"
  /\ UNCHANGED <<proc, sleeping, troubled>>

\* Release stops the touching first ...
ReleaseCall(p) ==
  /\ Running(p) /\ proc[p] = "holding"
  /\ proc' = [proc EXCEPT ![p] = "releasing"]
  /\ UNCHANGED <<dir, sleeping, troubled>>

\* ... and removes the directory then.
ReleaseRemoves(p) ==
  /\ Running(p) /\ proc[p] = "releasing"
  /\ dir' = "none"
  /\ proc' = [proc EXCEPT ![p] = "out"]
  /\ UNCHANGED <<sleeping, troubled>>
-----------------------------------------------------------------------------
\* Time passes: an untouched directory becomes stale.  A process that runs is
\* through with Release long before that.
Age ==
  /\ dir = "fresh"
  /\ \A p \in Procs : ~Touching(p) /\ (proc[p] = "releasing" => p \in sleeping)
  /\ dir' = "stale"
  /\ UNCHANGED <<proc, sleeping, troubled>>

Crash(p) ==
  /\ p \in Crashers /\ proc[p] # "crashed"
  /\ proc' = [proc EXCEPT ![p] = "crashed"]
  /\ sleeping' = sleeping \ {p} /\ troubled' = troubled \cup {p}
  /\ UNCHANGED dir
Suspend(p) ==
  /\ p \in Sleepers /\ Running(p) /\ proc[p] # "crashed"
  /\ sleeping' = sleeping \cup {p} /\ troubled' = troubled \cup {p}
  /\ UNCHANGED <<dir, proc>>
Resume(p) ==
  /\ p \in sleeping
  /\ sleeping' = sleeping \ {p}
  /\ UNCHANGED <<dir, proc, troubled>>

LockStep(p) == Mkdir(p) \/ Stat(p) \/ RemoveStale(p) \/ ReleaseRemoves(p)
LockNext ==
  \/ Age
  \/ \E p \in Procs : \/ LockCall(p) \/ LockStep(p) \/ Touch(p) \/ ReleaseCall(p)
                      \/ Crash(p) \/ Suspend(p) \/ Resume(p)
LockSpec == LockInit /\ [][LockNext]_lockVars

\* Processes that run keep asking for the lock and get on with it, however
\* often they are suspended, and time passes.
LockFairness == WF_lockVars(Age) /\ \A p \in Procs : WF_lockVars(LockCall(p)) /\ SF_lockVars(LockStep(p))
FairLockSpec == LockSpec /\ LockFairness
-----------------------------------------------------------------------------
LockTypeOK ==
  /\ dir \in {"none", "fresh", "stale"}
  /\ proc \in [Procs -> {"out", "making", "looking", "removing", "holding", "releasing", "crashed"}]
  /\ sleeping \subseteq Sleepers \cap troubled /\ troubled \subseteq Procs
  /\ \A p \in sleeping : proc[p] # "crashed"

\* Until a process crashes or is suspended the lock excludes: of the processes
\* that believe they hold it one runs at most.  (After that two processes may
\* have looked at one leftover; the slower one removes what the faster made.)
OneHolder ==
  troubled = {} => \A p, q \in Procs : Touching(p) /\ Touching(q) => p = q

\* Until then a process that holds the lock, or is about to remove its
\* directory, has one: nobody removes the lock of a process that runs.
HolderHasDir ==
  troubled = {} => \A p \in Procs : proc[p] \in {"holding", "releasing"} => dir # "none"

\* What a crashed holder left behind does not lock everybody out: somebody who
\* keeps asking gets the lock.
LeftoverIsReclaimed ==
  (\E p \in Procs : proc[p] = "crashed") ~> (\E p \in Procs : proc[p] = "holding") \/ (\A p \in Procs : proc[p] = "crashed")
=============================================================================
