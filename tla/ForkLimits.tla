----------------------------- MODULE ForkLimits -----------------------------
(***************************************************************************)
(* The two limits on the number of tasks that copy_process checks: the     *)
(* RLIMIT_NPROC count of the user, which copy_creds raises before the      *)
(* check, and nr_threads, which is raised only when the child goes on the  *)
(* task list, long after the check and under another lock.                 *)
(***************************************************************************)
EXTENDS Integers, FiniteSets

CONSTANTS
  Tasks,        \* memory for task_structs, all of one user
  InitTask,     \* a task that never exits
  NprocLimit,   \* RLIMIT_NPROC
  MAX_THREADS,  \* the largest max_threads that the sysctl takes
  NULL

ASSUME TasksAssumption == IsFiniteSet(Tasks) /\ InitTask \in Tasks /\ NULL \notin Tasks
ASSUME LimitsAssumption ==
  NprocLimit \in Nat \ {0} /\ MAX_THREADS \in Nat \ {0}

VARIABLES
  pc,           \* what each task does
  child,        \* the task_struct that its copy_process fills
  nproc,        \* the user's UCOUNT_RLIMIT_NPROC
  nr_threads,   \* tasks on the task list
  max_threads,
  privileged    \* the user is INIT_USER or has CAP_SYS_RESOURCE or CAP_SYS_ADMIN

vars == <<pc, child, nproc, nr_threads, max_threads, privileged>>

Init ==
  /\ pc = [t \in Tasks |-> IF t = InitTask THEN "user" ELSE "none"]
  /\ child = [t \in Tasks |-> NULL]
  /\ nproc = 1
  /\ nr_threads = 1
  /\ max_threads \in 1 .. MAX_THREADS
  /\ privileged \in BOOLEAN

DupTaskStruct(t, c) ==
  /\ pc[t] = "user"
  /\ pc[c] = "none"
  /\ pc' = [pc EXCEPT ![t] = "dup", ![c] = "embryo"]
  /\ child' = [child EXCEPT ![t] = c]
  /\ UNCHANGED <<nproc, nr_threads, max_threads, privileged>>

CopyCreds(t) ==
  /\ pc[t] = "dup"
  /\ nproc' = nproc + 1
  /\ pc' = [pc EXCEPT ![t] = "creds"]
  /\ UNCHANGED <<child, nr_threads, max_threads, privileged>>

\* is_ucounts_overlimit
Overlimit == nproc > NprocLimit

\* Mutant: the limit is reached only when it is passed by one.
CheckNprocOffByOne(t) ==
  /\ pc[t] = "creds"
  /\ nproc > NprocLimit + 1 => privileged
  /\ pc' = [pc EXCEPT ![t] = "nproc"]
  /\ UNCHANGED <<child, nproc, nr_threads, max_threads, privileged>>

CheckNproc(t) ==
  /\ pc[t] = "creds"
  /\ Overlimit => privileged
  /\ pc' = [pc EXCEPT ![t] = "nproc"]
  /\ UNCHANGED <<child, nproc, nr_threads, max_threads, privileged>>

\* Mutant: nr_threads may be max_threads.
CheckMaxThreadsOffByOne(t) ==
  /\ pc[t] = "nproc"
  /\ nr_threads <= max_threads
  /\ pc' = [pc EXCEPT ![t] = "rest"]
  /\ UNCHANGED <<child, nproc, nr_threads, max_threads, privileged>>

CheckMaxThreads(t) ==
  /\ pc[t] = "nproc"
  /\ nr_threads < max_threads
  /\ pc' = [pc EXCEPT ![t] = "rest"]
  /\ UNCHANGED <<child, nproc, nr_threads, max_threads, privileged>>

\* bad_fork_cleanup_count, from one of the checks or from a later failure.
CleanupCount(t) ==
  /\ \/ pc[t] = "creds" /\ Overlimit /\ ~privileged
     \/ pc[t] = "nproc" /\ nr_threads >= max_threads
     \/ pc[t] = "rest"
  /\ nproc' = nproc - 1
  /\ pc' = [pc EXCEPT ![t] = "user", ![child[t]] = "none"]
  /\ child' = [child EXCEPT ![t] = NULL]
  /\ UNCHANGED <<nr_threads, max_threads, privileged>>

\* Mutant: a failed copy_creds goes to bad_fork_cleanup_count.
BadForkFreeCounts(t) ==
  /\ pc[t] = "dup"
  /\ nproc' = nproc - 1
  /\ pc' = [pc EXCEPT ![t] = "user", ![child[t]] = "none"]
  /\ child' = [child EXCEPT ![t] = NULL]
  /\ UNCHANGED <<nr_threads, max_threads, privileged>>

\* bad_fork_free: copy_creds itself failed.
BadForkFree(t) ==
  /\ pc[t] = "dup"
  /\ pc' = [pc EXCEPT ![t] = "user", ![child[t]] = "none"]
  /\ child' = [child EXCEPT ![t] = NULL]
  /\ UNCHANGED <<nproc, nr_threads, max_threads, privileged>>

\* nr_threads++ under tasklist_lock.
Publish(t) ==
  /\ pc[t] = "rest"
  /\ nr_threads' = nr_threads + 1
  /\ pc' = [pc EXCEPT ![t] = "user", ![child[t]] = "user"]
  /\ child' = [child EXCEPT ![t] = NULL]
  /\ UNCHANGED <<nproc, max_threads, privileged>>

\* release_task: both counts go down.
Exit(t) ==
  /\ pc[t] = "user"
  /\ t # InitTask
  /\ nproc' = nproc - 1
  /\ nr_threads' = nr_threads - 1
  /\ pc' = [pc EXCEPT ![t] = "none"]
  /\ UNCHANGED <<child, max_threads, privileged>>

\* Mutant: the sysctl takes 0.
SysctlMaxThreadsZero(n) ==
  /\ max_threads' = n - 1
  /\ UNCHANGED <<pc, child, nproc, nr_threads, privileged>>

\* A write to /proc/sys/kernel/threads-max.
SysctlMaxThreads(n) ==
  /\ max_threads' = n
  /\ UNCHANGED <<pc, child, nproc, nr_threads, privileged>>

Next ==
  \/ \E t \in Tasks :
       \/ \E c \in Tasks : DupTaskStruct(t, c)
       \/ CopyCreds(t)
       \/ CheckNproc(t)
       \/ CheckMaxThreads(t)
       \/ CleanupCount(t)
       \/ BadForkFree(t)
       \/ Publish(t)
       \/ Exit(t)
  \/ \E n \in 1 .. MAX_THREADS : SysctlMaxThreads(n)

Spec == Init /\ [][Next]_vars

TypeOK ==
  /\ pc \in [Tasks -> {"none", "embryo", "user", "dup", "creds", "nproc", "rest"}]
  /\ child \in [Tasks -> Tasks \cup {NULL}]
  /\ nproc \in Nat
  /\ nr_threads \in Nat
  /\ max_threads \in 1 .. MAX_THREADS
  /\ privileged \in BOOLEAN

-----------------------------------------------------------------------------

Visible == {t \in Tasks : pc[t] \notin {"none", "embryo"}}

\* Forks that have passed the check of max_threads.
Past == {t \in Tasks : pc[t] = "rest"}

\* A user without privileges never has more tasks than RLIMIT_NPROC, however
\* many of them fork at once: the child is counted before the limit is looked
\* at, so of two forks that race for the last place at least one sees the other.
NprocRespected ==
  ~privileged => Cardinality(Visible) <= NprocLimit

\* The check of nr_threads "triggers too late" if several tasks fork at once,
\* and the sysctl can lower the limit between two of them.  Still the number of
\* tasks, with the ones on their way, never reaches twice the largest limit.
ThreadsBounded ==
  nr_threads + Cardinality(Past) <= IF MAX_THREADS = 1 THEN 1 ELSE 2 * (MAX_THREADS - 1)

\* However forks fail, and whenever the limits are changed, the counts come back
\* to the tasks there are.
CountsExact ==
  /\ nr_threads = Cardinality(Visible)
  /\ nproc = Cardinality(Visible) + Cardinality({t \in Tasks : pc[t] \in {"creds", "nproc", "rest"}})

=============================================================================
