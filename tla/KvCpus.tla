------------------------------- MODULE KvCpus -------------------------------
(***************************************************************************)
(* KvStore on a machine with NCpus processors.  spin_lock turns preemption *)
(* off, so a task that waits for a bucket or is in one stays on its CPU,   *)
(* with one exception: the kmalloc of write_kv is GFP_KERNEL, which may    *)
(* sleep for memory, and then its task leaves the CPU with the bucket      *)
(* locked and needs a CPU again to go on.  Every other task may be         *)
(* preempted at any point, so it only needs some CPU that is not taken.    *)
(* A kernel that counts preemption would report the sleep ("scheduling     *)
(* while atomic"); one that does not behaves as here.                      *)
(***************************************************************************)
EXTENDS KvStore

CONSTANT NCpus

ASSUME NCpusAssumption == NCpus \in Nat \ {0}

VARIABLE asleep   \* the tasks that sleep in write_kv's kmalloc

cpuVars == <<vars, asleep>>

\* Tasks that preemption cannot take off their CPU: spinning, or in a bucket.
Pinned == {t \in Tasks : pc[t] \in InCall \cup {"lock"}} \ asleep

FreeCpu == Cardinality(Pinned) < NCpus

CpuInit == Init /\ asleep = {}

\* A step of a call, on the CPU its task is on.
RunCall(t) ==
  /\ t \in Pinned
  /\ InCallStep(t)
  /\ UNCHANGED asleep

\* kmalloc(sizeof(struct kv_node), GFP_KERNEL) has to wait for memory.
KmallocSleeps(t) ==
  /\ t \in Pinned
  /\ pc[t] = "store" /\ entry[t] = NULL
  /\ asleep' = asleep \cup {t}
  /\ UNCHANGED vars

\* There is memory, or none will come: the task gets a CPU and goes on.  Sleeps
\* that follow each other without another step of the task are one.
KmallocWakes(t) ==
  /\ t \in asleep
  /\ FreeCpu
  /\ InCallStep(t)
  /\ asleep' = asleep \ {t}

\* The entry of a call, up to spin_lock's preempt_disable.
RunSyscall(t) ==
  /\ FreeCpu
  /\ \E c \in Calls : Syscall(t, c)
  /\ UNCHANGED <<taskVars, storeVars, asleep>>

RunFork(t) ==
  /\ FreeCpu
  /\ \/ \E c \in Tasks : CloneThread(t, c) \/ CloneProcess(t, c)
     \/ CloneThreadFault(t)
     \/ CloneStep(t)
  /\ UNCHANGED asleep

RunExit(t) ==
  /\ FreeCpu
  /\ Exit(t)
  /\ UNCHANGED asleep

RunExitStep(t) ==
  /\ FreeCpu
  /\ ExitStep(t)
  /\ UNCHANGED asleep

\* What a task does without being asked to, once it is in a call or in its exit.
Runs(t) == RunCall(t) \/ KmallocWakes(t) \/ RunExitStep(t)

CpuNext ==
  \E t \in Tasks :
    \/ RunSyscall(t)
    \/ KmallocSleeps(t)
    \/ RunFork(t)
    \/ RunExit(t)
    \/ Runs(t)

\* Spinlocks are queued and the scheduler gives a free CPU to every task that can
\* run in its turn, so a task that can go on again and again does.  Nothing is
\* assumed of a task that has no CPU, and nothing makes a sleep end without one.
CpuFairness == \A t \in Tasks : SF_cpuVars(Runs(t))

FairSpec == CpuInit /\ [][CpuNext]_cpuVars /\ CpuFairness

\* Every CPU spins for a bucket whose holder sleeps: nobody runs any more.
Stalled ==
  /\ Cardinality(Pinned) = NCpus
  /\ \A t \in Pinned :
       pc[t] = "lock" /\ kv[t] # NULL /\ lock[kv[t]][hash(call[t].k)] \in asleep

-----------------------------------------------------------------------------

\* A call comes back (or dies by the fault on a NULL store), or the machine has
\* stalled with every CPU spinning behind a writer that sleeps in kmalloc with
\* its bucket locked.  No other way to hang exists: no path misses its unlock,
\* and a sleeping writer is woken as long as one CPU does not spin.
CallsReturn ==
  \A t \in Tasks : pc[t] = "lock" ~> (pc[t] \in {"user", "oops"} \/ Stalled)

\* The last thread's exit gets through the buckets and frees the store, or the
\* machine has stalled because of another process.
ExitsFinish ==
  \A t \in Tasks : pc[t] = "freeing" ~> (pc[t] = "none" \/ Stalled)

=============================================================================
