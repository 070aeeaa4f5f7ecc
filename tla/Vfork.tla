-------------------------------- MODULE Vfork --------------------------------
(***************************************************************************)
(* CLONE_VFORK in kernel_clone: the parent waits on a completion that is a *)
(* variable on its own stack, the child completes it from mm_release when  *)
(* it execs or exits, and a parent that is killed leaves before that.      *)
(***************************************************************************)
EXTENDS Integers

CONSTANTS Tasks, InitTask, NULL

ASSUME TasksAssumption == InitTask \in Tasks /\ NULL \notin Tasks

VARIABLES
  pc,           \* what each task does
  p,            \* kernel_clone's p: the child of a task in it
  done,         \* tasks whose completion `vfork` has been completed
  vfork_done,   \* the completion, by its owner, that a task_struct points to
  vfork,        \* complete_vfork_done's variable
  alloc_lock,   \* the holder of the task_lock of each task
  usage,        \* references to each task_struct
  borrows,      \* the parent whose memory a task runs in
  killed        \* tasks with SIGKILL pending

vars == <<pc, p, done, vfork_done, vfork, alloc_lock, usage, borrows, killed>>

Nobody == [t \in Tasks |-> NULL]

Init ==
  /\ pc = [t \in Tasks |-> IF t = InitTask THEN "user" ELSE "none"]
  /\ p = Nobody /\ vfork_done = Nobody /\ vfork = Nobody
  /\ alloc_lock = Nobody /\ borrows = Nobody
  /\ usage = [t \in Tasks |-> IF t = InitTask THEN 1 ELSE 0]
  /\ done = {} /\ killed = {}

Goto(t, label) == pc' = [pc EXCEPT ![t] = label]

\* Mutant: no get_task_struct.
KernelCloneNoRef(t, c, vf) ==
  /\ pc[t] = "user"
  /\ t \notin killed
  /\ vf => t # InitTask
  /\ pc[c] = "none"
  /\ pc' = [pc EXCEPT ![t] = "wake", ![c] = "embryo"]
  /\ p' = [p EXCEPT ![t] = c]
  /\ done' = done \ {t}
  /\ vfork_done' = [vfork_done EXCEPT ![c] = IF vf THEN t ELSE NULL]
  /\ borrows' = [borrows EXCEPT ![c] = IF vf THEN t ELSE NULL]
  /\ usage' = [usage EXCEPT ![c] = 1]
  /\ UNCHANGED <<vfork, alloc_lock, killed>>

\* kernel_clone up to the wake-up: copy_process gives a child c.  With CLONE_VFORK
\* it shares the memory, and vfork_done and a reference are set before it can
\* run.  (init forks, but does not vfork: somebody is always there to run.)
KernelClone(t, c, vf) ==
  /\ pc[t] = "user"
  /\ t \notin killed
  /\ vf => t # InitTask
  /\ pc[c] = "none"
  /\ pc' = [pc EXCEPT ![t] = "wake", ![c] = "embryo"]
  /\ p' = [p EXCEPT ![t] = c]
  /\ done' = done \ {t}
  /\ vfork_done' = [vfork_done EXCEPT ![c] = IF vf THEN t ELSE NULL]
  /\ borrows' = [borrows EXCEPT ![c] = IF vf THEN t ELSE NULL]
  /\ usage' = [usage EXCEPT ![c] = IF vf THEN 2 ELSE 1]
  /\ UNCHANGED <<vfork, alloc_lock, killed>>

WakeUpNewTask(t) ==
  LET vf == vfork_done[p[t]] = t IN
  /\ pc[t] = "wake"
  /\ pc' = [pc EXCEPT ![t] = IF vf THEN "wait" ELSE "user", ![p[t]] = "user"]
  /\ p' = IF vf THEN p ELSE [p EXCEPT ![t] = NULL]
  /\ UNCHANGED <<done, vfork_done, vfork, alloc_lock, usage, borrows, killed>>

\* Mutant: any signal ends the wait.
WaitForCompletionInterruptible(t) ==
  /\ pc[t] = "wait"
  /\ Goto(t, IF t \in done THEN "put" ELSE "abort")
  /\ UNCHANGED <<p, done, vfork_done, vfork, alloc_lock, usage, borrows, killed>>

\* wait_for_completion_killable.
WaitForCompletion(t) ==
  /\ pc[t] = "wait"
  /\ \/ t \in done /\ Goto(t, "put")
     \/ t \notin done /\ t \in killed /\ Goto(t, "abort")
  /\ UNCHANGED <<p, done, vfork_done, vfork, alloc_lock, usage, borrows, killed>>

TaskLock(t, c) ==
  /\ alloc_lock[c] = NULL
  /\ alloc_lock' = [alloc_lock EXCEPT ![c] = t]

TaskUnlock(c) == alloc_lock' = [alloc_lock EXCEPT ![c] = NULL]

\* The parent was killed: task_lock(child); child->vfork_done = NULL.
AbortLock(t) ==
  /\ pc[t] = "abort"
  /\ TaskLock(t, p[t])
  /\ Goto(t, "clear")
  /\ UNCHANGED <<p, done, vfork_done, vfork, usage, borrows, killed>>

\* Mutant: the pointer stays.
AbortNoClear(t) ==
  /\ pc[t] = "clear"
  /\ TaskUnlock(p[t])
  /\ Goto(t, "put")
  /\ UNCHANGED <<p, done, vfork_done, vfork, usage, borrows, killed>>

Abort(t) ==
  /\ pc[t] = "clear"
  /\ vfork_done' = [vfork_done EXCEPT ![p[t]] = NULL]
  /\ TaskUnlock(p[t])
  /\ Goto(t, "put")
  /\ UNCHANGED <<p, done, vfork, usage, borrows, killed>>

\* Mutant: a reference is put twice.
PutTaskStructTwice(c, freed) ==
  /\ usage' = [usage EXCEPT ![c] = @ - 2]
  /\ freed <=> usage[c] <= 2

\* A task_struct whose last reference goes is freed.
PutTaskStruct(c, freed) ==
  /\ usage' = [usage EXCEPT ![c] = @ - 1]
  /\ freed <=> usage[c] = 1

\* put_task_struct(child), and kernel_clone returns: `vfork` is gone.
ReturnFromClone(t) ==
  LET c == p[t] IN
  /\ pc[t] = "put"
  /\ \E freed \in BOOLEAN :
       /\ PutTaskStruct(c, freed)
       /\ pc' = [u \in Tasks |-> IF u = t THEN "user" ELSE IF u = c /\ freed THEN "none" ELSE pc[u]]
  /\ p' = [p EXCEPT ![t] = NULL]
  /\ done' = done \ {t}
  /\ UNCHANGED <<vfork_done, vfork, alloc_lock, borrows, killed>>

\* exec_mm_release and exit_mm_release: the last write to the memory clears the
\* thread id; then vfork_done is looked at, without the lock.
MmRelease(t) ==
  /\ pc[t] = "user"
  /\ t # InitTask
  /\ borrows' = [borrows EXCEPT ![t] = NULL]
  /\ Goto(t, IF vfork_done[t] = NULL THEN "released" ELSE "complete_vfork_done")
  /\ UNCHANGED <<p, done, vfork_done, vfork, alloc_lock, usage, killed>>

CompleteLock(t) ==
  /\ pc[t] = "complete_vfork_done"
  /\ TaskLock(t, t)
  /\ vfork' = [vfork EXCEPT ![t] = vfork_done[t]]
  /\ Goto(t, "locked")
  /\ UNCHANGED <<p, done, vfork_done, usage, borrows, killed>>

\* Mutant: the pointer is cleared and nobody is woken.
CompleteSilent(t) ==
  /\ pc[t] = "locked"
  /\ vfork_done' = [vfork_done EXCEPT ![t] = NULL]
  /\ vfork' = [vfork EXCEPT ![t] = NULL]
  /\ TaskUnlock(t)
  /\ Goto(t, "released")
  /\ UNCHANGED <<p, done, usage, borrows, killed>>

Complete(t) ==
  /\ pc[t] = "locked"
  /\ vfork_done' = [vfork_done EXCEPT ![t] = NULL]
  /\ done' = IF vfork[t] = NULL THEN done ELSE done \cup {vfork[t]}
  /\ vfork' = [vfork EXCEPT ![t] = NULL]
  /\ TaskUnlock(t)
  /\ Goto(t, "released")
  /\ UNCHANGED <<p, usage, borrows, killed>>

\* exec goes on in memory of its own.
Exec(t) ==
  /\ pc[t] = "released"
  /\ t \notin killed
  /\ Goto(t, "user")
  /\ UNCHANGED <<p, done, vfork_done, vfork, alloc_lock, usage, borrows, killed>>

\* do_exit ends and the task is reaped.
Exit(t) ==
  /\ pc[t] = "released"
  /\ \E freed \in BOOLEAN :
       PutTaskStruct(t, freed) /\ Goto(t, IF freed THEN "none" ELSE "dead")
  /\ killed' = killed \ {t}
  /\ borrows' = [c \in Tasks |-> IF borrows[c] = t THEN NULL ELSE borrows[c]]
  /\ UNCHANGED <<p, done, vfork_done, vfork, alloc_lock>>

Kill(t) ==
  /\ pc[t] \notin {"none", "embryo", "dead"}
  /\ t # InitTask
  /\ killed' = killed \cup {t}
  /\ UNCHANGED <<pc, p, done, vfork_done, vfork, alloc_lock, usage, borrows>>

Parent(t) ==
  \/ WakeUpNewTask(t)
  \/ WaitForCompletion(t)
  \/ AbortLock(t)
  \/ Abort(t)
  \/ ReturnFromClone(t)

Child(t) == CompleteLock(t) \/ Complete(t)

Next ==
  \E t \in Tasks :
    \/ \E c \in Tasks, vf \in BOOLEAN : KernelClone(t, c, vf)
    \/ Parent(t)
    \/ MmRelease(t)
    \/ Child(t)
    \/ Exec(t)
    \/ Exit(t)
    \/ Kill(t)

Spec == Init /\ [][Next]_vars

\* Tasks in the kernel run on; nobody need exec, exit or be killed.
FairSpec == Spec /\ \A t \in Tasks : WF_vars(Parent(t)) /\ WF_vars(Child(t))

\* Between KernelClone and ReturnFromClone the frame with `vfork` is there.
InClone == {t \in Tasks : p[t] # NULL}

TypeOK ==
  /\ pc \in [Tasks -> {"none", "embryo", "dead", "user", "wake", "wait", "abort", "clear", "put",
                       "complete_vfork_done", "locked", "released"}]
  /\ {p, vfork_done, vfork, alloc_lock, borrows} \subseteq [Tasks -> Tasks \cup {NULL}]
  /\ usage \in [Tasks -> 0 .. 2]
  /\ done \subseteq InClone
  /\ killed \subseteq Tasks

-----------------------------------------------------------------------------

\* No child completes, or will, a completion whose parent has returned from
\* kernel_clone: a killed parent clears the pointer under task_lock, and one
\* that finds a completion in progress under the lock waits for it.
CompletionAlive ==
  \A t \in Tasks :
    /\ vfork_done[t] # NULL => p[vfork_done[t]] = t
    /\ vfork[t] # NULL => p[vfork[t]] = t

\* A parent in kernel_clone has a child whose task_struct has not been freed,
\* however quickly the child exits.
ChildNotFreed == \A t \in InClone : usage[p[t]] > 0

\* While a child runs in the memory its parent lent it, the parent does not run,
\* unless it was killed.
ParentSuspended ==
  \A t \in Tasks : borrows[t] # NULL =>
    p[borrows[t]] = t \/ borrows[t] \in killed

\* Once the child has given the memory back, the parent goes on: no wake-up is
\* lost between the parent that sets vfork_done and waits and the child.
ParentResumes ==
  \A t \in Tasks :
    (pc[t] = "wait" /\ borrows[p[t]] # t) ~> pc[t] # "wait"

=============================================================================
