----------------------------- MODULE ForkSignals -----------------------------
(***************************************************************************)
(* copy_process against signals: a signal to a process group that comes    *)
(* while a member forks is put aside in `delayed` for the child, and       *)
(* SIGKILL stops a fork in the middle.  The sender (kernel/signal.c) is    *)
(* external: it walks the group under tasklist_lock, held for reading, and *)
(* takes the siglock of one process after the other.                       *)
(***************************************************************************)
EXTENDS FiniteSets

CONSTANTS Tasks, InitTask, NULL

ASSUME TasksAssumption == InitTask \in Tasks /\ NULL \notin Tasks

VARIABLES
  pc,           \* what each task does
  group,        \* the leader of its thread group, for signal_struct
  child,        \* the task_struct that its copy_process fills
  thread,       \* its clone_flags have CLONE_THREAD
  listed,       \* tasks whose `delayed` is on signal->multiprocess
  delayed,      \* tasks whose delayed.signal has the signal
  before,       \* the process's sig when the fork began, which the child's memory has
  sig,          \* the group signal in each process: none, pending or seen by a handler
  tif,          \* tasks with TIF_SIGPENDING
  killed,       \* tasks with SIGKILL pending
  sender,       \* idle, sending or sent
  todo          \* the processes the sender has not come to

vars == <<pc, group, child, thread, listed, delayed, before, sig, tif, killed, sender, todo>>

fork == <<group, child, thread, before>>
signals == <<sig, tif, killed, sender, todo>>

Visible == {t \in Tasks : pc[t] \notin {"none", "embryo"}}

Processes == {group[t] : t \in Visible}

Threads(p) == {t \in Visible : group[t] = p}

Init ==
  /\ pc = [t \in Tasks |-> IF t = InitTask THEN "user" ELSE "none"]
  /\ group = [t \in Tasks |-> t]
  /\ child = [t \in Tasks |-> NULL]
  /\ thread = [t \in Tasks |-> FALSE]
  /\ before = [t \in Tasks |-> "none"]
  /\ sig = [t \in Tasks |-> "none"]
  /\ listed = {} /\ delayed = {} /\ tif = {} /\ killed = {}
  /\ sender = "idle"
  /\ todo = {}

\* Mutant: `delayed` does not go on the list.
CloneUnlisted(t, thr) ==
  /\ pc[t] = "user"
  /\ pc' = [pc EXCEPT ![t] = "check"]
  /\ thread' = [thread EXCEPT ![t] = thr]
  /\ before' = [before EXCEPT ![t] = sig[group[t]]]
  /\ tif' = IF sig[group[t]] = "pending" \/ t \in killed THEN tif \cup {t} ELSE tif \ {t}
  /\ UNCHANGED <<group, child, listed, delayed, sig, killed, sender, todo>>

\* The first section under siglock, with recalc_sigpending.
Clone(t, thr) ==
  /\ pc[t] = "user"
  /\ pc' = [pc EXCEPT ![t] = "check"]
  /\ thread' = [thread EXCEPT ![t] = thr]
  /\ listed' = IF thr THEN listed ELSE listed \cup {t}
  /\ before' = [before EXCEPT ![t] = sig[group[t]]]
  /\ tif' = IF sig[group[t]] = "pending" \/ t \in killed THEN tif \cup {t} ELSE tif \ {t}
  /\ UNCHANGED <<group, child, delayed, sig, killed, sender, todo>>

\* Mutant: with a signal the check is tried again at once.
CheckSigpendingSpins(t) ==
  /\ pc[t] = "check"
  /\ \/ t \in tif /\ UNCHANGED <<pc, child>>
     \/ \E c \in Tasks :
          /\ t \notin tif
          /\ pc[c] = "none"
          /\ pc' = [pc EXCEPT ![t] = "copy", ![c] = "embryo"]
          /\ child' = [child EXCEPT ![t] = c]
  /\ UNCHANGED <<group, thread, before, listed, delayed, signals>>

\* task_sigpending(current), outside the lock: with a signal the fork is
\* restarted after it has been handled.
CheckSigpending(t) ==
  /\ pc[t] = "check"
  /\ \/ /\ t \in tif
        /\ pc' = [pc EXCEPT ![t] = "fork_out"]
        /\ UNCHANGED child
     \/ \E c \in Tasks :
          /\ t \notin tif
          /\ pc[c] = "none"
          /\ pc' = [pc EXCEPT ![t] = "copy", ![c] = "embryo"]
          /\ child' = [child EXCEPT ![t] = c]
  /\ UNCHANGED <<group, thread, before, listed, delayed, signals>>

\* hlist_del_init, and the variables of copy_process are gone.
Leave(t) ==
  /\ listed' = listed \ {t}
  /\ delayed' = delayed \ {t}
  /\ thread' = [thread EXCEPT ![t] = FALSE]
  /\ before' = [before EXCEPT ![t] = "none"]

\* shared_pending of the child: the delayed signal only; what its parent had
\* handled before the fork it has handled too.
ChildSig(t) ==
  IF t \in delayed THEN "pending" ELSE IF before[t] = "seen" THEN "seen" ELSE "none"

\* Mutant: the section does not look for a fatal signal.
PublishKilled(t) ==
  LET c == child[t] IN
  /\ pc[t] = "copy"
  /\ sender # "sending"
  /\ pc' = [pc EXCEPT ![t] = "return", ![c] = "user"]
  /\ child' = [child EXCEPT ![t] = NULL]
  /\ group' = [group EXCEPT ![c] = IF thread[t] THEN group[t] ELSE c]
  /\ sig' = IF thread[t] THEN sig
            ELSE [sig EXCEPT ![c] = ChildSig(t)]
  /\ tif' = IF ~thread[t] /\ t \in delayed THEN tif \cup {c} ELSE tif
  /\ Leave(t)
  /\ UNCHANGED <<killed, sender, todo>>

\* The section under tasklist_lock, held for writing, and siglock.
Publish(t) ==
  LET c == child[t] IN
  /\ pc[t] = "copy"
  /\ sender # "sending"
  /\ t \notin killed
  /\ pc' = [pc EXCEPT ![t] = "return", ![c] = "user"]
  /\ child' = [child EXCEPT ![t] = NULL]
  /\ group' = [group EXCEPT ![c] = IF thread[t] THEN group[t] ELSE c]
  /\ sig' = IF thread[t] THEN sig
            ELSE [sig EXCEPT ![c] = ChildSig(t)]
  /\ tif' = IF ~thread[t] /\ t \in delayed THEN tif \cup {c} ELSE tif
  /\ Leave(t)
  /\ UNCHANGED <<killed, sender, todo>>

\* Mutant: a failed fork keeps its pointer to the child.
FailForkKeepsChild(t) ==
  /\ pc[t] = "copy"
  /\ pc' = [u \in Tasks |-> IF u = t THEN "fork_out" ELSE IF u = child[t] THEN "none" ELSE pc[u]]
  /\ UNCHANGED <<fork, listed, delayed, signals>>

\* fatal_signal_pending in that section, or a failure anywhere before it.
FailFork(t) ==
  /\ \/ pc[t] = "copy"
     \/ pc[t] = "check" /\ t \notin tif
  /\ pc' = [u \in Tasks |-> IF u = t THEN "fork_out" ELSE IF u = child[t] THEN "none" ELSE pc[u]]
  /\ child' = [child EXCEPT ![t] = NULL]
  /\ UNCHANGED <<group, thread, before, listed, delayed, signals>>

\* Mutant: a failed fork leaves its `delayed` on the list.
ForkOutListed(t) ==
  /\ pc[t] = "fork_out"
  /\ pc' = [pc EXCEPT ![t] = "return"]
  /\ delayed' = delayed \ {t}
  /\ thread' = [thread EXCEPT ![t] = FALSE]
  /\ before' = [before EXCEPT ![t] = "none"]
  /\ UNCHANGED <<group, child, listed, signals>>

ForkOut(t) ==
  /\ pc[t] = "fork_out"
  /\ Leave(t)
  /\ pc' = [pc EXCEPT ![t] = "return"]
  /\ UNCHANGED <<group, child, signals>>

\* exit_to_user_mode: a task that has no SIGKILL handles the signal.
ExitToUser(t) ==
  /\ pc[t] \in {"user", "return"}
  /\ pc[t] = "user" => t \in tif
  /\ t \notin killed
  /\ pc' = [pc EXCEPT ![t] = "user"]
  /\ tif' = tif \ {t}
  /\ sig' = IF t \in tif /\ sig[group[t]] = "pending"
            THEN [sig EXCEPT ![group[t]] = "seen"] ELSE sig
  /\ UNCHANGED <<fork, listed, delayed, killed, sender, todo>>

\* do_exit and release_task: the leader goes last, and a signal that the task
\* leaves is for the others.
Exit(t) ==
  /\ pc[t] = "user" \/ (pc[t] = "return" /\ t \in killed)
  /\ t # InitTask
  /\ t = group[t] => Threads(t) = {t}
  /\ sender # "sending"
  /\ pc' = [pc EXCEPT ![t] = "none"]
  /\ tif' = IF sig[group[t]] = "pending" THEN (tif \cup Threads(group[t])) \ {t} ELSE tif \ {t}
  /\ killed' = killed \ {t}
  /\ sig' = IF t = group[t] THEN [sig EXCEPT ![t] = "none"] ELSE sig
  /\ group' = [group EXCEPT ![t] = t]
  /\ UNCHANGED <<child, thread, before, listed, delayed, sender, todo>>

\* kill(-pgrp, sig) begins, visits one process, and ends.
SendStart ==
  /\ sender = "idle"
  /\ sender' = "sending"
  /\ todo' = Processes
  /\ UNCHANGED <<pc, fork, listed, delayed, sig, tif, killed>>

SendSignal(p) ==
  /\ p \in todo
  /\ todo' = todo \ {p}
  /\ sig' = [sig EXCEPT ![p] = "pending"]
  /\ delayed' = delayed \cup (listed \cap Threads(p))
  /\ \E t \in Threads(p) : tif' = tif \cup {t}
  /\ UNCHANGED <<pc, fork, listed, killed, sender>>

SendEnd ==
  /\ sender = "sending"
  /\ todo = {}
  /\ sender' = "sent"
  /\ UNCHANGED <<pc, fork, listed, delayed, sig, tif, killed, todo>>

\* SIGKILL for a process, under its siglock: every thread gets it.
Kill(p) ==
  /\ p \in Processes \ {InitTask}
  /\ killed' = killed \cup Threads(p)
  /\ tif' = tif \cup Threads(p)
  /\ UNCHANGED <<pc, fork, listed, delayed, sig, sender, todo>>

Run(t) == CheckSigpending(t) \/ Publish(t) \/ FailFork(t) \/ ForkOut(t) \/ ExitToUser(t)

Next ==
  \/ \E t \in Tasks :
       \/ \E thr \in BOOLEAN : Clone(t, thr)
       \/ Run(t)
       \/ Exit(t)
       \/ SendSignal(t)
       \/ Kill(t)
  \/ SendStart
  \/ SendEnd

Spec == Init /\ [][Next]_vars

\* A task in the kernel runs on, one with a signal goes through exit_to_user_mode,
\* and the sender walks on.  Nobody need fork, kill or send.
FairSpec ==
  /\ Spec
  /\ \A t \in Tasks : WF_vars(Run(t)) /\ WF_vars(t \in killed /\ Exit(t)) /\ WF_vars(SendSignal(t))
  /\ WF_vars(SendEnd)

TypeOK ==
  /\ pc \in [Tasks -> {"none", "embryo", "user", "check", "copy", "fork_out", "return"}]
  /\ group \in [Tasks -> Tasks]
  /\ child \in [Tasks -> Tasks \cup {NULL}]
  /\ \A t \in Tasks : child[t] # NULL <=> pc[t] = "copy"
  /\ thread \in [Tasks -> BOOLEAN]
  /\ before \in [Tasks -> {"none", "pending", "seen"}]
  /\ sig \in [Tasks -> {"none", "pending", "seen"}]
  /\ {listed, delayed, tif, killed, todo} \subseteq SUBSET Tasks
  /\ sender \in {"idle", "sending", "sent"}

-----------------------------------------------------------------------------

\* "Collect up signals sent to multiple processes that happen during the fork":
\* no process of the group, forked before, while or after the signal was sent,
\* is left without it.  The signal is one that the group does not block: with a
\* blocked one pending, recalc_sigpending lets the fork go on.
SignalReachesAll ==
  \A p \in Processes :
    sender = "sent" \/ (sender = "sending" /\ p \notin todo) => sig[p] # "none"

\* "Let kill terminate clone/fork in the middle": no thread joins a group that
\* has been killed without having the kill.
KillReachesThreads ==
  \A t, u \in Visible : group[t] = group[u] /\ t \in killed => u \in killed

\* The list of a process has no `delayed` of a task that is not forking: it is a
\* variable on that task's stack.
ListedAreForking ==
  \A t \in listed : pc[t] \in {"check", "copy", "fork_out"}

\* The signal does not wait for ever behind forks that restart.
SignalHandled ==
  \A p \in Tasks : sig[p] = "pending" ~> sig[p] # "pending"

=============================================================================
