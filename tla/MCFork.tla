------------------------------- MODULE MCFork -------------------------------
EXTENDS Fork, TLC

\* pthread_create, a process that shares memory and handlers, a process with a
\* pidfd that shares only the directories, and combinations that are refused.
MCFlags == {
  {"THREAD", "SIGHAND", "VM", "FILES", "FS", "IO"}, {"VM", "SIGHAND", "FILES"},
  {"PIDFD", "FS"}, {"THREAD"}, {"SIGHAND", "FS"}, {"PIDFD", "THREAD", "SIGHAND", "VM"}}

\* Two of them, for instances with more tasks.
TwoFlags == {{"THREAD", "SIGHAND", "VM", "FILES", "FS"}, {"PIDFD", "FS"}}

Symmetry == Permutations(Tasks \ {InitTask})
=============================================================================
