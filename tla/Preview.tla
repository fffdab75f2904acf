-------------------------------- MODULE Preview --------------------------------
(* auto_preview.py of .agent/scripts: start, stop and status of a development  *)
(* server.  What is kept in the file .agent/preview.pid is the id of the        *)
(* process that Popen starts: with shell=True a shell, on POSIX one that has    *)
(* only "npm" for a command.  What runs below the shell has ids that the script *)
(* never learns, and may go on when the shell is gone: it is not modelled.      *)
(* Every invocation is a process of its own, nothing keeps two of them apart,   *)
(* and each may be killed between two system calls.                             *)
EXTENDS Naturals

CONSTANTS
  Invocations,   \* invocations that may be under way at once
  Pids,          \* process ids
  MaxForeign,    \* bound: processes of other programs that take a free id
  MaxCrashes,    \* bound: invocations killed half-way
  MaxStarts      \* bound: shells started

ASSUME PreviewAssumption ==
  /\ Pids \cap {"absent", "empty", "none"} = {}
  /\ {MaxForeign, MaxCrashes, MaxStarts} \subseteq Nat

VARIABLES
  pidFile,     \* "absent", "empty", or the id in it
  process,     \* process[q]: "free", "shell" or "foreign"
  signalled,   \* shells that have been sent a signal
  pc,          \* pc[i]: the next system call of invocation i, or "idle"
  pid,         \* pid[i]: the id that i has read or started, or "none"
  detached,    \* invocations whose open pid file has been unlinked
  count,       \* how many shells, foreign processes and crashes so far
  contended,   \* a start has overlapped with another start or a stop
  unrecorded   \* a start was killed before it had recorded its shell

vars == <<pidFile, process, signalled, pc, pid, detached, count, contended, unrecorded>>

Starting(i) == pc[i] \in {"start_probe", "start_spawn", "start_truncate", "start_write"}
Stopping(i) == pc[i] \in {"stop_probe", "stop_kill", "stop_unlink"}

(* is_running: signal 0 reaches any process of that id.                        *)
is_running(q) == process[q] # "free"

Goto(i, label) == pc' = [pc EXCEPT ![i] = label]

Init ==
  /\ pidFile = "absent"
  /\ process = [q \in Pids |-> "free"]
  /\ signalled = {}
  /\ pc = [i \in Invocations |-> "idle"]
  /\ pid = [i \in Invocations |-> "none"]
  /\ detached = {}
  /\ count = [shells |-> 0, foreign |-> 0, crashes |-> 0]
  /\ contended = FALSE /\ unrecorded = FALSE

(* start_server: a file that is absent or holds no number does not hinder it.  *)
StartRead(i) ==
  /\ pc[i] = "idle"
  /\ Goto(i, IF pidFile \in Pids THEN "start_probe" ELSE "start_spawn")
  /\ pid' = [pid EXCEPT ![i] = IF pidFile \in Pids THEN pidFile ELSE "none"]
  /\ contended' = (contended \/ \E j \in Invocations : Starting(j) \/ Stopping(j))
  /\ UNCHANGED <<pidFile, process, signalled, detached, count, unrecorded>>

(* Mutant: the file names a shell, but nobody looks whether it runs.          *)
StartUnprobed(i) ==
  /\ pc[i] = "start_probe"
  /\ Goto(i, "start_spawn")
  /\ UNCHANGED <<pidFile, process, signalled, pid, detached, count, contended, unrecorded>>

StartProbe(i) ==
  /\ pc[i] = "start_probe"
  /\ Goto(i, IF is_running(pid[i]) THEN "idle" ELSE "start_spawn")
  /\ UNCHANGED <<pidFile, process, signalled, pid, detached, count, contended, unrecorded>>

(* get_start_command finds no script, or no package.json that can be parsed.   *)
StartRefused(i) ==
  /\ pc[i] = "start_spawn"
  /\ Goto(i, "idle")
  /\ UNCHANGED <<pidFile, process, signalled, pid, detached, count, contended, unrecorded>>

StartSpawn(i) ==
  /\ pc[i] = "start_spawn"
  /\ count.shells < MaxStarts
  /\ \E q \in Pids :
       /\ process[q] = "free"
       /\ process' = [process EXCEPT ![q] = "shell"]
       /\ pid' = [pid EXCEPT ![i] = q]
  /\ Goto(i, "start_truncate")
  /\ count' = [count EXCEPT !.shells = @ + 1]
  /\ UNCHANGED <<pidFile, signalled, detached, contended, unrecorded>>

(* write_text opens the file, which empties it, and then writes.               *)
StartTruncate(i) ==
  /\ pc[i] = "start_truncate"
  /\ pidFile' = "empty"
  /\ Goto(i, "start_write")
  /\ UNCHANGED <<process, signalled, pid, detached, count, contended, unrecorded>>

(* What is written to a file that was unlinked meanwhile is lost with it.      *)
StartWrite(i) ==
  /\ pc[i] = "start_write"
  /\ pidFile' = IF i \in detached THEN pidFile ELSE pid[i]
  /\ detached' = detached \ {i}
  /\ Goto(i, "idle")
  /\ UNCHANGED <<process, signalled, pid, count, contended, unrecorded>>

(* stop_server: whatever goes wrong after this, the file is removed.           *)
StopRead(i) ==
  /\ pc[i] = "idle"
  /\ pidFile # "absent"
  /\ Goto(i, IF pidFile \in Pids THEN "stop_probe" ELSE "stop_unlink")
  /\ pid' = [pid EXCEPT ![i] = IF pidFile \in Pids THEN pidFile ELSE "none"]
  /\ contended' = (contended \/ \E j \in Invocations : Starting(j))
  /\ UNCHANGED <<pidFile, process, signalled, detached, count, unrecorded>>

StopProbe(i) ==
  /\ pc[i] = "stop_probe"
  /\ Goto(i, IF is_running(pid[i]) THEN "stop_kill" ELSE "stop_unlink")
  /\ UNCHANGED <<pidFile, process, signalled, pid, detached, count, contended, unrecorded>>

(* SIGTERM reaches the one process of that id: the shell, which may or may not *)
(* end, or the process of another program that has taken the id, which does.   *)
StopKill(i) ==
  /\ pc[i] = "stop_kill"
  /\ signalled' = IF process[pid[i]] = "shell" THEN signalled \cup {pid[i]} ELSE signalled
  /\ process' = IF process[pid[i]] = "foreign" THEN [process EXCEPT ![pid[i]] = "free"] ELSE process
  /\ Goto(i, "stop_unlink")
  /\ UNCHANGED <<pidFile, pid, detached, count, contended, unrecorded>>

(* Mutant: the file stays.                                                     *)
StopKeepsFile(i) ==
  /\ pc[i] = "stop_unlink"
  /\ Goto(i, "idle")
  /\ UNCHANGED <<pidFile, process, signalled, pid, detached, count, contended, unrecorded>>

StopUnlink(i) ==
  /\ pc[i] = "stop_unlink"
  /\ pidFile' = "absent"
  /\ detached' = detached \cup {j \in Invocations : pc[j] = "start_write"}
  /\ Goto(i, "idle")
  /\ UNCHANGED <<process, signalled, pid, count, contended, unrecorded>>

(* The invocation is killed.                                                   *)
Crash(i) ==
  /\ pc[i] # "idle"
  /\ count.crashes < MaxCrashes
  /\ count' = [count EXCEPT !.crashes = @ + 1]
  /\ unrecorded' = (unrecorded \/ pc[i] \in {"start_truncate", "start_write"})
  /\ detached' = detached \ {i}
  /\ Goto(i, "idle")
  /\ UNCHANGED <<pidFile, process, signalled, pid, contended>>

(* A shell ends: of the signal, by itself, or because its command has ended.   *)
ShellExit(q) ==
  /\ process[q] = "shell"
  /\ process' = [process EXCEPT ![q] = "free"]
  /\ signalled' = signalled \ {q}
  /\ UNCHANGED <<pidFile, pc, pid, detached, count, contended, unrecorded>>

ForeignStart(q) ==
  /\ process[q] = "free"
  /\ count.foreign < MaxForeign
  /\ process' = [process EXCEPT ![q] = "foreign"]
  /\ count' = [count EXCEPT !.foreign = @ + 1]
  /\ UNCHANGED <<pidFile, signalled, pc, pid, detached, contended, unrecorded>>

Work(i) ==
  \/ StartProbe(i) \/ StartRefused(i) \/ StartSpawn(i) \/ StartTruncate(i) \/ StartWrite(i)
  \/ StopProbe(i) \/ StopKill(i) \/ StopUnlink(i)

Next ==
  \/ \E i \in Invocations : StartRead(i) \/ StopRead(i) \/ Work(i) \/ Crash(i)
  \/ \E q \in Pids : ShellExit(q) \/ ForeignStart(q)

Spec == Init /\ [][Next]_vars
------------------------------------------------------------------------------
(* Type correctness.                                                           *)
TypeOK ==
  /\ pidFile \in Pids \cup {"absent", "empty"}
  /\ process \in [Pids -> {"free", "shell", "foreign"}]
  /\ signalled \in SUBSET Pids
  /\ pc \in [Invocations -> {"idle", "start_probe", "start_spawn", "start_truncate", "start_write",
                             "stop_probe", "stop_kill", "stop_unlink"}]
  /\ pid \in [Invocations -> Pids \cup {"none"}]
  /\ detached \in SUBSET Invocations
  /\ count \in [shells : Nat, foreign : Nat, crashes : Nat]
  /\ contended \in BOOLEAN /\ unrecorded \in BOOLEAN

Running == {q \in Pids : process[q] = "shell" /\ q \notin signalled}
Recorded == {q \in Pids : pidFile = q}
Held == {pid[i] : i \in {i \in Invocations : pc[i] \in {"start_truncate", "start_write"}}}

(* Unless a start overlapped with another start or a stop, or was killed before *)
(* it had recorded its shell, there is at most one shell that nobody has sent a *)
(* signal, and a stop can reach it: the file names it, or the start under way   *)
(* is about to write its id.  Stops may overlap and be killed anywhere.         *)
ShellIsTracked ==
  ~contended /\ ~unrecorded =>
    Running \subseteq Recorded \cup Held /\ \A q, r \in Running : q = r

(* "Preview already running" names the shell of an earlier start, one that     *)
(* nobody has sent a signal: without contention, with stops that run to their   *)
(* end and with ids that are not taken by other programs.                       *)
RefusalMeansRunning ==
  [][ \A i \in Invocations :
        /\ pc[i] = "start_probe" /\ pc'[i] = "idle"
        /\ ~contended /\ ~unrecorded /\ count'.crashes = 0 /\ count.foreign = 0
        => pid[i] \in Running ]_vars
=============================================================================
