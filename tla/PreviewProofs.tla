---------------------------- MODULE PreviewProofs ----------------------------
(* Proofs about Preview: while starts are alone and record what they started,  *)
(* the shell that runs is the one that the file names (IInv), and the file      *)
(* names none that a stop has signalled, but for that stop (Asking).            *)
EXTENDS Preview, TLAPS

Labels == {"idle", "start_probe", "start_spawn", "start_truncate", "start_write",
           "stop_probe", "stop_kill", "stop_unlink"}
Writing(i) == pc[i] \in {"start_truncate", "start_write"}
Calm == ~contended /\ ~unrecorded

(* An invocation knows an id where it uses one.                                *)
Known ==
  \A i \in Invocations :
    pc[i] \in {"start_probe", "start_truncate", "start_write", "stop_probe", "stop_kill"} =>
      pid[i] \in Pids

(* Only a file that is being written can have been unlinked under the writer.  *)
Detached == \A i \in detached : pc[i] = "start_write"

(* A start has no company.                                                     *)
Alone ==
  \A i, j \in Invocations : Starting(i) /\ (Starting(j) \/ Stopping(j)) => i = j

(* What an invocation may rely on at each of its steps.                        *)
Track(i) ==
  /\ pc[i] = "start_probe" => pid[i] = pidFile
  /\ pc[i] \in {"start_spawn", "stop_unlink"} => Running = {}
  /\ Writing(i) => Running \subseteq {pid[i]} /\ i \notin detached
  /\ pc[i] \in {"stop_probe", "stop_kill"} => Running \subseteq {pid[i]}

(* Unless a start is about to write it down, the file names what runs.         *)
Noted == (\A i \in Invocations : ~Writing(i)) => Running \subseteq {pidFile}

Tracked == Alone /\ Noted /\ \A i \in Invocations : Track(i)

IInv == TypeOK /\ Known /\ Detached /\ (Calm => Tracked)

Counts == [shells : Nat, foreign : Nat, crashes : Nat]

LEMMA Counting ==
  ASSUME NEW c \in Counts
  PROVE  /\ [c EXCEPT !.shells = @ + 1] \in Counts
         /\ [c EXCEPT !.foreign = @ + 1] \in Counts
         /\ [c EXCEPT !.crashes = @ + 1] \in Counts
<1>1. c.shells + 1 \in Nat /\ c.foreign + 1 \in Nat /\ c.crashes + 1 \in Nat BY DEF Counts
<1>2. [c EXCEPT !.shells = @ + 1] \in Counts BY <1>1 DEF Counts
<1>3. [c EXCEPT !.foreign = @ + 1] \in Counts BY <1>1 DEF Counts
<1>4. [c EXCEPT !.crashes = @ + 1] \in Counts BY <1>1 DEF Counts
<1> QED BY <1>2, <1>3, <1>4

LEMMA InitIInv == Init => IInv
<1> SUFFICES ASSUME Init PROVE IInv OBVIOUS
<1>1. TypeOK
  <2>1. contended \in BOOLEAN /\ unrecorded \in BOOLEAN BY Zenon DEF Init
  <2> QED BY <2>1 DEF Init, TypeOK
<1>2. Known /\ Detached BY DEF Init, Known, Detached
<1>3. Running = {} BY DEF Init, Running
<1>4. Alone BY DEF Init, Alone, Starting
<1>5. Noted BY <1>3 DEF Noted
<1>6. \A i \in Invocations : Track(i) BY <1>3 DEF Init, Track, Writing
<1> QED BY <1>1, <1>2, <1>4, <1>5, <1>6 DEF IInv, Tracked

(* The invariant holds what is asked.                                          *)
LEMMA IInvTracks == IInv => ShellIsTracked
<1> SUFFICES ASSUME IInv, Calm PROVE Running \subseteq Recorded \cup Held /\ \A q, r \in Running : q = r
  BY DEF ShellIsTracked, Calm
<1>0. Running \subseteq Pids BY DEF Running
<1>1. CASE \A i \in Invocations : ~Writing(i)
  <2>1. Running \subseteq {pidFile} BY <1>1 DEF IInv, Tracked, Noted
  <2> QED BY <2>1, <1>0 DEF Recorded
<1>2. CASE \E i \in Invocations : Writing(i)
  <2>1. PICK i \in Invocations : Writing(i) BY <1>2
  <2>2. Running \subseteq {pid[i]} BY <2>1 DEF IInv, Tracked, Track
  <2>3. pid[i] \in Held BY <2>1 DEF Held, Writing
  <2> QED BY <2>2, <2>3
<1> QED BY <1>1, <1>2

(* A start that finds no company knows whether something runs.                  *)
LEMMA StartReadStep ==
  ASSUME IInv, NEW i \in Invocations, StartRead(i) PROVE IInv'
<1>0. TypeOK /\ Known /\ Detached /\ (Calm => Tracked) BY DEF IInv
<1>1. TypeOK'
  <2>1. contended' \in BOOLEAN /\ unrecorded' \in BOOLEAN BY <1>0, Zenon DEF TypeOK, StartRead
  <2>2. pc' \in [Invocations -> Labels] BY <1>0 DEF TypeOK, Labels, Goto, StartRead
  <2> QED BY <1>0, <2>1, <2>2 DEF TypeOK, Known, Labels, StartRead
<1>2. Known' BY <1>0 DEF TypeOK, Known, Goto, StartRead
<1>3. Detached' BY <1>0 DEF TypeOK, Detached, Goto, StartRead
<1>4. ASSUME Calm' PROVE Tracked'
  <2>1. Tracked BY <1>0, <1>4 DEF Calm, StartRead
  <2>2. \A j \in Invocations : ~Starting(j) /\ ~Stopping(j) BY <1>4 DEF Calm, StartRead
  <2>3. Alone' BY <1>0, <2>2 DEF TypeOK, Alone, Starting, Stopping, Goto, StartRead
  <2>4. Running' = Running BY DEF Running, StartRead
  <2>5. Running \subseteq {pidFile} BY <2>1, <2>2 DEF Tracked, Noted, Writing, Starting
  <2>6. pidFile \notin Pids => Running = {} BY <2>5 DEF Running
  <2>7. Noted' BY <2>4, <2>5 DEF Noted, StartRead
  <2>8. \A j \in Invocations : Track(j)'
    <3> SUFFICES ASSUME NEW j \in Invocations PROVE Track(j)' OBVIOUS
    <3>1. CASE j = i BY <1>0, <3>1, <2>4, <2>6 DEF TypeOK, Track, Writing, Goto, StartRead
    <3>2. CASE j # i BY <1>0, <3>2, <2>2, <2>4 DEF TypeOK, Track, Writing, Starting, Stopping, Goto, StartRead
    <3> QED BY <3>1, <3>2
  <2> QED BY <2>3, <2>7, <2>8 DEF Tracked
<1> QED BY <1>1, <1>2, <1>3, <1>4 DEF IInv

LEMMA StartProbeStep ==
  ASSUME IInv, NEW i \in Invocations, StartProbe(i) PROVE IInv'
<1>0. TypeOK /\ Known /\ Detached /\ (Calm => Tracked) BY DEF IInv
<1>1. TypeOK'
  <2>1. contended' \in BOOLEAN /\ unrecorded' \in BOOLEAN BY <1>0, Zenon DEF TypeOK, StartProbe
  <2>2. pc' \in [Invocations -> Labels] BY <1>0 DEF TypeOK, Labels, Goto, StartProbe
  <2> QED BY <1>0, <2>1, <2>2 DEF TypeOK, Known, Labels, StartProbe
<1>2. Known' BY <1>0 DEF TypeOK, Known, Goto, StartProbe
<1>3. Detached' BY <1>0 DEF TypeOK, Detached, Goto, StartProbe
<1>4. ASSUME Calm' PROVE Tracked'
  <2>1. Tracked BY <1>0, <1>4 DEF Calm, StartProbe
  <2>2. \A j \in Invocations : j # i => ~Starting(j) /\ ~Stopping(j)
    BY <2>1 DEF Tracked, Alone, Starting, StartProbe
  <2>3. Alone'
    <3>1. \A j \in Invocations : j # i => ~Starting(j)' /\ ~Stopping(j)'
      BY <1>0, <2>2 DEF TypeOK, Starting, Stopping, Goto, StartProbe
    <3>2. ~Stopping(i)' BY <1>0 DEF TypeOK, Stopping, Goto, StartProbe
    <3> QED BY <3>1, <3>2 DEF Alone
  <2>4. Running' = Running BY DEF Running, StartProbe
  <2>5. Running \subseteq {pid[i]} BY <2>1, <2>2 DEF Tracked, Noted, Track, Writing, Starting, StartProbe
  <2>6. ~is_running(pid[i]) => Running = {} BY <2>5 DEF Running, is_running
  <2>7. Noted'
    <3>1. pid[i] = pidFile BY <2>1 DEF Tracked, Track, StartProbe
    <3> QED BY <3>1, <2>4, <2>5 DEF Noted, StartProbe
  <2>8. \A j \in Invocations : Track(j)'
    <3> SUFFICES ASSUME NEW j \in Invocations PROVE Track(j)' OBVIOUS
    <3>1. CASE j = i BY <1>0, <3>1, <2>4, <2>6 DEF TypeOK, Track, Writing, Goto, StartProbe
    <3>2. CASE j # i BY <1>0, <3>2, <2>2, <2>4 DEF TypeOK, Track, Writing, Starting, Stopping, Goto, StartProbe
    <3> QED BY <3>1, <3>2
  <2> QED BY <2>3, <2>7, <2>8 DEF Tracked
<1> QED BY <1>1, <1>2, <1>3, <1>4 DEF IInv

LEMMA StartRefusedStep ==
  ASSUME IInv, NEW i \in Invocations, StartRefused(i) PROVE IInv'
<1>0. TypeOK /\ Known /\ Detached /\ (Calm => Tracked) BY DEF IInv
<1>1. TypeOK'
  <2>1. contended' \in BOOLEAN /\ unrecorded' \in BOOLEAN BY <1>0, Zenon DEF TypeOK, StartRefused
  <2>2. pc' \in [Invocations -> Labels] BY <1>0 DEF TypeOK, Labels, Goto, StartRefused
  <2> QED BY <1>0, <2>1, <2>2 DEF TypeOK, Known, Labels, StartRefused
<1>2. Known' BY <1>0 DEF TypeOK, Known, Goto, StartRefused
<1>3. Detached' BY <1>0 DEF TypeOK, Detached, Goto, StartRefused
<1>4. ASSUME Calm' PROVE Tracked'
  <2>1. Tracked BY <1>0, <1>4 DEF Calm, StartRefused
  <2>2. \A j \in Invocations : j # i => ~Starting(j) /\ ~Stopping(j)
    BY <2>1 DEF Tracked, Alone, Starting, StartRefused
  <2>3. Alone' BY <1>0, <2>2 DEF TypeOK, Alone, Starting, Stopping, Goto, StartRefused
  <2>4. Running' = {} BY <2>1 DEF Running, Tracked, Track, StartRefused
  <2>5. Noted' BY <2>4 DEF Noted
  <2>6. \A j \in Invocations : Track(j)'
    <3> SUFFICES ASSUME NEW j \in Invocations PROVE Track(j)' OBVIOUS
    <3>1. CASE j = i BY <1>0, <3>1 DEF TypeOK, Track, Writing, Goto, StartRefused
    <3>2. CASE j # i BY <1>0, <3>2, <2>2, <2>4 DEF TypeOK, Track, Writing, Starting, Stopping, Goto, StartRefused
    <3> QED BY <3>1, <3>2
  <2> QED BY <2>3, <2>5, <2>6 DEF Tracked
<1> QED BY <1>1, <1>2, <1>3, <1>4 DEF IInv

(* Nothing runs when a shell is spawned.                                       *)
LEMMA StartSpawnStep ==
  ASSUME IInv, NEW i \in Invocations, StartSpawn(i) PROVE IInv'
<1>0. TypeOK /\ Known /\ Detached /\ (Calm => Tracked) BY DEF IInv
<1>1. TypeOK'
  <2>1. contended' \in BOOLEAN /\ unrecorded' \in BOOLEAN BY <1>0, Zenon DEF TypeOK, StartSpawn
  <2>2. pc' \in [Invocations -> Labels] BY <1>0 DEF TypeOK, Labels, Goto, StartSpawn
  <2>3. pid' \in [Invocations -> Pids \cup {"none"}] BY <1>0 DEF TypeOK, StartSpawn
  <2>4. process' \in [Pids -> {"free", "shell", "foreign"}] BY <1>0 DEF TypeOK, StartSpawn
  <2>5. count' \in Counts BY <1>0, Counting DEF TypeOK, Counts, StartSpawn
  <2> QED BY <1>0, <2>1, <2>2, <2>3, <2>4, <2>5 DEF TypeOK, Labels, Counts, StartSpawn
<1>2. Known'
  <2> SUFFICES ASSUME NEW j \in Invocations,
                      pc'[j] \in {"start_probe", "start_truncate", "start_write", "stop_probe", "stop_kill"}
               PROVE  pid'[j] \in Pids
    BY DEF Known
  <2>1. PICK q \in Pids : pid' = [pid EXCEPT ![i] = q] BY DEF StartSpawn
  <2>2. CASE j = i BY <1>0, <2>1, <2>2 DEF TypeOK
  <2>3. CASE j # i
    <3>1. pc'[j] = pc[j] /\ pid'[j] = pid[j] BY <1>0, <2>1, <2>3 DEF TypeOK, Goto, StartSpawn
    <3> QED BY <1>0, <3>1 DEF Known
  <2> QED BY <2>2, <2>3
<1>3. Detached' BY <1>0 DEF TypeOK, Detached, Goto, StartSpawn
<1>4. ASSUME Calm' PROVE Tracked'
  <2>1. Tracked BY <1>0, <1>4 DEF Calm, StartSpawn
  <2>2. \A j \in Invocations : j # i => ~Starting(j) /\ ~Stopping(j)
    BY <2>1 DEF Tracked, Alone, Starting, StartSpawn
  <2>3. Alone' BY <1>0, <2>2 DEF TypeOK, Alone, Starting, Stopping, Goto, StartSpawn
  <2>4. Running' \subseteq {pid'[i]}
    <3>1. Running = {} BY <2>1 DEF Tracked, Track, StartSpawn
    <3> QED BY <1>0, <3>1 DEF TypeOK, Running, StartSpawn
  <2>5. i \notin detached' BY <1>0 DEF Detached, StartSpawn
  <2>6. pc'[i] = "start_truncate" BY <1>0 DEF TypeOK, Goto, StartSpawn
  <2>7. Noted' BY <2>6 DEF Noted, Writing
  <2>8. \A j \in Invocations : Track(j)'
    <3> SUFFICES ASSUME NEW j \in Invocations PROVE Track(j)' OBVIOUS
    <3>1. CASE j = i BY <3>1, <2>4, <2>5, <2>6 DEF Track, Writing
    <3>2. CASE j # i BY <1>0, <3>2, <2>2 DEF TypeOK, Track, Writing, Starting, Stopping, Goto, StartSpawn
    <3> QED BY <3>1, <3>2
  <2> QED BY <2>3, <2>7, <2>8 DEF Tracked
<1> QED BY <1>1, <1>2, <1>3, <1>4 DEF IInv

LEMMA StartTruncateStep ==
  ASSUME IInv, NEW i \in Invocations, StartTruncate(i) PROVE IInv'
<1>0. TypeOK /\ Known /\ Detached /\ (Calm => Tracked) BY DEF IInv
<1>1. TypeOK'
  <2>1. contended' \in BOOLEAN /\ unrecorded' \in BOOLEAN BY <1>0, Zenon DEF TypeOK, StartTruncate
  <2>2. pc' \in [Invocations -> Labels] BY <1>0 DEF TypeOK, Labels, Goto, StartTruncate
  <2> QED BY <1>0, <2>1, <2>2 DEF TypeOK, Known, Labels, StartTruncate
<1>2. Known' BY <1>0 DEF TypeOK, Known, Goto, StartTruncate
<1>3. Detached' BY <1>0 DEF TypeOK, Detached, Goto, StartTruncate
<1>4. ASSUME Calm' PROVE Tracked'
  <2>1. Tracked BY <1>0, <1>4 DEF Calm, StartTruncate
  <2>2. \A j \in Invocations : j # i => ~Starting(j) /\ ~Stopping(j)
    BY <2>1 DEF Tracked, Alone, Starting, StartTruncate
  <2>3. Alone' BY <1>0, <2>2 DEF TypeOK, Alone, Starting, Stopping, Goto, StartTruncate
  <2>4. Running' \subseteq {pid'[i]} /\ i \notin detached'
    BY <2>1 DEF Tracked, Track, Writing, Running, StartTruncate
  <2>5. pc'[i] = "start_write" BY <1>0 DEF TypeOK, Goto, StartTruncate
  <2>6. Noted' BY <2>5 DEF Noted, Writing
  <2>7. \A j \in Invocations : Track(j)'
    <3> SUFFICES ASSUME NEW j \in Invocations PROVE Track(j)' OBVIOUS
    <3>1. CASE j = i BY <3>1, <2>4, <2>5 DEF Track, Writing
    <3>2. CASE j # i BY <1>0, <3>2, <2>2 DEF TypeOK, Track, Writing, Starting, Stopping, Goto, StartTruncate
    <3> QED BY <3>1, <3>2
  <2> QED BY <2>3, <2>6, <2>7 DEF Tracked
<1> QED BY <1>1, <1>2, <1>3, <1>4 DEF IInv

(* The file that is written is the one that is there.                          *)
LEMMA StartWriteStep ==
  ASSUME IInv, NEW i \in Invocations, StartWrite(i) PROVE IInv'
<1>0. TypeOK /\ Known /\ Detached /\ (Calm => Tracked) BY DEF IInv
<1>1. TypeOK'
  <2>1. contended' \in BOOLEAN /\ unrecorded' \in BOOLEAN BY <1>0, Zenon DEF TypeOK, StartWrite
  <2>2. pc' \in [Invocations -> Labels] BY <1>0 DEF TypeOK, Labels, Goto, StartWrite
  <2> QED BY <1>0, <2>1, <2>2 DEF TypeOK, Known, Labels, StartWrite
<1>2. Known' BY <1>0 DEF TypeOK, Known, Goto, StartWrite
<1>3. Detached' BY <1>0 DEF TypeOK, Detached, Goto, StartWrite
<1>4. ASSUME Calm' PROVE Tracked'
  <2>1. Tracked BY <1>0, <1>4 DEF Calm, StartWrite
  <2>2. \A j \in Invocations : j # i => ~Starting(j) /\ ~Stopping(j)
    BY <2>1 DEF Tracked, Alone, Starting, StartWrite
  <2>3. Alone' BY <1>0, <2>2 DEF TypeOK, Alone, Starting, Stopping, Goto, StartWrite
  <2>4. Running' \subseteq {pidFile'}
    BY <2>1 DEF Tracked, Track, Writing, Running, StartWrite
  <2>5. pc'[i] = "idle" BY <1>0 DEF TypeOK, Goto, StartWrite
  <2>6. Noted' BY <2>4 DEF Noted
  <2>7. \A j \in Invocations : Track(j)'
    <3> SUFFICES ASSUME NEW j \in Invocations PROVE Track(j)' OBVIOUS
    <3>1. CASE j = i BY <3>1, <2>5 DEF Track, Writing
    <3>2. CASE j # i BY <1>0, <3>2, <2>2 DEF TypeOK, Track, Writing, Starting, Stopping, Goto, StartWrite
    <3> QED BY <3>1, <3>2
  <2> QED BY <2>3, <2>6, <2>7 DEF Tracked
<1> QED BY <1>1, <1>2, <1>3, <1>4 DEF IInv

LEMMA StopReadStep ==
  ASSUME IInv, NEW i \in Invocations, StopRead(i) PROVE IInv'
<1>0. TypeOK /\ Known /\ Detached /\ (Calm => Tracked) BY DEF IInv
<1>1. TypeOK'
  <2>1. contended' \in BOOLEAN /\ unrecorded' \in BOOLEAN BY <1>0, Zenon DEF TypeOK, StopRead
  <2>2. pc' \in [Invocations -> Labels] BY <1>0 DEF TypeOK, Labels, Goto, StopRead
  <2> QED BY <1>0, <2>1, <2>2 DEF TypeOK, Known, Labels, StopRead
<1>2. Known' BY <1>0 DEF TypeOK, Known, Goto, StopRead
<1>3. Detached' BY <1>0 DEF TypeOK, Detached, Goto, StopRead
<1>4. ASSUME Calm' PROVE Tracked'
  <2>1. Tracked BY <1>0, <1>4 DEF Calm, StopRead
  <2>2. \A j \in Invocations : ~Starting(j)
    BY <1>4 DEF Calm, StopRead
  <2>3. \A j \in Invocations : ~Starting(j)' /\ ~Writing(j)'
    BY <1>0, <2>2 DEF TypeOK, Starting, Writing, Goto, StopRead
  <2>4. Alone' BY <2>3 DEF Alone
  <2>5. Running' = Running BY DEF Running, StopRead
  <2>6. Running' \subseteq {pidFile} /\ (pidFile \notin Pids => Running' = {})
    BY <2>1, <2>2, <2>5 DEF Tracked, Noted, Writing, Starting, Running
  <2>7. Noted' BY <2>6 DEF Noted, StopRead
  <2>8. \A j \in Invocations : Track(j)'
    <3> SUFFICES ASSUME NEW j \in Invocations PROVE Track(j)' OBVIOUS
    <3>0. Track(j) BY <2>1 DEF Tracked
    <3>1. CASE j = i BY <1>0, <3>1, <2>3, <2>5, <2>6 DEF TypeOK, Writing, Track, Goto, StopRead
    <3>2. CASE j # i BY <1>0, <3>0, <3>2, <2>2, <2>3, <2>5, <2>6 DEF TypeOK, Track, Starting, Goto, StopRead
    <3> QED BY <3>1, <3>2
  <2> QED BY <2>4, <2>7, <2>8 DEF Tracked
<1> QED BY <1>1, <1>2, <1>3, <1>4 DEF IInv

LEMMA StopProbeStep ==
  ASSUME IInv, NEW i \in Invocations, StopProbe(i) PROVE IInv'
<1>0. TypeOK /\ Known /\ Detached /\ (Calm => Tracked) BY DEF IInv
<1>1. TypeOK'
  <2>1. contended' \in BOOLEAN /\ unrecorded' \in BOOLEAN BY <1>0, Zenon DEF TypeOK, StopProbe
  <2>2. pc' \in [Invocations -> Labels] BY <1>0 DEF TypeOK, Labels, Goto, StopProbe
  <2> QED BY <1>0, <2>1, <2>2 DEF TypeOK, Known, Labels, StopProbe
<1>2. Known' BY <1>0 DEF TypeOK, Known, Goto, StopProbe
<1>3. Detached' BY <1>0 DEF TypeOK, Detached, Goto, StopProbe
<1>4. ASSUME Calm' PROVE Tracked'
  <2>1. Tracked BY <1>0, <1>4 DEF Calm, StopProbe
  <2>2. \A j \in Invocations : ~Starting(j)
    BY <2>1 DEF Tracked, Alone, Starting, Stopping, StopProbe
  <2>3. \A j \in Invocations : ~Starting(j)' /\ ~Writing(j)'
    BY <1>0, <2>2 DEF TypeOK, Starting, Writing, Goto, StopProbe
  <2>4. Alone' BY <2>3 DEF Alone
  <2>5. Running' = Running BY DEF Running, StopProbe
  <2>6. /\ Running' \subseteq {pidFile} /\ Running' \subseteq {pid[i]}
        /\ ~is_running(pid[i]) => Running' = {}
    BY <2>1, <2>2, <2>5 DEF Tracked, Noted, Track, Writing, Starting, Running, is_running, StopProbe
  <2>7. Noted' BY <2>6 DEF Noted, StopProbe
  <2>8. \A j \in Invocations : Track(j)'
    <3> SUFFICES ASSUME NEW j \in Invocations PROVE Track(j)' OBVIOUS
    <3>0. Track(j) BY <2>1 DEF Tracked
    <3>1. CASE j = i BY <1>0, <3>1, <2>3, <2>5, <2>6 DEF TypeOK, Writing, Track, Goto, StopProbe
    <3>2. CASE j # i BY <1>0, <3>0, <3>2, <2>2, <2>3, <2>5, <2>6 DEF TypeOK, Track, Starting, Goto, StopProbe
    <3> QED BY <3>1, <3>2
  <2> QED BY <2>4, <2>7, <2>8 DEF Tracked
<1> QED BY <1>1, <1>2, <1>3, <1>4 DEF IInv

(* What a stop has found running is asked to end before the file goes.         *)
LEMMA StopKillStep ==
  ASSUME IInv, NEW i \in Invocations, StopKill(i) PROVE IInv'
<1>0. TypeOK /\ Known /\ Detached /\ (Calm => Tracked) BY DEF IInv
<1>1. TypeOK'
  <2>1. contended' \in BOOLEAN /\ unrecorded' \in BOOLEAN BY <1>0, Zenon DEF TypeOK, StopKill
  <2>2. pc' \in [Invocations -> Labels] BY <1>0 DEF TypeOK, Labels, Goto, StopKill
  <2> QED BY <1>0, <2>1, <2>2 DEF TypeOK, Known, Labels, StopKill
<1>2. Known' BY <1>0 DEF TypeOK, Known, Goto, StopKill
<1>3. Detached' BY <1>0 DEF TypeOK, Detached, Goto, StopKill
<1>4. ASSUME Calm' PROVE Tracked'
  <2>1. Tracked BY <1>0, <1>4 DEF Calm, StopKill
  <2>2. \A j \in Invocations : ~Starting(j)
    BY <2>1 DEF Tracked, Alone, Starting, Stopping, StopKill
  <2>3. \A j \in Invocations : ~Starting(j)' /\ ~Writing(j)'
    BY <1>0, <2>2 DEF TypeOK, Starting, Writing, Goto, StopKill
  <2>4. Alone' BY <2>3 DEF Alone
  <2>5. Running' \subseteq Running
    BY <1>0 DEF TypeOK, Known, Running, StopKill
  <2>6. Running' = {}
    <3>1. Running \subseteq {pid[i]} BY <2>1 DEF Tracked, Track, StopKill
    <3>2. pid[i] \notin Running' BY <1>0 DEF TypeOK, Known, Running, StopKill
    <3> QED BY <2>5, <3>1, <3>2
  <2>7. Noted' BY <2>6 DEF Noted
  <2>8. \A j \in Invocations : Track(j)'
    <3> SUFFICES ASSUME NEW j \in Invocations PROVE Track(j)' OBVIOUS
    <3>0. Track(j) BY <2>1 DEF Tracked
    <3>1. CASE j = i BY <1>0, <3>1, <2>3, <2>5, <2>6 DEF TypeOK, Writing, Track, Goto, StopKill
    <3>2. CASE j # i BY <1>0, <3>0, <3>2, <2>2, <2>3, <2>5, <2>6 DEF TypeOK, Track, Starting, Goto, StopKill
    <3> QED BY <3>1, <3>2
  <2> QED BY <2>4, <2>7, <2>8 DEF Tracked
<1> QED BY <1>1, <1>2, <1>3, <1>4 DEF IInv

LEMMA StopUnlinkStep ==
  ASSUME IInv, NEW i \in Invocations, StopUnlink(i) PROVE IInv'
<1>0. TypeOK /\ Known /\ Detached /\ (Calm => Tracked) BY DEF IInv
<1>1. TypeOK'
  <2>1. contended' \in BOOLEAN /\ unrecorded' \in BOOLEAN BY <1>0, Zenon DEF TypeOK, StopUnlink
  <2>2. pc' \in [Invocations -> Labels] BY <1>0 DEF TypeOK, Labels, Goto, StopUnlink
  <2> QED BY <1>0, <2>1, <2>2 DEF TypeOK, Known, Labels, StopUnlink
<1>2. Known' BY <1>0 DEF TypeOK, Known, Goto, StopUnlink
<1>3. Detached' BY <1>0 DEF TypeOK, Detached, Goto, StopUnlink
<1>4. ASSUME Calm' PROVE Tracked'
  <2>1. Tracked BY <1>0, <1>4 DEF Calm, StopUnlink
  <2>2. \A j \in Invocations : ~Starting(j)
    BY <2>1 DEF Tracked, Alone, Starting, Stopping, StopUnlink
  <2>3. \A j \in Invocations : ~Starting(j)' /\ ~Writing(j)'
    BY <1>0, <2>2 DEF TypeOK, Starting, Writing, Goto, StopUnlink
  <2>4. Alone' BY <2>3 DEF Alone
  <2>5. Running' = Running BY DEF Running, StopUnlink
  <2>6. Running' = {} BY <2>1, <2>5 DEF Tracked, Track, StopUnlink
  <2>7. Noted' BY <2>6 DEF Noted
  <2>8. \A j \in Invocations : Track(j)'
    <3> SUFFICES ASSUME NEW j \in Invocations PROVE Track(j)' OBVIOUS
    <3>0. Track(j) BY <2>1 DEF Tracked
    <3>1. CASE j = i BY <1>0, <3>1, <2>3, <2>5, <2>6 DEF TypeOK, Writing, Track, Goto, StopUnlink
    <3>2. CASE j # i BY <1>0, <3>0, <3>2, <2>2, <2>3, <2>5, <2>6 DEF TypeOK, Track, Starting, Goto, StopUnlink
    <3> QED BY <3>1, <3>2
  <2> QED BY <2>4, <2>7, <2>8 DEF Tracked
<1> QED BY <1>1, <1>2, <1>3, <1>4 DEF IInv

LEMMA CrashStep ==
  ASSUME IInv, NEW i \in Invocations, Crash(i) PROVE IInv'
<1>0. TypeOK /\ Known /\ Detached /\ (Calm => Tracked) BY DEF IInv
<1>1. TypeOK'
  <2>1. contended' \in BOOLEAN /\ unrecorded' \in BOOLEAN BY <1>0, Zenon DEF TypeOK, Crash
  <2>2. pc' \in [Invocations -> Labels] BY <1>0 DEF TypeOK, Labels, Goto, Crash
  <2>3. count' \in Counts BY <1>0, Counting DEF TypeOK, Counts, Crash
  <2> QED BY <1>0, <2>1, <2>2, <2>3 DEF TypeOK, Labels, Counts, Crash
<1>2. Known' BY <1>0 DEF TypeOK, Known, Goto, Crash
<1>3. Detached' BY <1>0 DEF TypeOK, Detached, Goto, Crash
<1>4. ASSUME Calm' PROVE Tracked'
  <2>1. Tracked /\ ~Writing(i) BY <1>0, <1>4 DEF Calm, Writing, Crash
  <2>2. Running' = Running BY DEF Running, Crash
  <2>3. pc'[i] = "idle" /\ \A j \in Invocations : j # i => pc'[j] = pc[j]
    BY <1>0 DEF TypeOK, Goto, Crash
  <2>4. Alone' BY <2>1, <2>3 DEF Tracked, Alone, Starting, Stopping
  <2>5. Noted' BY <2>1, <2>2, <2>3 DEF Tracked, Noted, Writing, Crash
  <2>6. \A j \in Invocations : Track(j)' BY <2>1, <2>2, <2>3 DEF Tracked, Track, Writing, Crash
  <2> QED BY <2>4, <2>5, <2>6 DEF Tracked
<1> QED BY <1>1, <1>2, <1>3, <1>4 DEF IInv

(* What is not an invocation makes no shell run.                               *)
LEMMA ProcessStep ==
  ASSUME IInv, NEW q \in Pids, ShellExit(q) \/ ForeignStart(q) PROVE IInv'
<1>0. TypeOK /\ Known /\ Detached /\ (Calm => Tracked) BY DEF IInv
<1>1. TypeOK'
  <2>1. contended' \in BOOLEAN /\ unrecorded' \in BOOLEAN BY <1>0, Zenon DEF TypeOK, ShellExit, ForeignStart
  <2>2. process' \in [Pids -> {"free", "shell", "foreign"}] BY <1>0 DEF TypeOK, ShellExit, ForeignStart
  <2>3. count' \in Counts BY <1>0, Counting DEF TypeOK, Counts, ShellExit, ForeignStart
  <2> QED BY <1>0, <2>1, <2>2, <2>3 DEF TypeOK, Counts, ShellExit, ForeignStart
<1>2. Known' BY <1>0 DEF Known, ShellExit, ForeignStart
<1>3. Detached' BY <1>0 DEF Detached, ShellExit, ForeignStart
<1>4. ASSUME Calm' PROVE Tracked'
  <2>1. Tracked BY <1>0, <1>4 DEF Calm, ShellExit, ForeignStart
  <2>2. Running' \subseteq Running BY <1>0 DEF TypeOK, Running, ShellExit, ForeignStart
  <2>3. pc' = pc /\ pid' = pid /\ pidFile' = pidFile /\ detached' = detached BY DEF ShellExit, ForeignStart
  <2>4. Alone' BY <2>1, <2>3 DEF Tracked, Alone, Starting, Stopping
  <2>5. Noted' BY <2>1, <2>2, <2>3 DEF Tracked, Noted, Writing
  <2>6. \A j \in Invocations : Track(j)' BY <2>1, <2>2, <2>3 DEF Tracked, Track, Writing
  <2> QED BY <2>4, <2>5, <2>6 DEF Tracked
<1> QED BY <1>1, <1>2, <1>3, <1>4 DEF IInv

LEMMA StutterStep == ASSUME IInv, UNCHANGED vars PROVE IInv'
<1>0. TypeOK /\ Known /\ Detached /\ (Calm => Tracked) BY DEF IInv
<1>1. TypeOK' /\ Known' /\ Detached' BY <1>0 DEF vars, TypeOK, Known, Detached
<1>2. ASSUME Calm' PROVE Tracked'
  <2>1. Tracked BY <1>0, <1>2 DEF Calm, vars
  <2> QED BY <2>1 DEF Tracked, Alone, Noted, Track, Writing, Starting, Stopping, Running, vars
<1> QED BY <1>1, <1>2 DEF IInv

LEMMA NextIInv == IInv /\ [Next]_vars => IInv'
<1> SUFFICES ASSUME IInv, [Next]_vars PROVE IInv' OBVIOUS
<1>1. ASSUME NEW i \in Invocations, Work(i) PROVE IInv'
  BY <1>1, StartProbeStep, StartRefusedStep, StartSpawnStep, StartTruncateStep, StartWriteStep,
     StopProbeStep, StopKillStep, StopUnlinkStep DEF Work
<1>2. ASSUME NEW i \in Invocations, StartRead(i) \/ StopRead(i) \/ Crash(i) PROVE IInv'
  BY <1>2, StartReadStep, StopReadStep, CrashStep
<1>3. ASSUME NEW q \in Pids, ShellExit(q) \/ ForeignStart(q) PROVE IInv'
  BY <1>3, ProcessStep
<1> QED BY <1>1, <1>2, <1>3, StutterStep DEF Next

LEMMA InvariantHolds == Spec => []IInv
BY InitIInv, NextIInv, PTL DEF Spec

(* Ids, labels and counters have their types.                                  *)
THEOREM TypeCorrect == Spec => []TypeOK
<1>1. IInv => TypeOK BY DEF IInv
<1> QED BY <1>1, InvariantHolds, PTL

(* For any number of invocations, ids, crashes and foreign processes: unless    *)
(* starts meet other invocations or are killed before they have recorded their  *)
(* shell, one shell that nobody has signalled runs at most, and a stop will     *)
(* find it (auto_preview.py start_server and stop_server).                      *)
THEOREM LiveShellIsTracked == Spec => []ShellIsTracked
BY InvariantHolds, IInvTracks, PTL

-------------------------------------------------------------------------------
(* What has been sent a signal.  A shell that a stop has signalled is in the    *)
(* file only until that stop removes it, and a start never writes down one.     *)
Unasked ==
  /\ (\A j \in Invocations : pc[j] # "stop_unlink") => pidFile \notin signalled
  /\ \A j \in Invocations : Writing(j) => pid[j] \notin signalled

Uninterrupted == Calm /\ count.crashes = 0

Asking ==
  /\ \A q \in signalled : process[q] = "shell"
  /\ count.foreign = 0 => \A q \in Pids : process[q] # "foreign"
  /\ Uninterrupted => Unasked

LEMMA InitAsking == Init => Asking
BY DEF Init, Asking, Unasked, Writing

(* Only a stop signals, and only a spawn makes a shell.                        *)
LEMMA ShellsAsked ==
  ASSUME IInv, Asking, [Next]_vars
  PROVE  \A q \in signalled' : process'[q] = "shell"
<1>0. TypeOK /\ Known BY DEF IInv
<1>1. \A q \in signalled : q \in Pids /\ process[q] = "shell" BY <1>0 DEF Asking, TypeOK
<1>2. ASSUME NEW i \in Invocations, StartSpawn(i) PROVE \A q \in signalled' : process'[q] = "shell"
  BY <1>0, <1>1, <1>2 DEF StartSpawn, TypeOK
<1>3. ASSUME NEW i \in Invocations, StopKill(i) PROVE \A q \in signalled' : process'[q] = "shell"
  <2>1. pid[i] \in Pids BY <1>0, <1>3 DEF Known, StopKill
  <2>2. CASE process[pid[i]] = "shell"
    BY <1>1, <1>3, <2>2 DEF StopKill
  <2>3. CASE process[pid[i]] # "shell"
    <3>1. signalled' = signalled /\ pid[i] \notin signalled BY <1>1, <1>3, <2>3 DEF StopKill
    <3>2. \A q \in Pids : q # pid[i] => process'[q] = process[q]
      BY <1>0, <1>3, <2>1 DEF StopKill, TypeOK
    <3> QED BY <1>1, <3>1, <3>2
  <2> QED BY <2>2, <2>3
<1>4. ASSUME NEW q \in Pids, ShellExit(q) PROVE \A r \in signalled' : process'[r] = "shell"
  BY <1>0, <1>1, <1>4 DEF ShellExit, TypeOK
<1>5. ASSUME NEW q \in Pids, ForeignStart(q) PROVE \A r \in signalled' : process'[r] = "shell"
  BY <1>0, <1>1, <1>5 DEF ForeignStart, TypeOK
<1>6. ASSUME UNCHANGED <<process, signalled>> PROVE \A q \in signalled' : process'[q] = "shell"
  BY <1>1, <1>6
<1> QED BY <1>2, <1>3, <1>4, <1>5, <1>6 DEF Next, Work, vars, StartRead, StartProbe, StartRefused,
                                         StartTruncate, StartWrite, StopRead, StopProbe, StopUnlink, Crash

(* No other program has taken an id unless one is counted.                     *)
LEMMA ForeignCounted ==
  ASSUME IInv, Asking, [Next]_vars, count'.foreign = 0
  PROVE  \A q \in Pids : process'[q] # "foreign"
<1>0. TypeOK /\ Known BY DEF IInv
<1>1. count.foreign = 0 => \A q \in Pids : process[q] # "foreign" BY DEF Asking
<1>2. ASSUME NEW i \in Invocations, StartSpawn(i) PROVE \A q \in Pids : process'[q] # "foreign"
  <2>1. count.foreign = 0 BY <1>0, <1>2 DEF StartSpawn, TypeOK
  <2> QED BY <1>0, <1>1, <1>2, <2>1 DEF StartSpawn, TypeOK
<1>3. ASSUME NEW i \in Invocations, StopKill(i) PROVE \A q \in Pids : process'[q] # "foreign"
  BY <1>0, <1>1, <1>3 DEF StopKill, TypeOK, Known
<1>4. ASSUME NEW q \in Pids, ShellExit(q) PROVE \A r \in Pids : process'[r] # "foreign"
  BY <1>0, <1>1, <1>4 DEF ShellExit, TypeOK
<1>5. ASSUME NEW q \in Pids, ForeignStart(q) PROVE FALSE
  <2>1. count.foreign \in Nat /\ count'.foreign = count.foreign + 1 BY <1>0, <1>5 DEF ForeignStart, TypeOK
  <2> QED BY <2>1
<1>6. ASSUME NEW i \in Invocations, Crash(i) PROVE \A q \in Pids : process'[q] # "foreign"
  <2>1. count.foreign = 0 /\ process' = process BY <1>0, <1>6 DEF Crash, TypeOK
  <2> QED BY <1>1, <2>1
<1>7. ASSUME UNCHANGED <<process, count>> PROVE \A q \in Pids : process'[q] # "foreign"
  BY <1>1, <1>7
<1> QED BY <1>2, <1>3, <1>4, <1>5, <1>6, <1>7 DEF Next, Work, vars, StartRead, StartProbe, StartRefused,
                                         StartTruncate, StartWrite, StopRead, StopProbe, StopUnlink

(* A stop that has asked removes the file before a start can read it.          *)
LEMMA UnaskedStep ==
  ASSUME IInv, Asking, [Next]_vars, Uninterrupted'
  PROVE  Unasked'
<1>0. TypeOK /\ Known BY DEF IInv
<1>1. Calm /\ count.crashes = 0 /\ \A i \in Invocations : ~Crash(i)
  <2>1. ASSUME NEW i \in Invocations, Crash(i) PROVE FALSE
    <3>1. count.crashes \in Nat /\ count'.crashes = count.crashes + 1 BY <1>0, <2>1 DEF Crash, TypeOK
    <3> QED BY <3>1 DEF Uninterrupted
  <2>2. contended => contended'
    BY Zenon DEF Next, Work, vars, StartRead, StartProbe, StartRefused, StartSpawn, StartTruncate,
         StartWrite, StopRead, StopProbe, StopKill, StopUnlink, Crash, ShellExit, ForeignStart
  <2>3. unrecorded => unrecorded'
    BY Zenon DEF Next, Work, vars, StartRead, StartProbe, StartRefused, StartSpawn, StartTruncate,
         StartWrite, StopRead, StopProbe, StopKill, StopUnlink, Crash, ShellExit, ForeignStart
  <2>4. count'.crashes = count.crashes
    BY <1>0, <2>1 DEF TypeOK, Next, Work, vars, StartRead, StartProbe, StartRefused, StartSpawn, StartTruncate,
         StartWrite, StopRead, StopProbe, StopKill, StopUnlink, ShellExit, ForeignStart
  <2> QED BY <2>1, <2>2, <2>3, <2>4 DEF Uninterrupted, Calm
<1>2. Unasked /\ Tracked BY <1>1 DEF IInv, Asking, Uninterrupted
<1>3. ASSUME NEW i \in Invocations, StartRead(i) \/ StartProbe(i) \/ StartRefused(i) PROVE Unasked'
  BY <1>0, <1>2, <1>3 DEF Unasked, Writing, TypeOK, Goto, StartRead, StartProbe, StartRefused
<1>4. ASSUME NEW i \in Invocations, StartSpawn(i) PROVE Unasked'
  <2>1. pid'[i] \notin signalled BY <1>0, <1>4 DEF Asking, TypeOK, StartSpawn
  <2>2. \A j \in Invocations : j # i => pid'[j] = pid[j] /\ pc'[j] = pc[j]
    BY <1>0, <1>4 DEF TypeOK, Goto, StartSpawn
  <2> QED BY <1>2, <1>4, <2>1, <2>2 DEF Unasked, Writing, StartSpawn
<1>5. ASSUME NEW i \in Invocations, StartTruncate(i) PROVE Unasked'
  <2>1. "empty" \notin signalled BY <1>0, PreviewAssumption DEF TypeOK
  <2> QED BY <1>0, <1>2, <1>5, <2>1 DEF Unasked, Writing, TypeOK, Goto, StartTruncate
<1>6. ASSUME NEW i \in Invocations, StartWrite(i) PROVE Unasked'
  <2>1. i \notin detached /\ pid[i] \notin signalled
    BY <1>2, <1>6 DEF Unasked, Tracked, Track, Writing, StartWrite
  <2> QED BY <1>0, <1>2, <1>6, <2>1 DEF Unasked, Writing, TypeOK, Goto, StartWrite
<1>7. ASSUME NEW i \in Invocations, StopRead(i) \/ StopProbe(i) PROVE Unasked'
  <2>1. (\A j \in Invocations : pc'[j] # "stop_unlink") => \A j \in Invocations : pc[j] # "stop_unlink"
    BY <1>0, <1>7 DEF TypeOK, Goto, StopRead, StopProbe
  <2>2. \A j \in Invocations : Writing(j)' => Writing(j) /\ pid'[j] = pid[j]
    BY <1>0, <1>7 DEF TypeOK, Writing, Goto, StopRead, StopProbe
  <2> QED BY <1>2, <1>7, <2>1, <2>2 DEF Unasked, StopRead, StopProbe
<1>8. ASSUME NEW i \in Invocations, StopKill(i) PROVE Unasked'
  <2>1. pc'[i] = "stop_unlink" BY <1>0, <1>8 DEF TypeOK, Goto, StopKill
  <2>2. \A j \in Invocations : ~Starting(j)
    BY <1>2, <1>8 DEF Tracked, Alone, Starting, Stopping, StopKill
  <2>3. \A j \in Invocations : ~Writing(j)'
    BY <1>0, <1>8, <2>2 DEF TypeOK, Starting, Writing, Goto, StopKill
  <2> QED BY <2>1, <2>3 DEF Unasked
<1>9. ASSUME NEW i \in Invocations, StopUnlink(i) PROVE Unasked'
  <2>1. "absent" \notin signalled BY <1>0, PreviewAssumption DEF TypeOK
  <2> QED BY <1>0, <1>2, <1>9, <2>1 DEF Unasked, Writing, TypeOK, Goto, StopUnlink
<1>10. ASSUME NEW q \in Pids, ShellExit(q) \/ ForeignStart(q) PROVE Unasked'
  BY <1>2, <1>10 DEF Unasked, Writing, ShellExit, ForeignStart
<1>11. ASSUME UNCHANGED vars PROVE Unasked'
  BY <1>2, <1>11 DEF Unasked, Writing, vars
<1> QED BY <1>1, <1>3, <1>4, <1>5, <1>6, <1>7, <1>8, <1>9, <1>10, <1>11 DEF Next, Work

LEMMA NextAsking == IInv /\ Asking /\ [Next]_vars => Asking'
BY ShellsAsked, ForeignCounted, UnaskedStep DEF Asking

(* A start that gives up has probed the id that the file names, and no stop     *)
(* has signalled that shell.                                                    *)
LEMMA RefusalStep ==
  ASSUME IInv, Asking, [Next]_vars, NEW i \in Invocations,
         pc[i] = "start_probe", pc'[i] = "idle",
         ~contended, ~unrecorded, count'.crashes = 0, count.foreign = 0
  PROVE  pid[i] \in Running
<1>0. TypeOK /\ Known /\ Tracked BY DEF IInv, Calm
<1>1. \A j \in Invocations : ~Crash(j) /\ count.crashes = 0
  <2>1. ASSUME NEW j \in Invocations, Crash(j) PROVE FALSE
    <3>1. count.crashes \in Nat /\ count'.crashes = count.crashes + 1 BY <1>0, <2>1 DEF Crash, TypeOK
    <3> QED BY <3>1
  <2>2. count'.crashes = count.crashes
    BY <1>0, <2>1 DEF TypeOK, Next, Work, vars, StartRead, StartProbe, StartRefused, StartSpawn, StartTruncate,
         StartWrite, StopRead, StopProbe, StopKill, StopUnlink, ShellExit, ForeignStart
  <2> QED BY <2>1, <2>2
<1>2. StartProbe(i)
  <2>1. ASSUME NEW j \in Invocations, StartRead(j) \/ StopRead(j) \/ Work(j) PROVE StartProbe(i)
    <3>1. j = i
      BY <1>0, <2>1 DEF TypeOK, Goto, Work, StartRead, StartProbe, StartRefused, StartSpawn, StartTruncate,
         StartWrite, StopRead, StopProbe, StopKill, StopUnlink
    <3> QED BY <2>1, <3>1 DEF Work, StartRead, StartRefused, StartSpawn, StartTruncate,
         StartWrite, StopRead, StopProbe, StopKill, StopUnlink
  <2>2. pc' # pc BY <1>0
  <2>3. ~UNCHANGED vars /\ \A q \in Pids : ~ShellExit(q) /\ ~ForeignStart(q)
    BY <2>2 DEF vars, ShellExit, ForeignStart
  <2> QED BY <1>1, <2>1, <2>3 DEF Next
<1>3. pid[i] \in Pids /\ pid[i] = pidFile BY <1>0 DEF Known, Tracked, Track
<1>4. process[pid[i]] # "free" BY <1>0, <1>2 DEF StartProbe, Goto, is_running, TypeOK
<1>5. process[pid[i]] = "shell" BY <1>0, <1>3, <1>4 DEF Asking, TypeOK
<1>6. \A j \in Invocations : pc[j] # "stop_unlink" BY <1>0 DEF Tracked, Alone, Starting, Stopping
<1>7. pid[i] \notin signalled BY <1>1, <1>3, <1>6 DEF Asking, Uninterrupted, Calm, Unasked
<1> QED BY <1>3, <1>5, <1>7 DEF Running

(* For any number of invocations and ids, a start that says "already running"   *)
(* leaves a shell that nobody has signalled, unless an invocation was           *)
(* killed, a start had company, or another program took an id (auto_preview.py  *)
(* start_server).                                                               *)
THEOREM RefusalsAreTrue == Spec => RefusalMeansRunning
<1> DEFINE Refused ==
      \A i \in Invocations :
        /\ pc[i] = "start_probe" /\ pc'[i] = "idle"
        /\ ~contended /\ ~unrecorded /\ count'.crashes = 0 /\ count.foreign = 0
        => pid[i] \in Running
<1>1. IInv /\ Asking /\ [Next]_vars => [Refused]_vars
  BY RefusalStep, Zenon
<1>2. Spec => [](IInv /\ Asking)
  BY InitIInv, InitAsking, NextIInv, NextAsking, PTL DEF Spec
<1>3. Spec => [][Refused]_vars
  BY <1>1, <1>2, PTL DEF Spec
<1> QED BY <1>3 DEF RefusalMeansRunning
=============================================================================
