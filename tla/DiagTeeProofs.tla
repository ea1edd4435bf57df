--------------------------- MODULE DiagTeeProofs --------------------------
(***************************************************************************)
(* What an acknowledged DiagFlush means and what the log file holds, for   *)
(* any number of threads and any sizes of the pipe, the console queue and  *)
(* the log.                                                                *)
(*                                                                         *)
(* The argument: the pipe holds, in order, exactly the lines that were     *)
(* printed and are not in the file (PipeInv). A thread that flushes alone  *)
(* finds no sentinel on the way and puts its own behind its lines          *)
(* (FlushInv), so the sentinel that is acknowledged was preceded by them.  *)
(*                                                                         *)
(* The file (LogInv): what is filed is the next line, and goes behind all  *)
(* others into the part that was begun last; a roll empties the part that  *)
(* was begun first, so what it drops are the oldest lines.                 *)
(***************************************************************************)
EXTENDS DiagTee, SequenceTheorems, FiniteSetTheorems, TLAPS

PipeInv ==
  /\ pipe \in Seq(Int) /\ lines \in Nat /\ pumped \in Nat /\ pumped <= lines
  /\ \A i \in 1 .. Len(pipe) : pipe[i] > 0 => pumped < pipe[i] /\ pipe[i] <= lines
  /\ \A n \in pumped + 1 .. lines : \E i \in 1 .. Len(pipe) : pipe[i] = n
  /\ \A i, j \in 1 .. Len(pipe) : i < j /\ pipe[i] > 0 /\ pipe[j] > 0 => pipe[i] < pipe[j]

ShapeInv ==
  /\ at \in [Threads -> At] /\ acked \in Nat
  /\ last \in [Threads -> Nat] /\ want \in [Threads -> Nat]
  /\ \A t \in Threads : last[t] <= lines

\* A sentinel in the pipe stands behind the lines of t.
Behind(t) ==
  \A i, j \in 1 .. Len(pipe) : pipe[i] = Sync /\ pipe[j] > 0 /\ pipe[j] <= last[t] => j < i

\* What a flush of t that met no other one may count on.
Alone(t) ==
  /\ at[t] \in {"fputs", "wait"} => \A u \in Threads \ {t} : at[u] # "fputs"
  /\ at[t] = "fputs" => want[t] > acked /\ \A i \in 1 .. Len(pipe) : pipe[i] # Sync
  /\ at[t] = "wait" => Behind(t) /\ (acked >= want[t] => last[t] <= pumped)
  /\ at[t] = "acked" => last[t] <= pumped

FlushInv == \A t \in Threads : t \notin mixed => Alone(t)

\* What the pump took is in the file, while there is one.
Taken == open \in BOOLEAN /\ filed \in Nat /\ UpToDate

IInv == PipeInv /\ ShapeInv /\ FlushInv /\ Taken

\* Before anything is printed nothing is on its way.
LEMMA Initially == Init => IInv
<1> SUFFICES ASSUME Init PROVE IInv
  OBVIOUS
<1>1. /\ pipe = <<>> /\ lines = 0 /\ pumped = 0 /\ filed = 0 /\ acked = 0 /\ open \in BOOLEAN
      /\ at = [t \in Threads |-> "run"]
      /\ last = [t \in Threads |-> 0] /\ want = [t \in Threads |-> 0]
  BY Zenon DEF Init
<1>2. PipeInv
  <2>1. pipe \in Seq(Int) /\ Len(pipe) = 0
    BY <1>1, EmptySeq
  <2> QED
    BY <1>1, <2>1 DEF PipeInv
<1>3. ShapeInv /\ FlushInv
  BY <1>1 DEF ShapeInv, FlushInv, Alone, At
<1>4. Taken
  BY <1>1 DEF Taken, UpToDate
<1> QED
  BY <1>2, <1>3, <1>4 DEF IInv

----------------------------------------------------------------------------
(* The pipe. *)

\* A piece that is not a line, or the next line, goes in at the end.
LEMMA PipeTakes ==
  ASSUME PipeInv, NEW x \in Int, pipe' = Append(pipe, x), pumped' = pumped,
         \/ x = lines + 1 /\ lines' = lines + 1
         \/ ~(x > 0) /\ lines' = lines
  PROVE  PipeInv'
<1>1. /\ Len(pipe') = Len(pipe) + 1 /\ pipe' \in Seq(Int)
      /\ \A i \in 1 .. Len(pipe) : pipe'[i] = pipe[i]
      /\ pipe'[Len(pipe) + 1] = x
      /\ Len(pipe) \in Nat
  BY DEF PipeInv
<1>2. \A n \in pumped' + 1 .. lines' : \E i \in 1 .. Len(pipe') : pipe'[i] = n
  BY <1>1 DEF PipeInv
<1>3. \A i \in 1 .. Len(pipe') : pipe'[i] > 0 => pumped' < pipe'[i] /\ pipe'[i] <= lines'
  BY <1>1, SMTT(60) DEF PipeInv
<1>4. \A i, j \in 1 .. Len(pipe') : i < j /\ pipe'[i] > 0 /\ pipe'[j] > 0 => pipe'[i] < pipe'[j]
  <2> SUFFICES ASSUME NEW i \in 1 .. Len(pipe'), NEW j \in 1 .. Len(pipe'), i < j,
                      pipe'[i] > 0, pipe'[j] > 0
               PROVE  pipe'[i] < pipe'[j]
    OBVIOUS
  <2>1. i \in 1 .. Len(pipe) /\ pipe'[i] = pipe[i] /\ pipe[i] <= lines /\ pipe[i] \in Int
    BY <1>1, SMTT(60) DEF PipeInv
  <2>2. CASE j \in 1 .. Len(pipe)
    BY <1>1, <2>1, <2>2 DEF PipeInv
  <2>3. CASE j = Len(pipe) + 1
    <3>1. pipe'[j] = x /\ x > 0
      BY <1>1, <2>3
    <3>2. x = lines + 1 /\ lines \in Nat
      BY <3>1 DEF PipeInv
    <3> QED
      BY <2>1, <3>1, <3>2
  <2>4. j \in 1 .. Len(pipe) \/ j = Len(pipe) + 1
    BY <1>1
  <2> QED
    BY <2>2, <2>3, <2>4
<1> QED
  BY <1>1, <1>2, <1>3, <1>4, SMTT(60) DEF PipeInv

\* The pump takes the oldest line, or passes over what is none.
LEMMA PumpPasses ==
  ASSUME PipeInv, Pump
  PROVE  /\ PipeInv'
         /\ pumped <= pumped'
         /\ Head(pipe) \in Int /\ (Head(pipe) > 0 => Head(pipe) = pumped + 1)
<1>1. /\ Len(pipe') = Len(pipe) - 1 /\ pipe' \in Seq(Int) /\ Len(pipe) \in Nat \ {0}
      /\ \A i \in 1 .. Len(pipe') : pipe'[i] = pipe[i + 1]
      /\ Head(pipe) = pipe[1] /\ pipe[1] \in Int
  <2>1. pipe \in Seq(Int) /\ pipe # <<>> /\ pipe' = Tail(pipe)
    BY DEF PipeInv, Pump
  <2> QED
    BY <2>1, HeadTailProperties
<1>2. lines' = lines /\ pumped' = IF pipe[1] > 0 THEN pipe[1] ELSE pumped
  BY <1>1 DEF Pump
<1>3. pipe[1] > 0 => pipe[1] = pumped + 1
  <2>1. SUFFICES ASSUME pipe[1] > 0, pipe[1] # pumped + 1 PROVE FALSE
    OBVIOUS
  <2>2. pumped < pipe[1] /\ pipe[1] <= lines /\ pumped + 1 \in pumped + 1 .. lines
    BY <1>1, <2>1 DEF PipeInv
  <2>3. PICK i \in 1 .. Len(pipe) : pipe[i] = pumped + 1
    BY <2>2 DEF PipeInv
  <2>4. i # 1 /\ pipe[i] > 0
    BY <2>1, <2>3 DEF PipeInv
  <2>5. 1 \in 1 .. Len(pipe) /\ 1 < i
    BY <1>1, <2>4
  <2>6. pipe[1] < pipe[i] /\ pumped \in Nat
    BY <2>1, <2>4, <2>5 DEF PipeInv
  <2> QED
    BY <1>1, <2>2, <2>3, <2>6
<1>4. \A n \in pumped' + 1 .. lines' : \E i \in 1 .. Len(pipe') : pipe'[i] = n
  <2> SUFFICES ASSUME NEW n \in pumped' + 1 .. lines' PROVE \E i \in 1 .. Len(pipe') : pipe'[i] = n
    OBVIOUS
  <2>1. n \in pumped + 1 .. lines /\ n # pipe[1]
    BY <1>1, <1>2, <1>3 DEF PipeInv
  <2>2. PICK i \in 1 .. Len(pipe) : pipe[i] = n
    BY <2>1 DEF PipeInv
  <2>3. i - 1 \in 1 .. Len(pipe') /\ pipe'[i - 1] = n
    <3>1. i # 1
      BY <2>1, <2>2
    <3>2. i - 1 \in 1 .. Len(pipe') /\ (i - 1) + 1 = i
      BY <1>1, <3>1
    <3> QED
      BY <1>1, <2>2, <3>2
  <2> QED
    BY <2>3
<1>5. \A i \in 1 .. Len(pipe') : pipe'[i] > 0 => pumped' < pipe'[i] /\ pipe'[i] <= lines'
  <2> SUFFICES ASSUME NEW i \in 1 .. Len(pipe'), pipe'[i] > 0
               PROVE  pumped' < pipe'[i] /\ pipe'[i] <= lines'
    OBVIOUS
  <2>1. i + 1 \in 1 .. Len(pipe) /\ 1 \in 1 .. Len(pipe) /\ 1 < i + 1 /\ pipe'[i] = pipe[i + 1]
    BY <1>1
  <2> QED
    BY <1>1, <1>2, <2>1 DEF PipeInv
<1>6. \A i, j \in 1 .. Len(pipe') : i < j /\ pipe'[i] > 0 /\ pipe'[j] > 0 => pipe'[i] < pipe'[j]
  <2> SUFFICES ASSUME NEW i \in 1 .. Len(pipe'), NEW j \in 1 .. Len(pipe'), i < j,
                      pipe'[i] > 0, pipe'[j] > 0
               PROVE  pipe'[i] < pipe'[j]
    OBVIOUS
  <2>1. i + 1 \in 1 .. Len(pipe) /\ j + 1 \in 1 .. Len(pipe) /\ i + 1 < j + 1
    BY <1>1
  <2> QED
    BY <1>1, <2>1 DEF PipeInv
<1>7. pumped' \in Nat /\ pumped' <= lines' /\ lines' \in Nat /\ pumped <= pumped'
  BY <1>1, <1>2, <1>3 DEF PipeInv
<1> QED
  BY <1>1, <1>2, <1>3, <1>4, <1>5, <1>6, <1>7 DEF PipeInv

\* What it takes goes into the file, if there is one.
LEMMA PumpTakes ==
  ASSUME PipeInv, Taken, Pump
  PROVE  Taken'
<1>1. /\ Head(pipe) \in Int /\ (Head(pipe) > 0 => Head(pipe) = pumped + 1)
      /\ pumped' = IF Head(pipe) > 0 THEN Head(pipe) ELSE pumped
      /\ pumped \in Nat /\ filed \in Nat /\ open \in BOOLEAN
  BY PumpPasses DEF PipeInv, Taken, Pump
<1>2. ASSUME NEW x, Files(x), open
      PROVE  open' \in BOOLEAN /\ filed' = IF x > 0 THEN x ELSE filed
  BY <1>1, <1>2, Zenon DEF Files, OpenPart
<1>3. ASSUME NEW x, Files(x), ~open
      PROVE  open' = open /\ filed' = filed
  BY <1>3 DEF Files, fileVars
<1>4. ~(Meter > 0) /\ ~(Sync > 0) /\ ~(Glued > 0)
  BY DEF Meter, Sync, Glued
<1>5. CASE Head(pipe) > 0 /\ Files(Head(pipe))
  <2>1. \/ open /\ open' \in BOOLEAN /\ filed' = Head(pipe)
        \/ ~open /\ open' = open /\ filed' = filed
    BY <1>2, <1>3, <1>5, Zenon
  <2>2. /\ pumped' = Head(pipe) /\ Head(pipe) \in Nat
        /\ filed <= Head(pipe) /\ Head(pipe) <= Head(pipe)
    BY <1>1, <1>5 DEF Taken, UpToDate
  <2>3. open' \in BOOLEAN /\ (open' => filed' = pumped')
    <3>1. CASE open /\ open' \in BOOLEAN /\ filed' = Head(pipe)
      BY <2>2, <3>1
    <3>2. CASE ~open /\ open' = open
      BY <1>1, <3>2
    <3> QED
      BY ONLY <2>1, <3>1, <3>2
  <2>4. filed' \in Nat /\ filed' <= pumped'
    BY <1>1, <2>1, <2>2, Zenon
  <2> QED
    BY <2>3, <2>4, Zenon DEF Taken, UpToDate
<1>6. CASE ~(Head(pipe) > 0) /\ Files(Glued)
  <2>1. \/ open /\ open' \in BOOLEAN /\ filed' = filed
        \/ ~open /\ open' = open /\ filed' = filed
    BY <1>2, <1>3, <1>4, <1>6, Zenon
  <2>2. pumped' = pumped
    BY <1>1, <1>6
  <2>3. filed <= pumped /\ (open => filed = pumped)
    BY DEF Taken, UpToDate
  <2>4. open' \in BOOLEAN /\ filed' = filed /\ (open' => open)
    <3>1. CASE open /\ open' \in BOOLEAN /\ filed' = filed
      BY ONLY <3>1
    <3>2. CASE ~open /\ open' = open /\ filed' = filed
      BY <1>1, <3>2
    <3> QED
      BY ONLY <2>1, <3>1, <3>2
  <2> QED
    BY <1>1, <2>2, <2>3, <2>4, Zenon DEF Taken, UpToDate
<1>7. CASE ~(Head(pipe) > 0) /\ UNCHANGED <<open, filed>>
  BY <1>1, <1>7 DEF Taken, UpToDate
<1> QED
  BY <1>4, <1>5, <1>6, <1>7, Zenon DEF Pump, Splits, fileVars
----------------------------------------------------------------------------
(* The flush. *)

\* The pump's acknowledgement: when a sentinel that stands behind the lines of
\* t is the oldest piece, they are in the file.
LEMMA AckAfterLines ==
  ASSUME PipeInv, NEW t \in Threads, last[t] \in Nat, last[t] <= lines, Behind(t),
         pipe # <<>>, Head(pipe) = Sync
  PROVE  last[t] <= pumped
<1>1. Len(pipe) \in Nat \ {0} /\ pipe[1] = Sync /\ 1 \in 1 .. Len(pipe)
  <2>1. pipe \in Seq(Int)
    BY DEF PipeInv
  <2> QED
    BY <2>1, HeadTailProperties
<1>2. SUFFICES ASSUME last[t] > pumped PROVE FALSE
  BY DEF PipeInv
<1>3. last[t] \in pumped + 1 .. lines
  BY <1>2 DEF PipeInv
<1>4. PICK j \in 1 .. Len(pipe) : pipe[j] = last[t]
  BY <1>3 DEF PipeInv
<1>5. pipe[j] > 0 /\ pipe[j] <= last[t]
  BY <1>2, <1>4, SMTT(60) DEF PipeInv
<1>6. j < 1
  BY <1>1, <1>5 DEF Behind
<1> QED
  BY <1>1, <1>6

\* A step of the pump.
LEMMA PumpKeepsFlush ==
  ASSUME IInv, Pump
  PROVE  ShapeInv' /\ FlushInv'
<1>1. /\ Len(pipe') = Len(pipe) - 1 /\ Len(pipe) \in Nat \ {0}
      /\ \A i \in 1 .. Len(pipe') : pipe'[i] = pipe[i + 1]
      /\ Head(pipe) = pipe[1] /\ pipe # <<>>
  <2>1. pipe \in Seq(Int) /\ pipe # <<>> /\ pipe' = Tail(pipe)
    BY DEF IInv, PipeInv, Pump
  <2> QED
    BY <2>1, HeadTailProperties
<1>2. UNCHANGED <<at, last, want, mixed, lines>>
  BY DEF Pump, threadVars
<1>3. acked' = acked \/ (acked' = acked + 1 /\ Head(pipe) = Sync)
  BY DEF Pump, Splits
<1>4. pumped \in Nat /\ pumped' \in Nat /\ pumped <= pumped'
  BY PumpPasses DEF IInv, PipeInv
<1>5. ShapeInv'
  BY <1>2, <1>3 DEF IInv, ShapeInv
<1>6. ASSUME NEW t \in Threads, t \notin mixed'
      PROVE  Alone(t)'
  <2>1. Alone(t) /\ last[t] \in Nat /\ last[t] <= lines /\ acked \in Nat /\ want[t] \in Nat
    BY <1>2, <1>6 DEF IInv, ShapeInv, FlushInv
  <2>2. at[t] = "fputs" => want'[t] > acked' /\ \A i \in 1 .. Len(pipe') : pipe'[i] # Sync
    BY <1>1, <1>2, <1>3, <2>1 DEF Alone
  <2>3. at[t] = "wait" => Behind(t)'
    <3>1. SUFFICES ASSUME Behind(t), NEW i \in 1 .. Len(pipe'), NEW j \in 1 .. Len(pipe'),
                          pipe'[i] = Sync, pipe'[j] > 0, pipe'[j] <= last[t]
                   PROVE  j < i
      BY <1>2, <2>1 DEF Alone, Behind
    <3>2. i + 1 \in 1 .. Len(pipe) /\ j + 1 \in 1 .. Len(pipe)
      BY <1>1
    <3>3. j + 1 < i + 1
      BY <1>1, <3>1, <3>2 DEF Behind
    <3> QED
      BY <3>3
  <2>4. at[t] = "wait" /\ acked' >= want'[t] => last[t] <= pumped'
    <3>1. CASE acked' = acked
      BY <1>2, <1>4, <2>1, <3>1 DEF Alone
    <3>2. CASE Head(pipe) = Sync
      BY <1>1, <1>4, <2>1, <3>2, AckAfterLines DEF Alone, IInv
    <3> QED
      BY <1>3, <3>1, <3>2
  <2>5. at[t] = "acked" => last[t] <= pumped'
    BY <1>4, <2>1 DEF Alone
  <2> QED
    BY <1>2, <2>1, <2>2, <2>3, <2>4, <2>5 DEF Alone
<1> QED
  BY <1>5, <1>6 DEF FlushInv

\* Whoever neither prints nor flushes moves on, and says nothing.
Quiet == UNCHANGED <<pipe, lines, pumped, filed, open, acked, last, want, mixed>>

\* Whoever moves on without a word leaves the pipe's bookkeeping true.
LEMMA QuietKeeps ==
  ASSUME IInv, Quiet, at' \in [Threads -> At],
         \A t \in Threads : at'[t] = at[t] \/ at'[t] \notin {"fputs", "wait", "acked"}
  PROVE  IInv'
<1>1. PipeInv' /\ ShapeInv'
  BY DEF IInv, PipeInv, ShapeInv, Quiet
<1>2. FlushInv'
  BY DEF IInv, FlushInv, Alone, Behind, Quiet
<1>3. Taken'
  BY DEF IInv, Taken, UpToDate, Quiet
<1> QED
  BY <1>1, <1>2, <1>3 DEF IInv

\* All of these do.
LEMMA QuietSteps ==
  ASSUME IInv, NEW t \in Threads,
         StartPrint(t) \/ StartExit(t) \/ StartKill(t) \/ AfterFlush(t) \/ EmergencyPath(t)
           \/ EmergencyAppend(t) \/ BoxDismissed(t)
  PROVE  IInv'
<1> USE DEF Goes, pipeVars, threadVars, fileVars
<1>1. Quiet
  BY DEF Quiet, StartPrint, StartExit, StartKill, AfterFlush, EmergencyPath, EmergencyAppend,
         BoxDismissed
<1>2. \/ at' = at
      \/ \E p \in At : at' = [at EXCEPT ![t] = p] /\ p \notin {"fputs", "wait", "acked"}
  BY ZenonT(60) DEF At, AtFlush, StartPrint, StartExit, StartKill, AfterFlush, EmergencyPath,
         EmergencyAppend, AfterEmergency, BoxDismissed
<1>3. at \in [Threads -> At]
  BY DEF IInv, ShapeInv
<1>4. at' \in [Threads -> At]
  BY <1>2, <1>3
<1>5. \A u \in Threads : at'[u] = at[u] \/ at'[u] \notin {"fputs", "wait", "acked"}
  BY <1>2, <1>3
<1> QED
  BY <1>1, <1>4, <1>5, QuietKeeps

\* What a line, a meter and a sentinel are in the pipe.
LEMMA Appended ==
  ASSUME PipeInv, NEW x \in Int, pipe' = Append(pipe, x)
  PROVE  /\ Len(pipe) \in Nat /\ Len(pipe') = Len(pipe) + 1
         /\ \A i \in 1 .. Len(pipe) : pipe'[i] = pipe[i]
         /\ pipe'[Len(pipe) + 1] = x
BY DEF PipeInv

\* A printing thread: its line is newer than anybody's last one.
LEMMA WriteKeeps ==
  ASSUME IInv, NEW t \in Threads, WriteLine(t) \/ WriteMeter(t)
  PROVE  IInv'
<1>0. at \in [Threads -> At] /\ lines \in Nat /\ Meter \in Int /\ ~(Meter > 0) /\ Meter # Sync
  BY DEF IInv, PipeInv, ShapeInv, Meter, Sync
<1>1. PICK x \in Int :
        /\ pipe' = Append(pipe, x) /\ x # Sync
        /\ \/ x = lines + 1 /\ lines' = lines + 1 /\ last' = [last EXCEPT ![t] = lines + 1]
           \/ ~(x > 0) /\ lines' = lines /\ last' = last
  <2>1. CASE WriteLine(t)
    <3>1. lines + 1 \in Int /\ lines + 1 # Sync
      BY <1>0 DEF Sync
    <3> QED
      BY <2>1, <3>1 DEF WriteLine
  <2>2. CASE WriteMeter(t)
    BY <1>0, <2>2 DEF WriteMeter
  <2> QED
    BY <2>1, <2>2
<1>2. /\ UNCHANGED <<pumped, filed, open, acked, want, mixed>>
      /\ at[t] \notin {"fputs", "wait", "acked"}
      /\ \E p \in {"run", "load"} : at' = [at EXCEPT ![t] = p]
  BY DEF WriteLine, WriteMeter, Goes, fileVars
<1>3. PipeInv'
  BY <1>1, <1>2, PipeTakes DEF IInv
<1>4. ShapeInv'
  <2>1. at' \in [Threads -> At] /\ acked' \in Nat /\ want' \in [Threads -> Nat]
    BY <1>0, <1>2 DEF IInv, ShapeInv, At, AtFlush
  <2>2. last' \in [Threads -> Nat] /\ \A u \in Threads : last'[u] <= lines'
    <3>1. last \in [Threads -> Nat] /\ \A u \in Threads : last[u] <= lines
      BY DEF IInv, ShapeInv
    <3>2. CASE lines' = lines + 1 /\ last' = [last EXCEPT ![t] = lines + 1]
      BY <1>0, <3>1, <3>2
    <3> QED
      BY <1>1, <3>1, <3>2
  <2> QED
    BY <2>1, <2>2 DEF ShapeInv
<1>5. ASSUME NEW u \in Threads, u \notin mixed'
      PROVE  Alone(u)'
  <2>1. Alone(u) /\ last[u] <= lines /\ last[u] \in Nat
    BY <1>2, <1>5 DEF IInv, FlushInv, ShapeInv
  <2>2. CASE u = t
    BY <1>0, <1>2, <2>2 DEF Alone
  <2>3. CASE u # t
    <3>1. at'[u] = at[u] /\ last'[u] = last[u]
      BY <1>0, <1>1, <1>2, <2>3 DEF IInv, ShapeInv
    <3>2. at[u] = "fputs" => \A i \in 1 .. Len(pipe') : pipe'[i] # Sync
      BY <1>1, <2>1, Appended DEF IInv, Alone
    <3>3. at[u] = "wait" => Behind(u)'
      <4>1. SUFFICES ASSUME Behind(u), NEW i \in 1 .. Len(pipe'), NEW j \in 1 .. Len(pipe'),
                            pipe'[i] = Sync, pipe'[j] > 0, pipe'[j] <= last[u]
                     PROVE  j < i
        BY <2>1, <3>1 DEF Alone, Behind
      <4>2. i \in 1 .. Len(pipe) /\ pipe[i] = Sync
        BY <1>1, <4>1, Appended DEF IInv
      <4>3. j \in 1 .. Len(pipe) /\ pipe[j] = pipe'[j]
        <5>1. ~(x > 0) \/ ~(x <= last[u])
          BY <1>0, <1>1, <2>1
        <5> QED
          BY <1>1, <4>1, <5>1, Appended DEF IInv
      <4> QED
        BY <4>1, <4>2, <4>3 DEF Behind
    <3>4. \A v \in Threads : at'[v] = "fputs" => at[v] = "fputs"
      BY <1>0, <1>2
    <3> QED
      BY <1>2, <2>1, <2>3, <3>1, <3>2, <3>3, <3>4 DEF Alone
  <2> QED
    BY <2>2, <2>3
<1>6. Taken'
  BY <1>2 DEF IInv, Taken, UpToDate
<1> QED
  BY <1>3, <1>4, <1>5, <1>6 DEF IInv, FlushInv

\* A flush that begins: it is alone, or everybody in the way is marked.
LEMMA LoadKeeps ==
  ASSUME IInv, NEW t \in Threads, FlushLoads(t)
  PROVE  IInv'
<1>1. /\ UNCHANGED <<pipe, lines, pumped, filed, open, acked, last>>
      /\ at' = [at EXCEPT ![t] = "fputs"] /\ want' = [want EXCEPT ![t] = acked + 1]
      /\ at[t] = "load"
  BY DEF FlushLoads, WantAfter, Goes, pipeVars, fileVars
<1>2. PipeInv' /\ ShapeInv'
  <2>1. PipeInv'
    BY <1>1 DEF IInv, PipeInv
  <2>2. at' \in [Threads -> At]
    BY <1>1 DEF IInv, ShapeInv, At, AtFlush
  <2>3. want' \in [Threads -> Nat]
    BY <1>1 DEF IInv, ShapeInv
  <2> QED
    BY <1>1, <2>1, <2>2, <2>3 DEF IInv, ShapeInv
<1>3. ASSUME NEW u \in Threads, u \notin mixed'
      PROVE  Alone(u)'
  <2>1. CASE u = t
    <3>1. /\ \A v \in Threads \ {t} : at[v] \notin AtFlush
          /\ ~Contains(pipe, Sync)
      BY <1>3, <2>1 DEF FlushLoads
    <3>2. \A i \in 1 .. Len(pipe) : pipe[i] # Sync
      BY <3>1 DEF Contains
    <3>3. at'[t] = "fputs" /\ want'[t] > acked /\ \A v \in Threads \ {t} : at'[v] # "fputs"
      BY <1>1, <3>1 DEF IInv, ShapeInv, AtFlush
    <3> QED
      BY <1>1, <2>1, <3>2, <3>3 DEF Alone
  <2>2. CASE u # t
    <3>1. u \notin mixed /\ at[u] \notin {"fputs", "wait"}
      BY <1>1, <1>3, <2>2 DEF FlushLoads, AtFlush
    <3>2. at'[u] = at[u] /\ Alone(u)
      BY <1>1, <2>2, <3>1 DEF IInv, ShapeInv, FlushInv
    <3> QED
      BY <1>1, <3>1, <3>2 DEF Alone
  <2> QED
    BY <2>1, <2>2
<1>4. Taken'
  BY <1>1 DEF IInv, Taken, UpToDate
<1> QED
  BY <1>2, <1>3, <1>4 DEF IInv, FlushInv

\* The sentinel of a flush that is alone stands behind its lines; nobody else's
\* flush that is alone can be on the way.
LEMMA SendKeeps ==
  ASSUME IInv, NEW t \in Threads, FlushSends(t)
  PROVE  IInv'
<1>1. /\ pipe' = Append(pipe, Sync) /\ Sync \in Int /\ ~(Sync > 0)
      /\ UNCHANGED <<lines, pumped, filed, open, acked, last, want, mixed>>
      /\ at' = [at EXCEPT ![t] = "wait"] /\ at[t] = "fputs"
  BY DEF FlushSends, Goes, fileVars, Sync
<1>2. PipeInv'
  BY <1>1, PipeTakes DEF IInv
<1>3. ShapeInv'
  BY <1>1 DEF IInv, ShapeInv, At, AtFlush
<1>4. ASSUME NEW u \in Threads, u \notin mixed'
      PROVE  Alone(u)'
  <2>1. Alone(u) /\ at \in [Threads -> At] /\ acked \in Nat /\ want[u] \in Nat
    BY <1>1, <1>4 DEF IInv, FlushInv, ShapeInv
  <2>2. CASE u = t
    <3>1. \A i \in 1 .. Len(pipe) : pipe[i] # Sync
      BY <1>1, <2>1, <2>2 DEF Alone
    <3>2. Behind(u)'
      <4>1. SUFFICES ASSUME NEW i \in 1 .. Len(pipe'), NEW j \in 1 .. Len(pipe'),
                            pipe'[i] = Sync, pipe'[j] > 0
                     PROVE  j < i
        BY DEF Behind
      <4>2. i = Len(pipe) + 1 /\ j \in 1 .. Len(pipe) /\ Len(pipe) \in Nat
        BY <1>1, <3>1, <4>1, Appended DEF IInv
      <4> QED
        BY <4>2
    <3>3. ~(acked >= want[u])
      BY <1>1, <2>1, <2>2 DEF Alone
    <3> QED
      BY <1>1, <2>1, <2>2, <3>2, <3>3 DEF Alone
  <2>3. CASE u # t
    <3>1. at[u] \notin {"fputs", "wait"}
      BY <1>1, <2>1, <2>3 DEF Alone
    <3> QED
      BY <1>1, <2>1, <2>3, <3>1 DEF Alone
  <2> QED
    BY <2>2, <2>3
<1>5. Taken'
  BY <1>1 DEF IInv, Taken, UpToDate
<1> QED
  BY <1>2, <1>3, <1>4, <1>5 DEF IInv, FlushInv

\* A flush that ends, acknowledged or not.
LEMMA EndKeeps ==
  ASSUME IInv, NEW t \in Threads, FlushEnds(t)
  PROVE  IInv'
<1>1. /\ UNCHANGED <<pipe, lines, pumped, filed, open, acked, last, want, mixed>>
      /\ at[t] = "wait"
      /\ at' = [at EXCEPT ![t] = IF acked >= want[t] THEN "acked" ELSE "gave up"]
  BY DEF FlushEnds, Goes, pipeVars, fileVars
<1>2. PipeInv' /\ ShapeInv'
  BY <1>1 DEF IInv, PipeInv, ShapeInv, At, AtFlush
<1>3. FlushInv'
  BY <1>1 DEF IInv, ShapeInv, FlushInv, Alone, Behind
<1>4. Taken'
  BY <1>1 DEF IInv, Taken, UpToDate
<1> QED
  BY <1>2, <1>3, <1>4 DEF IInv

----------------------------------------------------------------------------
(* The file. A line goes behind all others, into the youngest part; the part *)
(* that a roll empties is the oldest one.                                    *)

FileType ==
  /\ parts \in [Parts -> Seq(Int)] /\ part \in Parts /\ begun \in Parts
  /\ open => begun = part
  /\ fill \in 0 .. PartMax - 1
  /\ rolls \in Nat /\ pathOf \in [Threads -> Parts]

\* What is in a part: its places are finitely many, the ones of the current
\* part at most what fill says.
Counted ==
  /\ \A p \in Parts : IsFiniteSet(LinePlaces(p))
  /\ open => Cardinality(LinePlaces(part)) <= fill

\* The emergency line of whoever shows the box is in the part that was begun
\* as many rolls ago, until that part has come round again.
FatalKept ==
  (\E t \in Threads : at[t] = "box" /\ t \notin refused)
    => rolls >= MaxParts \/ \E p \in Parts : Age(p) = rolls /\ Contains(parts[p], Fatal)

Whole == InOrder /\ Unbroken /\ WithinSize

LogInv == FileType /\ Whole /\ Counted /\ FatalKept

\* An empty log misses nothing.
LEMMA LogInitially == Init => LogInv
<1> SUFFICES ASSUME Init PROVE LogInv
  OBVIOUS
<1>1. /\ parts = [p \in Parts |-> <<>>] /\ part = 0 /\ begun = 0 /\ fill = 0 /\ rolls = 0
      /\ pathOf = [t \in Threads |-> 0] /\ at = [t \in Threads |-> "run"]
  BY Zenon DEF Init
<1>2. 0 \in Parts /\ 0 \in 0 .. PartMax - 1 /\ PartMax \in Nat
  BY TeeAssumption DEF Parts
<1>3. FileType
  <2>1. <<>> \in Seq(Int)
    BY EmptySeq
  <2> QED
    BY <1>1, <1>2, <2>1 DEF FileType
<1>4. \A p \in Parts : LinePlaces(p) = {}
  <2>1. DOMAIN <<>> = {}
    BY EmptySeq
  <2> QED
    BY <1>1, <2>1, Zenon DEF LinePlaces
<1>5. Logged = {}
  BY <1>4, Zenon DEF Logged
<1>6. IsFiniteSet({}) /\ Cardinality({}) = 0
  BY FS_EmptySet
<1>7. InOrder /\ Unbroken
  BY <1>4, <1>5, Zenon DEF InOrder, Unbroken
<1>8. WithinSize /\ Counted
  <2>1. \A p \in Parts : IsFiniteSet(LinePlaces(p)) /\ Cardinality(LinePlaces(p)) = 0
    BY <1>4, <1>6, Zenon
  <2>2. part \in Parts /\ fill = 0
    BY <1>1, <1>2
  <2> QED
    BY <1>2, <2>1, <2>2, SMT DEF WithinSize, Counted
<1>9. FatalKept
  BY <1>1 DEF FatalKept
<1> QED
  BY <1>3, <1>7, <1>8, <1>9 DEF LogInv, Whole

\* The part after the last is the first.
LEMMA NextPartIs ==
  ASSUME part \in Parts
  PROVE  NextPart = IF part + 1 < MaxParts THEN part + 1 ELSE 0
<1>1. MaxParts \in Nat \ {0} /\ part \in 0 .. MaxParts - 1
  BY TeeAssumption DEF Parts
<1>2. CASE part + 1 < MaxParts
  BY <1>1, <1>2 DEF NextPart
<1>3. CASE part + 1 = MaxParts
  <2>1. MaxParts % MaxParts = 0
    BY <1>1
  <2> QED
    BY <1>1, <1>3, <2>1 DEF NextPart
<1> QED
  BY <1>1, <1>2, <1>3

\* The ages of the parts, before and after a roll: the one that is taken over
\* is the oldest.
LEMMA Ages ==
  ASSUME begun \in Parts
  PROVE  Age(begun) = 0 /\ \A p \in Parts : Age(p) \in 0 .. MaxParts - 1
BY TeeAssumption DEF Age, Parts

LEMMA NextIsOldest ==
  ASSUME part \in Parts, begun = part
  PROVE  /\ NextPart \in Parts /\ Age(NextPart) = MaxParts - 1
         /\ \A p \in Parts : Age(p) = MaxParts - 1 => p = NextPart
BY TeeAssumption, NextPartIs DEF Age, Parts

\* When the log rolls, every part but the one taken over grows older.
LEMMA AgesRoll ==
  ASSUME part \in Parts, begun = part, begun' = NextPart
  PROVE  \A p \in Parts \ {NextPart} : Age(p)' = Age(p) + 1
BY TeeAssumption, NextPartIs DEF Age, Parts

\* One piece goes to the end of the part p and the parts in gone are emptied:
\* what that does to the places.
Filed(p, x, gone) ==
  parts' = [q \in Parts |-> IF q \in gone THEN <<>> ELSE IF q = p THEN Append(parts[q], x) ELSE parts[q]]

\* Where a line stands in the log after such a step it stood before, or it
\* is the line written.
LEMMA FiledPlaces ==
  ASSUME FileType, NEW p \in Parts, NEW x \in Int, NEW gone, Filed(p, x, gone)
  PROVE  /\ parts' \in [Parts -> Seq(Int)]
         /\ \A q \in Parts : \A a \in LinePlaces(q)' :
              /\ q \notin gone
              /\ \/ a \in LinePlaces(q) /\ parts'[q][a] = parts[q][a]
                 \/ q = p /\ a = Len(parts[p]) + 1 /\ parts'[q][a] = x /\ x > 0
         /\ \A q \in Parts \ gone : \A a \in LinePlaces(q) :
              a \in LinePlaces(q)' /\ parts'[q][a] = parts[q][a]
         /\ \A q \in Parts : \A a \in LinePlaces(q) :
              a \in 1 .. Len(parts[q]) /\ parts[q][a] \in Int
         /\ x > 0 /\ p \notin gone =>
              Len(parts[p]) + 1 \in LinePlaces(p)' /\ parts'[p][Len(parts[p]) + 1] = x
<1>1. \A q \in Parts : /\ parts[q] \in Seq(Int) /\ DOMAIN parts[q] = 1 .. Len(parts[q])
                       /\ Len(parts[q]) \in Nat
                       /\ \A a \in 1 .. Len(parts[q]) : parts[q][a] \in Int
  BY DEF FileType
<1>2. \A q \in gone \cap Parts : parts'[q] = <<>>
  BY DEF Filed
<1>3. \A q \in Parts \ gone : q # p => parts'[q] = parts[q]
  BY DEF Filed
<1>4. p \notin gone =>
        /\ parts'[p] = Append(parts[p], x) /\ parts'[p] \in Seq(Int)
        /\ DOMAIN parts'[p] = 1 .. Len(parts[p]) + 1
        /\ \A a \in 1 .. Len(parts[p]) : parts'[p][a] = parts[p][a]
        /\ parts'[p][Len(parts[p]) + 1] = x
  <2> SUFFICES ASSUME p \notin gone
               PROVE  /\ parts'[p] = Append(parts[p], x) /\ parts'[p] \in Seq(Int)
                      /\ DOMAIN parts'[p] = 1 .. Len(parts[p]) + 1
                      /\ \A a \in 1 .. Len(parts[p]) : parts'[p][a] = parts[p][a]
                      /\ parts'[p][Len(parts[p]) + 1] = x
    OBVIOUS
  <2>1. parts'[p] = Append(parts[p], x)
    BY DEF Filed
  <2> QED
    BY <1>1, <2>1, AppendProperties
<1>5. parts' \in [Parts -> Seq(Int)]
  <2>1. \A q \in Parts : parts'[q] \in Seq(Int)
    BY <1>1, <1>2, <1>3, <1>4, EmptySeq
  <2>2. parts' = [q \in Parts |-> parts'[q]]
    BY DEF Filed
  <2> QED
    BY <2>1, <2>2
<1>6. ASSUME NEW q \in Parts, NEW a \in LinePlaces(q)'
      PROVE  /\ q \notin gone
             /\ \/ a \in LinePlaces(q) /\ parts'[q][a] = parts[q][a]
                \/ q = p /\ a = Len(parts[p]) + 1 /\ parts'[q][a] = x /\ x > 0
  <2>1. a \in DOMAIN parts'[q] /\ parts'[q][a] > 0
    BY <1>6 DEF LinePlaces, IsLine
  <2>2. q \notin gone
    <3> SUFFICES ASSUME q \in gone PROVE FALSE
      OBVIOUS
    <3>1. parts'[q] = <<>>
      BY <1>2
    <3>2. DOMAIN parts'[q] = {}
      BY <3>1
    <3> QED
      BY ONLY <2>1, <3>2
  <2>3. CASE q # p
    BY <1>3, <2>1, <2>2, <2>3 DEF LinePlaces, IsLine
  <2>4. CASE q = p
    <3>1. a \in 1 .. Len(parts[p]) + 1
      BY <1>4, <2>1, <2>2, <2>4
    <3>2. Len(parts[p]) \in Nat
      BY <1>1
    <3>3. a \in 1 .. Len(parts[p]) \/ a = Len(parts[p]) + 1
      BY ONLY <3>1, <3>2
    <3> QED
      BY <1>1, <1>4, <2>1, <2>2, <2>4, <3>3 DEF LinePlaces, IsLine
  <2> QED
    BY <2>2, <2>3, <2>4
<1>7. ASSUME NEW q \in Parts \ gone, NEW a \in LinePlaces(q)
      PROVE  a \in LinePlaces(q)' /\ parts'[q][a] = parts[q][a]
  <2>1. a \in 1 .. Len(parts[q]) /\ parts[q][a] > 0
    BY <1>1, <1>7 DEF LinePlaces, IsLine
  <2>2. CASE q # p
    BY <1>1, <1>3, <2>1, <2>2 DEF LinePlaces, IsLine
  <2>3. CASE q = p
    <3>1. a \in 1 .. Len(parts[p]) + 1
      BY <1>1, <2>1, <2>3
    <3> QED
      BY <1>4, <2>1, <2>3, <3>1 DEF LinePlaces, IsLine
  <2> QED
    BY <2>2, <2>3
<1>8. \A q \in Parts : \A a \in LinePlaces(q) : a \in 1 .. Len(parts[q]) /\ parts[q][a] \in Int
  BY <1>1 DEF LinePlaces
<1>9. x > 0 /\ p \notin gone =>
        Len(parts[p]) + 1 \in LinePlaces(p)' /\ parts'[p][Len(parts[p]) + 1] = x
  <2>1. Len(parts[p]) + 1 \in 1 .. Len(parts[p]) + 1
    BY <1>1
  <2> QED
    BY <1>4, <2>1 DEF LinePlaces, IsLine
<1> QED
  BY <1>5, <1>6, <1>7, <1>8, <1>9

\* A line is in the log when it has a place in a part.
LEMMA LoggedPlaces ==
  /\ \A n : n \in Logged <=> \E q \in Parts : \E a \in LinePlaces(q) : n = parts[q][a]
  /\ \A n : n \in Logged' <=> \E q \in Parts : \E a \in LinePlaces(q)' : n = parts'[q][a]
BY DEF Logged, Parts

\* A line is the next one and goes to the current part; what is emptied is
\* older than what stays, which keeps its order.
LEMMA FilingKeepsTail ==
  ASSUME FileType, InOrder, Unbroken, filed \in Nat,
         NEW p \in Parts, NEW x \in Int, NEW gone \in SUBSET Parts, Filed(p, x, gone),
         \/ x > 0 /\ p = begun /\ x = filed + 1 /\ filed' = filed + 1
         \/ ~(x > 0) /\ filed' = filed,
         \A q, r \in Parts \ gone : Age(q)' < Age(r)' => Age(q) < Age(r),
         \A q \in Parts \ gone, r \in gone : Age(q) < Age(r)
  PROVE  InOrder' /\ Unbroken'
<1>1. \A q \in Parts : \A a \in LinePlaces(q) : parts[q][a] <= filed
  BY LoggedPlaces DEF Unbroken
<1>2. \A q \in Parts : \A a \in LinePlaces(q)' :
        /\ q \notin gone
        /\ \/ a \in LinePlaces(q) /\ parts'[q][a] = parts[q][a]
           \/ q = p /\ a = Len(parts[p]) + 1 /\ parts'[q][a] = x /\ x > 0
  BY FiledPlaces
<1>3. \A q \in Parts \ gone : \A a \in LinePlaces(q) :
        a \in LinePlaces(q)' /\ parts'[q][a] = parts[q][a]
  BY FiledPlaces
<1>4. \A q \in Parts : \A a \in LinePlaces(q) : a \in 1 .. Len(parts[q]) /\ parts[q][a] \in Int
  BY FiledPlaces
<1>5. x > 0 /\ p \notin gone =>
        Len(parts[p]) + 1 \in LinePlaces(p)' /\ parts'[p][Len(parts[p]) + 1] = x
  BY FiledPlaces
<1>6. \A q \in Parts : Age(q) \in Nat
  BY Ages DEF FileType
<1>7. Age(begun) = 0
  BY Ages DEF FileType
<1>8. InOrder'
  <2> SUFFICES ASSUME NEW q \in Parts, NEW r \in Parts,
                      NEW a \in LinePlaces(q)', NEW b \in LinePlaces(r)',
                      Age(r)' < Age(q)' \/ (q = r /\ a < b)
               PROVE  parts'[q][a] < parts'[r][b]
    BY Zenon DEF InOrder
  <2>1. /\ q \notin gone /\ r \notin gone
        /\ \/ a \in LinePlaces(q) /\ parts'[q][a] = parts[q][a]
           \/ q = p /\ a = Len(parts[p]) + 1 /\ parts'[q][a] = x /\ x > 0
        /\ \/ b \in LinePlaces(r) /\ parts'[r][b] = parts[r][b]
           \/ r = p /\ b = Len(parts[p]) + 1 /\ parts'[r][b] = x /\ x > 0
    BY <1>2, Zenon
  <2>2. Age(r) < Age(q) \/ (q = r /\ a < b)
    BY <2>1
  <2>3. CASE a \in LinePlaces(q) /\ b \in LinePlaces(r)
    <3>1. parts'[q][a] = parts[q][a] /\ parts'[r][b] = parts[r][b]
      BY <1>3, <2>1, <2>3, Zenon
    <3>2. parts[q][a] < parts[r][b]
      BY <2>2, <2>3, Zenon DEF InOrder
    <3> QED
      BY <3>1, <3>2
  <2>4. CASE a \in LinePlaces(q) /\ b \notin LinePlaces(r)
    <3>1. parts'[q][a] = parts[q][a] /\ parts[q][a] \in Int /\ parts[q][a] <= filed
      BY <1>1, <1>3, <1>4, <2>1, <2>4, Zenon
    <3>2. parts'[r][b] = filed + 1
      BY <2>1, <2>4
    <3> QED
      BY <3>1, <3>2
  <2>5. CASE a \notin LinePlaces(q)
    <3>1. q = p /\ a = Len(parts[p]) + 1 /\ p = begun
      BY <2>1, <2>5
    <3>2. q = r /\ a < b
      BY <1>6, <1>7, <2>2, <3>1
    <3>3. b \in 1 .. Len(parts[p]) \/ b = Len(parts[p]) + 1
      BY <1>4, <2>1, <3>1, <3>2, Zenon
    <3>4. Len(parts[p]) \in Nat
      BY DEF FileType
    <3> QED
      BY <3>1, <3>2, <3>3, <3>4
  <2> QED
    BY <2>3, <2>4, <2>5
<1>9. Unbroken'
  <2> SUFFICES ASSUME NEW n \in Logged' PROVE n <= filed' /\ n .. filed' \subseteq Logged'
    BY Zenon DEF Unbroken
  <2>1. PICK q \in Parts : \E a \in LinePlaces(q)' : n = parts'[q][a]
    BY LoggedPlaces
  <2>2. PICK a \in LinePlaces(q)' : n = parts'[q][a]
    BY <2>1
  <2>3. /\ q \notin gone
        /\ \/ a \in LinePlaces(q) /\ n = parts[q][a]
           \/ q = p /\ n = x /\ x > 0
    BY <1>2, <2>2, Zenon
  <2>4. n \in Int /\ n <= filed'
    <3>1. CASE a \in LinePlaces(q) /\ n = parts[q][a]
      <4>1. n \in Int /\ n <= filed
        BY <1>1, <1>4, <3>1, Zenon
      <4> QED
        BY <4>1
    <3>2. CASE n = x /\ x > 0
      BY <3>2
    <3> QED
      BY <2>3, <3>1, <3>2
  <2>5. ASSUME NEW m \in n .. filed' PROVE m \in Logged'
    <3>1. CASE m = x /\ x > 0
      <4>1. p \notin gone
        <5>1. CASE p = q
          BY <2>3, <5>1
        <5>2. CASE p # q /\ p \in gone
          BY <1>6, <1>7, <2>3, <3>1, <5>2
        <5> QED
          BY <5>1, <5>2
      <4>2. Len(parts[p]) + 1 \in LinePlaces(p)' /\ parts'[p][Len(parts[p]) + 1] = m
        BY <1>5, <3>1, <4>1, Zenon
      <4> QED
        BY <4>2, LoggedPlaces
    <3>2. CASE ~(m = x /\ x > 0)
      <4>1. m \in n .. filed /\ ~(q = p /\ n = x /\ x > 0)
        BY <2>4, <2>5, <3>2
      <4>2. a \in LinePlaces(q) /\ n = parts[q][a]
        BY <2>3, <4>1
      <4>3. n \in Logged
        BY <4>2, LoggedPlaces
      <4>4. m \in Logged
        BY <4>1, <4>3, Zenon DEF Unbroken
      <4>5. PICK r \in Parts : \E b \in LinePlaces(r) : m = parts[r][b]
        BY <4>4, LoggedPlaces
      <4>6. PICK b \in LinePlaces(r) : m = parts[r][b]
        BY <4>5
      <4>7. r \notin gone
        <5>1. SUFFICES ASSUME r \in gone PROVE FALSE
          OBVIOUS
        <5>2. Age(q) < Age(r)
          BY <2>3, <5>1
        <5>3. m < n
          BY <4>2, <4>6, <5>2, Zenon DEF InOrder
        <5> QED
          BY <2>4, <4>1, <5>3
      <4>8. b \in LinePlaces(r)' /\ parts'[r][b] = m
        BY <1>3, <4>6, <4>7, Zenon
      <4> QED
        BY <4>8, LoggedPlaces
    <3> QED
      BY <3>1, <3>2
  <2> QED
    BY <2>4, <2>5
<1> QED
  BY <1>8, <1>9

\* A part then holds at most one line more, and an emptied one none.
LEMMA FilingCounts ==
  ASSUME FileType, Counted, NEW p \in Parts, NEW x \in Int, NEW gone, Filed(p, x, gone),
         NEW q \in Parts
  PROVE  /\ IsFiniteSet(LinePlaces(q)') /\ Cardinality(LinePlaces(q)') \in Nat
         /\ Cardinality(LinePlaces(q)) \in Nat
         /\ Cardinality(LinePlaces(q)') <= Cardinality(LinePlaces(q)) + 1
         /\ q # p \/ ~(x > 0) => Cardinality(LinePlaces(q)') <= Cardinality(LinePlaces(q))
         /\ q \in gone => Cardinality(LinePlaces(q)') = 0
<1>1. IsFiniteSet(LinePlaces(q)) /\ Cardinality(LinePlaces(q)) \in Nat
  BY FS_CardinalityType DEF Counted
<1>2. \A a \in LinePlaces(q)' :
        q \notin gone /\ (a \in LinePlaces(q) \/ (q = p /\ a = Len(parts[p]) + 1 /\ x > 0))
  BY FiledPlaces
<1> DEFINE more == LinePlaces(q) \cup {Len(parts[p]) + 1}
<1>3. IsFiniteSet(more) /\ Cardinality(more) <= Cardinality(LinePlaces(q)) + 1
  <2>1. /\ IsFiniteSet(more)
        /\ \/ Cardinality(more) = Cardinality(LinePlaces(q))
           \/ Cardinality(more) = Cardinality(LinePlaces(q)) + 1
    BY <1>1, FS_AddElement
  <2> QED
    BY <1>1, <2>1
<1>4. LinePlaces(q)' \subseteq more
  BY <1>2
<1>5. /\ IsFiniteSet(LinePlaces(q)')
      /\ Cardinality(LinePlaces(q)') \in Nat /\ Cardinality(more) \in Nat
      /\ Cardinality(LinePlaces(q)') <= Cardinality(more)
  BY <1>3, <1>4, FS_Subset, FS_CardinalityType
<1>6. q # p \/ ~(x > 0) => Cardinality(LinePlaces(q)') <= Cardinality(LinePlaces(q))
  <2>1. q # p \/ ~(x > 0) => LinePlaces(q)' \subseteq LinePlaces(q)
    BY <1>2
  <2> QED
    BY <1>1, <2>1, FS_Subset
<1>7. q \in gone => Cardinality(LinePlaces(q)') = 0
  <2>1. q \in gone => LinePlaces(q)' = {}
    BY <1>2
  <2> QED
    BY <2>1, FS_EmptySet
<1> QED
  BY <1>1, <1>3, <1>5, <1>6, <1>7

\* The last words stay in the part that has them until it is emptied.
LEMMA FatalStays ==
  ASSUME FileType, NEW p \in Parts, NEW x \in Int, NEW gone, Filed(p, x, gone)
  PROVE  /\ \A q \in Parts \ gone : Contains(parts[q], Fatal) => Contains(parts'[q], Fatal)
         /\ x = Fatal /\ p \notin gone => Contains(parts'[p], Fatal)
<1>1. parts[p] \in Seq(Int) /\ Len(parts[p]) \in Nat
  BY DEF FileType
<1>2. p \notin gone =>
        /\ Len(parts'[p]) = Len(parts[p]) + 1
        /\ \A a \in 1 .. Len(parts[p]) : parts'[p][a] = parts[p][a]
        /\ parts'[p][Len(parts[p]) + 1] = x
  <2>1. p \notin gone => parts'[p] = Append(parts[p], x)
    BY DEF Filed
  <2> QED
    BY <1>1, <2>1, AppendProperties
<1>3. \A q \in Parts \ gone : q # p => parts'[q] = parts[q]
  BY DEF Filed
<1>4. p \notin gone /\ Contains(parts[p], Fatal) => Contains(parts'[p], Fatal)
  <2> SUFFICES ASSUME p \notin gone, NEW a \in 1 .. Len(parts[p]), parts[p][a] = Fatal
               PROVE  \E b \in 1 .. Len(parts'[p]) : parts'[p][b] = Fatal
    BY DEF Contains
  <2>1. a \in 1 .. Len(parts'[p]) /\ parts'[p][a] = Fatal
    BY <1>1, <1>2, SMTT(60)
  <2> QED
    BY <2>1
<1>5. x = Fatal /\ p \notin gone => Contains(parts'[p], Fatal)
  <2>1. Len(parts[p]) + 1 \in 1 .. Len(parts[p]) + 1
    BY <1>1
  <2> QED
    BY <1>2, <2>1 DEF Contains
<1> QED
  BY <1>3, <1>4, <1>5

\* WriteFileLine with a file: with room in the part, with a roll, and with a
\* roll that cannot open its part.
LEMMA FilesKeeps ==
  ASSUME LogInv, filed \in Nat, NEW x \in Int, x > 0 => x = filed + 1, Files(x), open,
         UNCHANGED <<at, pathOf, refused>>
  PROVE  LogInv'
<1>1. /\ FileType /\ InOrder /\ Unbroken /\ WithinSize /\ Counted /\ FatalKept
      /\ part \in Parts /\ begun = part /\ fill \in 0 .. PartMax - 1 /\ PartMax \in Nat \ {0}
      /\ rolls \in Nat /\ MaxParts \in Nat \ {0} /\ parts \in [Parts -> Seq(Int)]
  BY TeeAssumption DEF LogInv, Whole, FileType
<1> PICK here \in Parts : here = part
  BY <1>1
<1>2. \/ x > 0 /\ here = begun /\ x = filed + 1 /\ filed' = filed + 1
      \/ ~(x > 0) /\ filed' = filed
  BY <1>1 DEF Files
<1> DEFINE InPart == /\ Filed(here, x, {}) /\ UNCHANGED <<begun, rolls>>
                     /\ part' \in Parts /\ fill' \in 0 .. PartMax - 1 /\ fill < PartMax
                     /\ open' => part' = part /\ fill' = fill + 1
           Rolls == /\ Filed(here, x, {NextPart}) /\ part' = NextPart /\ begun' = NextPart
                    /\ fill' = 0 /\ rolls' = IF rolls < MaxParts THEN rolls + 1 ELSE rolls
<1>5. InPart \/ Rolls
  <2>1. CASE fill + 1 < PartMax
    BY <1>1, <2>1 DEF Files, Filed
  <2>2. CASE ~(fill + 1 < PartMax)
    <3> DEFINE written == [parts EXCEPT ![part] = Append(@, x)]
    <3>1. part' = NextPart /\ fill' = 0 /\ OpenPart(NextPart, written)
      BY <2>2 DEF Files
    <3>2. NextPart \in Parts /\ 0 \in 0 .. PartMax - 1 /\ fill < PartMax
      BY <1>1, NextIsOldest
    <3>3. written = [q \in Parts |-> IF q = here THEN Append(parts[q], x) ELSE parts[q]]
      BY <1>1
    <3>4. CASE open' = FALSE /\ parts' = written /\ UNCHANGED <<begun, rolls>>
      BY <3>1, <3>2, <3>3, <3>4 DEF Filed
    <3>5. CASE /\ begun' = NextPart
               /\ parts' = [written EXCEPT ![NextPart] = <<>>]
               /\ rolls' = IF rolls < MaxParts THEN rolls + 1 ELSE rolls
      <4>1. Filed(here, x, {NextPart})
        BY <3>3, <3>5 DEF Filed
      <4> QED
        BY <3>1, <3>5, <4>1
    <3> QED
      BY <3>1, <3>4, <3>5, Zenon DEF OpenPart, Reopened
  <2> QED
    BY <2>1, <2>2
<1>3. CASE InPart
  <2>1. /\ Filed(here, x, {}) /\ UNCHANGED <<begun, rolls>>
        /\ part' \in Parts /\ fill' \in 0 .. PartMax - 1 /\ fill < PartMax
        /\ open' => part' = part /\ fill' = fill + 1
    BY <1>3
  <2>2. \A p \in Parts : Age(p)' = Age(p)
    BY <2>1 DEF Age
  <2>3. InOrder' /\ Unbroken'
    <3>1. \A q, r \in Parts \ {} : Age(q)' < Age(r)' => Age(q) < Age(r)
      BY <2>2
    <3> QED
      BY <1>1, <1>2, <2>1, <3>1, FilingKeepsTail
  <2>4. FileType'
    <3>1. parts' \in [Parts -> Seq(Int)]
      BY <1>1, <2>1, FiledPlaces
    <3> QED
      BY <1>1, <2>1, <3>1 DEF FileType
  <2>5. WithinSize' /\ Counted'
    <3>1. \A q \in Parts :
            /\ IsFiniteSet(LinePlaces(q)') /\ Cardinality(LinePlaces(q)') \in Nat
            /\ Cardinality(LinePlaces(q)) \in Nat
            /\ Cardinality(LinePlaces(q)') <= Cardinality(LinePlaces(q)) + 1
            /\ q # here => Cardinality(LinePlaces(q)') <= Cardinality(LinePlaces(q))
      BY <1>1, <2>1, FilingCounts
    <3>2. Cardinality(LinePlaces(here)) <= fill /\ Cardinality(LinePlaces(here)') <= fill + 1
      BY <1>1, <3>1 DEF Counted
    <3>3. \A q \in Parts : Cardinality(LinePlaces(q)') <= PartMax
      BY <1>1, <2>1, <3>1, <3>2, SMTT(60) DEF WithinSize
    <3>4. open' => Cardinality(LinePlaces(part)') <= fill'
      <4> SUFFICES ASSUME open' PROVE Cardinality(LinePlaces(part)') <= fill'
        OBVIOUS
      <4>1. LinePlaces(part)' = LinePlaces(here)'
        BY <2>1 DEF LinePlaces
      <4> QED
        BY <2>1, <3>2, <4>1
    <3> QED
      BY <3>1, <3>3, <3>4 DEF WithinSize, Counted
  <2>6. FatalKept'
    <3>1. \A q \in Parts : Contains(parts[q], Fatal) => Contains(parts'[q], Fatal)
      BY <1>1, <2>1, FatalStays
    <3> QED
      BY <1>1, <2>1, <2>2, <3>1, Zenon DEF FatalKept
  <2> QED
    BY <2>3, <2>4, <2>5, <2>6 DEF LogInv, Whole
<1>4. CASE Rolls
  <2>1. /\ Filed(here, x, {NextPart}) /\ fill' = 0 /\ part' = NextPart /\ begun' = NextPart
        /\ rolls' = IF rolls < MaxParts THEN rolls + 1 ELSE rolls
    BY <1>4
  <2>2. \A p \in Parts \ {NextPart} : Age(p)' = Age(p) + 1 /\ Age(p) < Age(NextPart)
    <3>1. \A p \in Parts \ {NextPart} : Age(p)' = Age(p) + 1
      BY <1>1, <2>1, AgesRoll
    <3>2. \A p \in Parts \ {NextPart} : Age(p) \in 0 .. MaxParts - 1 /\ Age(p) # MaxParts - 1
      BY <1>1, Ages, NextIsOldest
    <3>3. Age(NextPart) = MaxParts - 1
      BY <1>1, NextIsOldest
    <3> QED
      BY <1>1, <3>1, <3>2, <3>3
  <2>3. NextPart \in Parts /\ \A p \in Parts : Age(p) \in Nat
    BY <1>1, Ages, NextIsOldest
  <2>4. InOrder' /\ Unbroken'
    <3>1. \A q, r \in Parts \ {NextPart} : Age(q)' < Age(r)' => Age(q) < Age(r)
      BY <2>2, <2>3
    <3>2. \A q \in Parts \ {NextPart}, r \in {NextPart} : Age(q) < Age(r)
      BY <2>2
    <3> QED
      BY <1>1, <1>2, <2>1, <2>3, <3>1, <3>2, FilingKeepsTail
  <2>5. FileType'
    <3>1. parts' \in [Parts -> Seq(Int)]
      BY <1>1, <2>1, FiledPlaces
    <3> QED
      BY <1>1, <2>1, <2>3, <3>1 DEF FileType
  <2>6. WithinSize' /\ Counted'
    <3>1. \A q \in Parts :
            /\ IsFiniteSet(LinePlaces(q)') /\ Cardinality(LinePlaces(q)') \in Nat
            /\ Cardinality(LinePlaces(q)) \in Nat
            /\ Cardinality(LinePlaces(q)') <= Cardinality(LinePlaces(q)) + 1
            /\ q # here => Cardinality(LinePlaces(q)') <= Cardinality(LinePlaces(q))
            /\ q = NextPart => Cardinality(LinePlaces(q)') = 0
      BY <1>1, <2>1, FilingCounts
    <3>2. Cardinality(LinePlaces(here)) <= fill
      BY <1>1 DEF Counted
    <3>3. \A q \in Parts : Cardinality(LinePlaces(q)') <= PartMax
      BY <1>1, <3>1, <3>2 DEF WithinSize
    <3>4. Cardinality(LinePlaces(part)') <= fill'
      <4>1. PICK q \in Parts : q = NextPart
        BY <2>3
      <4>2. LinePlaces(part)' = LinePlaces(q)'
        BY <2>1, <4>1 DEF LinePlaces
      <4> QED
        BY <2>1, <3>1, <4>1, <4>2
    <3> QED
      BY <3>1, <3>3, <3>4 DEF WithinSize, Counted
  <2>7. FatalKept'
    <3> SUFFICES ASSUME \E t \in Threads : at[t] = "box" /\ t \notin refused, rolls' < MaxParts
                 PROVE  \E p \in Parts : Age(p)' = rolls' /\ Contains(parts'[p], Fatal)
      BY <1>1, <2>1 DEF FatalKept
    <3>1. rolls < MaxParts /\ rolls' = rolls + 1 /\ rolls # MaxParts - 1
      BY <1>1, <2>1
    <3>2. PICK p \in Parts : Age(p) = rolls /\ Contains(parts[p], Fatal)
      BY <1>1, <3>1 DEF FatalKept
    <3>3. p # NextPart
      BY <1>1, <3>1, <3>2, Ages, NextIsOldest
    <3>4. Contains(parts'[p], Fatal)
      BY <1>1, <2>1, <3>2, <3>3, FatalStays
    <3> QED
      BY <2>2, <3>1, <3>2, <3>3, <3>4
  <2> QED
    BY <2>4, <2>5, <2>6, <2>7 DEF LogInv, Whole
<1> QED
  BY <1>3, <1>4, <1>5

\* A step that files nothing: nobody comes to the box but through the line.
LEMMA FileAlone ==
  ASSUME LogInv, UNCHANGED <<parts, open, part, begun, fill, filed, rolls>>,
         pathOf' \in [Threads -> Parts],
         \A t \in Threads : at'[t] = "box" /\ t \notin refused' => at[t] = "box" /\ t \notin refused
  PROVE  LogInv'
<1>1. \A p : LinePlaces(p)' = LinePlaces(p) /\ Age(p)' = Age(p)
  BY DEF LinePlaces, Age
<1>2. Logged' = Logged
  BY DEF Logged, LinePlaces, Parts
<1>3. InOrder' /\ Unbroken' /\ WithinSize' /\ Counted'
  BY <1>1, <1>2 DEF LogInv, Whole, InOrder, Unbroken, WithinSize, Counted
<1>4. FileType' /\ FatalKept'
  BY <1>1 DEF LogInv, FileType, FatalKept
<1> QED
  BY <1>3, <1>4 DEF LogInv, Whole

\* The emergency line is no line of the pipe, and names its part's age.
LEMMA EmergencyKeeps ==
  ASSUME IInv, LogInv, NEW t \in Threads, EmergencyAppend(t), EmergencyLine(pathOf[t])
  PROVE  LogInv'
<1> PICK p \in Parts : p = pathOf[t]
  BY DEF LogInv, FileType
<1>1. /\ FileType /\ InOrder /\ Unbroken /\ WithinSize /\ Counted /\ filed \in Nat
      /\ parts \in [Parts -> Seq(Int)] /\ Fatal \in Int /\ ~(Fatal > 0)
      /\ part \in Parts /\ begun \in Parts
  BY DEF LogInv, Whole, FileType, IInv, Taken, Fatal
<1>2. /\ Filed(p, Fatal, {}) /\ rolls' = Age(p)
      /\ UNCHANGED <<open, part, begun, fill, filed, pathOf>>
  BY <1>1 DEF EmergencyAppend, EmergencyLine, Filed
<1>3. \A q : Age(q)' = Age(q)
  BY <1>2 DEF Age
<1>4. InOrder' /\ Unbroken'
  <2>1. \A q, r \in Parts \ {} : Age(q)' < Age(r)' => Age(q) < Age(r)
    BY <1>3
  <2> QED
    BY <1>1, <1>2, <2>1, FilingKeepsTail
<1>5. FileType'
  <2>1. parts' \in [Parts -> Seq(Int)]
    BY <1>1, <1>2, FiledPlaces
  <2>2. Age(p) \in Nat
    BY <1>1, Ages
  <2> QED
    BY <1>1, <1>2, <2>1, <2>2 DEF FileType
<1>6. WithinSize' /\ Counted'
  <2>1. \A q \in Parts :
          /\ IsFiniteSet(LinePlaces(q)') /\ Cardinality(LinePlaces(q)') \in Nat
          /\ Cardinality(LinePlaces(q)) \in Nat
          /\ Cardinality(LinePlaces(q)') <= Cardinality(LinePlaces(q))
    BY <1>1, <1>2, FilingCounts
  <2>2. \A q \in Parts : Cardinality(LinePlaces(q)') <= PartMax
    BY <1>1, <2>1, TeeAssumption, SMTT(60) DEF WithinSize
  <2>3. open' => Cardinality(LinePlaces(part)') <= fill'
    <3>1. PICK q \in Parts : q = part
      BY <1>1
    <3>2. LinePlaces(part)' = LinePlaces(q)' /\ LinePlaces(part) = LinePlaces(q)
      BY <1>2, <3>1 DEF LinePlaces
    <3> QED
      BY <1>1, <1>2, <2>1, <3>1, <3>2 DEF Counted, FileType
  <2> QED
    BY <2>1, <2>2, <2>3 DEF WithinSize, Counted
<1>7. FatalKept'
  <2>1. Contains(parts'[p], Fatal)
    <3>1. FileType /\ Fatal \in Int /\ p \in Parts /\ Filed(p, Fatal, {})
      BY <1>1, <1>2, Zenon
    <3>2. Fatal = Fatal /\ p \notin {} => Contains(parts'[p], Fatal)
      BY ONLY <3>1, FatalStays
    <3> QED
      BY ONLY <3>2, Zenon
  <2> QED
    BY <1>2, <1>3, <2>1 DEF FatalKept
<1> QED
  BY <1>4, <1>5, <1>6, <1>7 DEF LogInv, Whole

\* What the threads do keeps the log whole.
LEMMA ThreadsKeepLog ==
  ASSUME IInv, LogInv, NEW t \in Threads,
         StartPrint(t) \/ StartExit(t) \/ StartKill(t) \/ Step(t) \/ BoxDismissed(t)
  PROVE  LogInv'
<1>1. at \in [Threads -> At] /\ pathOf \in [Threads -> Parts] /\ part \in Parts
  BY DEF IInv, ShapeInv, LogInv, FileType
<1>2. CASE EmergencyAppend(t)
  <2>1. CASE EmergencyLine(pathOf[t])
    BY <1>2, <2>1, EmergencyKeeps
  <2>2. CASE refused' = refused \cup {t} /\ UNCHANGED <<parts, rolls>>
    <3>1. /\ UNCHANGED <<parts, open, part, begun, fill, filed, rolls, pathOf>>
          /\ \E p \in At : at' = [at EXCEPT ![t] = p]
      BY <1>2, <2>2 DEF EmergencyAppend, AfterEmergency, Goes, At, AtFlush
    <3>2. \A u \in Threads : at'[u] = "box" /\ u \notin refused' => at[u] = "box" /\ u \notin refused
      BY <1>1, <2>2, <3>1
    <3> QED
      BY <1>1, <3>1, <3>2, FileAlone
  <2> QED
    BY <1>2, <2>1, <2>2 DEF EmergencyAppend
<1>3. CASE EmergencyPath(t)
  <2>1. UNCHANGED <<parts, open, part, begun, fill, filed, rolls>>
    BY <1>3 DEF EmergencyPath, fileVars
  <2>2. pathOf' = pathOf \/ pathOf' = [pathOf EXCEPT ![t] = part]
    BY <1>3 DEF EmergencyPath
  <2>3. \A u \in Threads : at'[u] = "box" /\ u \notin refused' => at[u] = "box" /\ u \notin refused
    <3>1. CASE at' = [at EXCEPT ![t] = "append"] /\ refused' = refused
      BY <1>1, <3>1
    <3>2. CASE refused' = refused \cup {t} /\ \E p \in At : at' = [at EXCEPT ![t] = p]
      BY <1>1, <3>2
    <3> QED
      BY <1>3, <3>1, <3>2 DEF EmergencyPath, AfterEmergency, Goes, At, AtFlush
  <2> QED
    BY <1>1, <2>1, <2>2, <2>3, FileAlone
<1>4. CASE \/ StartPrint(t) \/ StartExit(t) \/ StartKill(t) \/ BoxDismissed(t)
           \/ WriteLine(t) \/ WriteMeter(t)
           \/ FlushLoads(t) \/ FlushSends(t) \/ FlushEnds(t) \/ AfterFlush(t)
  <2>1. UNCHANGED <<parts, open, part, begun, fill, filed, rolls, pathOf, refused>>
    BY <1>4 DEF StartPrint, StartExit, StartKill, BoxDismissed, WriteLine, WriteMeter,
                FlushLoads, FlushSends, FlushEnds, AfterFlush, fileVars, threadVars
  <2>2. at' = at \/ \E p \in At \ {"box"} : at' = [at EXCEPT ![t] = p]
    BY <1>4 DEF StartPrint, StartExit, StartKill, BoxDismissed, WriteLine, WriteMeter,
                FlushLoads, FlushSends, FlushEnds, AfterFlush, Goes, threadVars, At, AtFlush
  <2>3. \A u \in Threads : at'[u] = "box" /\ u \notin refused' => at[u] = "box" /\ u \notin refused
    BY <1>1, <2>1, <2>2
  <2> QED
    BY <1>1, <2>1, <2>3, FileAlone
<1> QED
  BY <1>2, <1>3, <1>4 DEF Step

\* What the pump files keeps the log whole.
LEMMA PumpKeepsLog ==
  ASSUME IInv, LogInv, Pump
  PROVE  LogInv'
<1>1. /\ Head(pipe) \in Int /\ (Head(pipe) > 0 => Head(pipe) = pumped + 1)
      /\ filed \in Nat /\ (open => filed = pumped)
  BY PumpPasses DEF IInv, Taken, UpToDate
<1>2. UNCHANGED <<at, pathOf, refused>> /\ Splits(Head(pipe))
  BY DEF Pump, threadVars
<1>3. CASE Files(Head(pipe)) /\ Head(pipe) > 0 /\ open
  BY <1>1, <1>2, <1>3, FilesKeeps
<1>4. CASE Files(Glued) /\ open
  <2>1. Glued \in Int /\ ~(Glued > 0)
    BY DEF Glued
  <2> QED
    BY <1>1, <1>2, <1>4, <2>1, FilesKeeps
<1>5. CASE UNCHANGED fileVars
  BY <1>2, <1>5, FileAlone DEF LogInv, FileType, fileVars
<1>6. ASSUME NEW x, Files(x), ~open PROVE UNCHANGED fileVars
  BY <1>6, Zenon DEF Files
<1> QED
  BY <1>2, <1>3, <1>4, <1>5, <1>6 DEF Splits

----------------------------------------------------------------------------
(* Theorems. *)

\* The pipe holds what was printed and not filed yet, and a flush that met no
\* other keeps its sentinel behind its lines, in every reachable state.
THEOREM Invariance == Spec => []IInv
<1>1. ASSUME IInv, [Next]_vars
      PROVE  IInv'
  <2>1. ASSUME NEW t \in Threads,
               StartPrint(t) \/ StartExit(t) \/ StartKill(t) \/ Step(t) \/ BoxDismissed(t)
        PROVE  IInv'
    BY <1>1, <2>1, QuietSteps, WriteKeeps, LoadKeeps, SendKeeps, EndKeeps DEF Step
  <2>2. CASE Pump
    BY <1>1, <2>2, PumpPasses, PumpTakes, PumpKeepsFlush DEF IInv
  <2>3. CASE ConsoleWrites \/ UNCHANGED vars
    <3>1. Quiet /\ at' = at
      BY <2>3 DEF ConsoleWrites, Quiet, vars, threadVars, pipeVars, fileVars
    <3> QED
      BY <1>1, <3>1, QuietKeeps DEF IInv, ShapeInv
  <2> QED
    BY <1>1, <2>1, <2>2, <2>3 DEF Next
<1> QED
  BY <1>1, Initially, PTL DEF Spec

\* DiagFlush: whoever flushed alone and was acknowledged finds what they
\* printed taken by the pump, and in the log while a part is open, whatever
\* the other threads print meanwhile.
THEOREM AcksAreTrue == Spec => []AckMeansWritten
<1>1. IInv => AckMeansWritten
  BY DEF IInv, FlushInv, Alone, Taken, UpToDate, AckMeansWritten
<1> QED
  BY <1>1, Invariance, PTL

\* While a part is open no line is passed over: what was printed and is not in
\* the file is in the pipe.
THEOREM NothingSkipped ==
  Spec => [](open => \A n \in filed + 1 .. lines : \E i \in 1 .. Len(pipe) : pipe[i] = n)
<1>1. IInv => (open => \A n \in filed + 1 .. lines : \E i \in 1 .. Len(pipe) : pipe[i] = n)
  BY DEF IInv, PipeInv, Taken, UpToDate
<1> QED
  BY <1>1, Invariance, PTL

\* The file in every reachable state, for any number and size of its parts.
THEOREM LogInvariance == Spec => []LogInv
<1>1. ASSUME IInv, LogInv, [Next]_vars
      PROVE  LogInv'
  <2>1. ASSUME NEW t \in Threads,
               StartPrint(t) \/ StartExit(t) \/ StartKill(t) \/ Step(t) \/ BoxDismissed(t)
        PROVE  LogInv'
    BY <1>1, <2>1, ThreadsKeepLog
  <2>2. CASE Pump
    BY <1>1, <2>2, PumpKeepsLog
  <2>3. CASE ConsoleWrites \/ UNCHANGED vars
    <3>1. UNCHANGED <<parts, open, part, begun, fill, filed, rolls, pathOf, at, refused>>
      BY <2>3 DEF ConsoleWrites, vars, threadVars, fileVars
    <3> QED
      BY <1>1, <3>1, FileAlone DEF LogInv, FileType
  <2> QED
    BY <1>1, <2>1, <2>2, <2>3 DEF Next
<1> QED
  BY <1>1, LogInitially, Invariance, PTL DEF Spec

\* The log is evidence: an unbroken run of lines, in order, in parts that keep
\* their size, wherever the roll stands; up to the last line the pump took, or
\* to the last one before a part could not be opened.
THEOREM LogIsEvidence == Spec => []LogIsTail
<1>1. IInv /\ LogInv => LogIsTail
  BY DEF IInv, Taken, LogInv, Whole, LogIsTail
<1> QED
  BY <1>1, Invariance, LogInvariance, PTL

\* DiagEmergency: the operator who reads the box finds the fatal line in the
\* log, until all its parts have been written anew, unless there was no file.
THEOREM FatalReachesLog == Spec => []FatalIsLogged
<1>1. LogInv => FatalIsLogged
  BY DEF LogInv, FatalKept, FatalIsLogged
<1> QED
  BY <1>1, LogInvariance, PTL

----------------------------------------------------------------------------
(* The types: what the pipe, the queue and the log hold, and the bounds.   *)

Piece == (1 .. MaxLines) \cup {Meter, Sync}
Chunk == (1 .. MaxLines) \cup {Glued, Fatal}

PipeTyped ==
  /\ pipe \in Seq(Piece) /\ Len(pipe) <= PipeMax
  /\ lines \in 0 .. MaxLines /\ meters \in 0 .. MaxMeters
  /\ \A t \in Threads : at[t] = "meter" => t = Meterer /\ meters < MaxMeters
EndsTyped ==
  /\ why \in [Threads -> {"", "die", "exit", "kill"}]
  /\ mixed \subseteq Threads /\ refused \subseteq Threads
Lamps == held \in BOOLEAN /\ alive \in BOOLEAN
LogTyped ==
  parts \in [Parts -> Seq(Chunk)] /\ queue \in 0 .. QueueMax /\ rolls \in 0 .. MaxParts

\* Whoever writes finds room, and writes the next line, a repaint or a
\* sentinel; the pump only takes out.
LEMMA PipeStaysTyped ==
  ASSUME IInv, PipeTyped, [Next]_vars
  PROVE  PipeTyped'
<1> DEFINE OneMeterer == \A t \in Threads : at[t] = "meter" => t = Meterer /\ meters < MaxMeters
<1>1. /\ PipeMax \in Nat /\ MaxLines \in Nat /\ MaxMeters \in Nat
      /\ pipe \in Seq(Piece) /\ Len(pipe) \in Nat /\ at \in [Threads -> At]
  BY TeeAssumption DEF PipeTyped, IInv, ShapeInv
<1>2. ASSUME NEW x \in Piece, pipe' = Append(pipe, x), PipeHasRoom
      PROVE  pipe' \in Seq(Piece) /\ Len(pipe') <= PipeMax
  <2>1. pipe' \in Seq(Piece) /\ Len(pipe') = Len(pipe) + 1
    BY <1>1, <1>2, AppendProperties
  <2> QED
    BY <1>1, <1>2, <2>1 DEF PipeHasRoom
<1>3. ASSUME NEW t \in Threads, NEW p \in At \ {"meter"}, at' = [at EXCEPT ![t] = p], meters' = meters
      PROVE  OneMeterer'
  BY <1>1, <1>3 DEF PipeTyped
<1>4. ASSUME NEW t \in Threads, WriteLine(t) PROVE PipeTyped'
  <2>1. lines + 1 \in 1 .. MaxLines /\ lines' = lines + 1 /\ meters' = meters
    <3>1. lines < MaxLines /\ lines' = lines + 1 /\ meters' = meters
      BY <1>4, Zenon DEF WriteLine
    <3> QED
      BY <1>1, <3>1 DEF PipeTyped
  <2>2. lines + 1 \in Piece /\ pipe' = Append(pipe, lines + 1) /\ PipeHasRoom
    BY <1>4, <2>1 DEF Piece, WriteLine
  <2>3. OneMeterer'
    BY <1>3, <1>4, <2>1 DEF WriteLine, Goes, At, AtFlush
  <2> QED
    BY <1>1, <1>2, <2>1, <2>2, <2>3 DEF PipeTyped
<1>5. ASSUME NEW t \in Threads, WriteMeter(t) PROVE PipeTyped'
  <2>1. t = Meterer /\ meters < MaxMeters /\ meters' = meters + 1 /\ lines' = lines
    BY <1>5 DEF WriteMeter, PipeTyped
  <2>2. Meter \in Piece /\ pipe' = Append(pipe, Meter) /\ PipeHasRoom
    BY <1>5 DEF Piece, WriteMeter
  <2>3. at' = [at EXCEPT ![t] = "run"]
    BY <1>5 DEF WriteMeter, Goes
  <2>4. \A u \in Threads : at'[u] # "meter"
    BY <1>1, <2>1, <2>3 DEF PipeTyped
  <2> QED
    BY <1>1, <1>2, <2>1, <2>2, <2>4 DEF PipeTyped
<1>6. ASSUME NEW t \in Threads, FlushSends(t) PROVE PipeTyped'
  <2>1. Sync \in Piece /\ pipe' = Append(pipe, Sync) /\ PipeHasRoom /\ UNCHANGED <<lines, meters>>
    BY <1>6 DEF Piece, FlushSends
  <2>2. OneMeterer'
    BY <1>3, <1>6, <2>1 DEF FlushSends, Goes, At, AtFlush
  <2> QED
    BY <1>2, <2>1, <2>2 DEF PipeTyped
<1>7. ASSUME Pump PROVE PipeTyped'
  <2>1. pipe' \in Seq(Piece) /\ Len(pipe') = Len(pipe) - 1 /\ UNCHANGED <<lines, meters, at>>
    BY <1>1, <1>7, HeadTailProperties DEF Pump, threadVars
  <2> QED
    BY <1>1, <2>1 DEF PipeTyped
<1>8. ASSUME NEW t \in Threads, StartPrint(t) PROVE PipeTyped'
  <2>1. UNCHANGED <<pipe, lines, meters>>
    BY <1>8 DEF StartPrint, pipeVars
  <2>2. \/ at' = [at EXCEPT ![t] = "print"] \/ at' = [at EXCEPT ![t] = "last words"]
        \/ t = Meterer /\ meters < MaxMeters /\ at' = [at EXCEPT ![t] = "meter"]
    BY <1>8 DEF StartPrint, Goes
  <2> QED
    BY <1>1, <2>1, <2>2 DEF PipeTyped
<1>9. ASSUME NEW t \in Threads,
             \/ StartExit(t) \/ StartKill(t) \/ BoxDismissed(t) \/ FlushLoads(t) \/ FlushEnds(t)
             \/ AfterFlush(t) \/ EmergencyPath(t) \/ EmergencyAppend(t)
      PROVE  PipeTyped'
  <2>1. UNCHANGED <<pipe, lines, meters>>
    BY <1>9 DEF StartExit, StartKill, BoxDismissed, FlushLoads, FlushEnds, AfterFlush,
                EmergencyPath, EmergencyAppend, pipeVars
  <2>2. at' = at \/ \E p \in At \ {"meter"} : at' = [at EXCEPT ![t] = p]
    BY <1>9 DEF StartExit, StartKill, BoxDismissed, FlushLoads, FlushEnds, AfterFlush,
                EmergencyPath, EmergencyAppend, AfterEmergency, threadVars, Goes, At, AtFlush
  <2>3. OneMeterer'
    BY <1>3, <2>1, <2>2 DEF PipeTyped
  <2> QED
    BY <2>1, <2>3 DEF PipeTyped
<1>10. CASE ConsoleWrites \/ UNCHANGED vars
  BY <1>10 DEF ConsoleWrites, vars, threadVars, pipeVars, PipeTyped
<1> QED
  BY <1>4, <1>5, <1>6, <1>7, <1>8, <1>9, <1>10 DEF Next, Step

\* Why a thread ends the process, and whose flush met another's.
LEMMA EndsStayTyped ==
  ASSUME EndsTyped, [Next]_vars
  PROVE  EndsTyped'
<1> USE DEF EndsTyped
<1>1. ASSUME NEW t \in Threads, StartPrint(t) \/ StartExit(t) \/ StartKill(t) PROVE EndsTyped'
  BY <1>1 DEF StartPrint, StartExit, StartKill
<1>2. ASSUME NEW t \in Threads, FlushLoads(t) PROVE EndsTyped'
  BY <1>2 DEF FlushLoads
<1>3. ASSUME NEW t \in Threads, BoxDismissed(t) \/ Step(t), ~FlushLoads(t) PROVE EndsTyped'
  BY <1>3 DEF BoxDismissed, Step, WriteLine, WriteMeter, FlushSends, FlushEnds, AfterFlush,
              EmergencyPath, EmergencyAppend, threadVars
<1>4. CASE Pump \/ ConsoleWrites \/ UNCHANGED vars
  BY <1>4 DEF Pump, ConsoleWrites, vars, threadVars
<1> QED
  BY <1>1, <1>2, <1>3, <1>4 DEF Next, Step

\* Whether a repaint is held, and whether the process runs.
LEMMA LampsStayTyped ==
  ASSUME Lamps, [Next]_vars
  PROVE  Lamps'
<1>1. held' \in {held, TRUE, FALSE} /\ alive' \in {alive, FALSE}
  BY Zenon DEF Next, vars, Step, StartPrint, StartExit, StartKill, BoxDismissed, WriteLine,
     WriteMeter, FlushLoads, FlushSends, FlushEnds, AfterFlush, EmergencyPath, EmergencyAppend,
     Pump, Splits, ConsoleWrites
<1> QED
  BY <1>1, Zenon DEF Lamps

\* What the pump files is a line or a swallowed sentinel; a full queue takes
\* no more.
LEMMA LogStaysTyped ==
  ASSUME IInv, LogInv, PipeTyped, LogTyped, [Next]_vars
  PROVE  LogTyped'
<1>1. /\ QueueMax \in Nat \ {0} /\ MaxParts \in Nat \ {0} /\ MaxLines \in Nat
      /\ part \in Parts /\ begun \in Parts /\ pathOf \in [Threads -> Parts]
      /\ parts \in [Parts -> Seq(Chunk)] /\ queue \in 0 .. QueueMax /\ rolls \in 0 .. MaxParts
  BY TeeAssumption DEF LogInv, FileType, LogTyped
<1>2. ASSUME NEW t \in Threads, EmergencyAppend(t) PROVE LogTyped'
  <2>1. Fatal \in Chunk /\ pathOf[t] \in Parts
    BY <1>1 DEF Chunk
  <2>2. Append(parts[pathOf[t]], Fatal) \in Seq(Chunk)
    BY <1>1, <2>1, AppendProperties
  <2>3. Age(pathOf[t]) \in 0 .. MaxParts
    BY <1>1, <2>1, Ages
  <2>4. UNCHANGED queue /\ (EmergencyLine(pathOf[t]) \/ UNCHANGED <<parts, rolls>>)
    BY <1>2 DEF EmergencyAppend
  <2>5. CASE EmergencyLine(pathOf[t])
    BY <1>1, <2>2, <2>3, <2>4, <2>5 DEF EmergencyLine, LogTyped
  <2> QED
    BY <1>1, <2>4, <2>5 DEF LogTyped
<1>3. ASSUME Pump PROVE LogTyped'
  <2>1. Head(pipe) \in Piece /\ Splits(Head(pipe))
    BY <1>3, HeadTailProperties DEF Pump, PipeTyped
  <2>2. ASSUME NEW x \in Chunk, Files(x)
        PROVE  parts' \in [Parts -> Seq(Chunk)] /\ rolls' \in 0 .. MaxParts
    <3>1. Append(parts[part], x) \in Seq(Chunk) /\ <<>> \in Seq(Chunk)
      BY <1>1, <2>2, AppendProperties, EmptySeq
    <3> DEFINE written == [parts EXCEPT ![part] = Append(@, x)]
    <3>2. written \in [Parts -> Seq(Chunk)]
      BY <1>1, <3>1
    <3>3. [written EXCEPT ![NextPart] = <<>>] \in [Parts -> Seq(Chunk)]
      BY <3>1, <3>2
    <3>4. \/ UNCHANGED <<parts, rolls>>
          \/ parts' = written /\ rolls' = rolls
          \/ /\ parts' = [written EXCEPT ![NextPart] = <<>>]
             /\ rolls' = IF rolls < MaxParts THEN rolls + 1 ELSE rolls
      BY <2>2, Zenon DEF Files, OpenPart, Reopened, fileVars
    <3>5. parts' \in [Parts -> Seq(Chunk)]
      BY <1>1, <3>2, <3>3, <3>4, Zenon
    <3>6. rolls' = rolls \/ rolls' = IF rolls < MaxParts THEN rolls + 1 ELSE rolls
      BY <3>4, Zenon
    <3> QED
      BY <1>1, <3>5, <3>6
  <2>3. Pushes => queue' \in 0 .. QueueMax
    BY <1>1 DEF Pushes
  <2>4. /\ Head(pipe) > 0 => Head(pipe) \in Chunk
        /\ Glued \in Chunk
    BY <1>1, <2>1 DEF Piece, Chunk, Meter, Sync
  <2> QED
    BY <1>1, <2>1, <2>2, <2>3, <2>4 DEF Splits, LogTyped, fileVars
<1>4. CASE ConsoleWrites
  BY <1>1, <1>4 DEF ConsoleWrites, LogTyped, fileVars
<1>5. CASE UNCHANGED <<parts, queue, rolls>>
  BY <1>5 DEF LogTyped
<1>6. [Next]_vars => \/ \E t \in Threads : EmergencyAppend(t)
                     \/ Pump \/ ConsoleWrites \/ UNCHANGED <<parts, queue, rolls>>
  BY ZenonT(60) DEF Next, vars, Step, StartPrint, StartExit, StartKill, BoxDismissed, WriteLine,
     WriteMeter, FlushLoads, FlushSends, FlushEnds, AfterFlush, EmergencyPath, fileVars
<1> QED
  BY <1>2, <1>3, <1>4, <1>5, <1>6

\* Type correctness of the tee: the pipe, the console queue and the parts
\* stay within their sizes, whatever the console and the threads do.
THEOREM TypeCorrect == Spec => []TypeOK
<1> DEFINE Typed == PipeTyped /\ EndsTyped /\ Lamps /\ LogTyped
<1>1. Init => Typed
  <2> SUFFICES ASSUME Init PROVE Typed
    OBVIOUS
  <2>1. /\ pipe = <<>> /\ lines = 0 /\ meters = 0 /\ queue = 0 /\ rolls = 0
        /\ parts = [p \in Parts |-> <<>>] /\ at = [t \in Threads |-> "run"]
    BY Zenon DEF Init
  <2>2. EndsTyped /\ Lamps
    BY Zenon DEF Init, EndsTyped, Lamps
  <2>3. <<>> \in Seq(Piece) /\ <<>> \in Seq(Chunk) /\ Len(<<>>) = 0
    BY EmptySeq
  <2>4. PipeTyped
    BY <2>1, <2>3, TeeAssumption DEF PipeTyped
  <2>5. LogTyped
    BY <2>1, <2>3, TeeAssumption DEF LogTyped
  <2> QED
    BY <2>2, <2>4, <2>5
<1>2. IInv /\ LogInv /\ Typed /\ [Next]_vars => Typed'
  BY PipeStaysTyped, EndsStayTyped, LampsStayTyped, LogStaysTyped
<1>3. IInv /\ LogInv /\ Typed => TypeOK
  <2> SUFFICES ASSUME IInv, LogInv, Typed PROVE TypeOK
    OBVIOUS
  <2>1. \A t \in Threads : last[t] \in 0 .. MaxLines
    BY TeeAssumption, SMTT(60) DEF IInv, ShapeInv, PipeTyped
  <2>2. last \in [Threads -> 0 .. MaxLines] /\ want \in [Threads -> Nat] /\ at \in [Threads -> At]
    BY <2>1 DEF IInv, ShapeInv
  <2>3. filed \in 0 .. MaxLines /\ pumped \in 0 .. MaxLines /\ acked \in Nat /\ open \in BOOLEAN
    BY TeeAssumption DEF IInv, ShapeInv, PipeInv, PipeTyped, Taken, UpToDate
  <2>4. /\ pathOf \in [Threads -> Parts] /\ part \in Parts /\ begun \in Parts
        /\ fill \in 0 .. PartMax - 1
    BY DEF LogInv, FileType
  <2> QED
    BY <2>2, <2>3, <2>4, Zenon DEF TypeOK, PipeTyped, EndsTyped, Lamps, LogTyped, Piece, Chunk
<1> QED
  BY <1>1, <1>2, <1>3, Invariance, LogInvariance, PTL DEF Spec
=============================================================================
