--------------------------- MODULE AppleAESProofs ---------------------------
(***************************************************************************)
(* Proofs about the AES engine, for any number of workers, any commands    *)
(* and any values the guest writes: types, the single worker and its       *)
(* cipher, and the level of the command FIFO.                              *)
(***************************************************************************)
EXTENDS AppleAES, TLAPS, FiniteSetTheorems

\* A step that names no prover is tried with Z3, then with Zenon.
USE SMTT(20), ZenonT(30)

\* qemu_cond_signal moves no worker that is not waiting.
LEMMA SignalledType ==
    ASSUME pc \in [Workers -> Places], NEW new \in Signalled
    PROVE  /\ new \in [Workers -> Places]
           /\ \A w \in Workers : new[w] = pc[w] \/ (pc[w] = "wait" /\ new[w] = "test")
BY DEF Signalled, Waiting, Places, Executing

\* aes_update_irq and aes_update_command_fifo_status keep the status register
\* in range.
LEMMA UpdateIrqType ==
    ASSUME NEW status \in SUBSET Bits, NEW enable \in SUBSET Bits,
           aes_update_irq(status, enable)
    PROVE  /\ int_status' \subseteq Bits
           /\ int_enable' \subseteq Bits
           /\ last_level' \in BOOLEAN
BY DEF aes_update_irq

LEMMA UpdateFifoType ==
    ASSUME NEW n \in 0 .. LevelRange - 1, NEW status \in SUBSET Bits,
           int_enable \subseteq Bits, aes_update_command_fifo_status(n, status)
    PROVE  /\ level' \in 0 .. LevelRange - 1
           /\ int_status' \subseteq Bits
           /\ int_enable' \subseteq Bits
           /\ last_level' \in BOOLEAN
BY Zenon DEF aes_update_command_fifo_status, aes_update_irq, Bits

\* The level has eight bits, whatever is added to it or taken off.
LEMMA EightBits == \A n \in Int : n % LevelRange \in 0 .. LevelRange - 1
BY DEF LevelRange

-----------------------------------------------------------------------------
(* The three parts of the type invariant.                                  *)

FifoOK ==
    /\ command \in {NoCommand} \cup [op : Ops \cup {Lost}, read : Nat \ {0}]
    /\ command.op \in Ops => command.read < Words[command.op]
    /\ queue \in Seq(Ops)
    /\ level \in 0 .. LevelRange - 1
    /\ watermark \in Watermarks \cup {0}
    /\ int_status \subseteq Bits
    /\ int_enable \subseteq Bits

WorkersOK ==
    /\ pc \in [Workers -> Places]
    /\ cmd \in [Workers -> Ops \cup {None}]
    /\ \A w \in Workers : pc[w] \in Executing => cmd[w] \in Ops
    /\ thread \in Workers \cup {None}

FlagsOK ==
    /\ last_level \in BOOLEAN /\ stopped \in BOOLEAN
    /\ cipher \in BOOLEAN /\ disabled \in BOOLEAN
    /\ joining \in BOOLEAN /\ saving \in BOOLEAN /\ calm \in BOOLEAN
    /\ abandoned \in BOOLEAN /\ disturbed \in BOOLEAN /\ lost \in BOOLEAN

LEMMA TypeParts == TypeOK <=> FifoOK /\ WorkersOK /\ FlagsOK
BY DEF TypeOK, FifoOK, WorkersOK, FlagsOK

LEMMA TypePartsPrimed == TypeOK' <=> FifoOK' /\ WorkersOK' /\ FlagsOK'
BY DEF TypeOK, FifoOK, WorkersOK, FlagsOK

LEMMA FlagsStep == FlagsOK /\ [Next]_vars => FlagsOK'
<1> SUFFICES ASSUME FlagsOK, [Next]_vars PROVE FlagsOK'
  OBVIOUS
<1> USE DEF FlagsOK, irq, worker, joins, history, aes_update_irq,
            aes_update_command_fifo_status
<1>1. CASE Guest
  <2>1. CASE aes_start
    BY <2>1, Zenon DEF aes_start
  <2>2. CASE aes_stop(FALSE)
    BY <2>2, Zenon DEF aes_stop
  <2>3. CASE aes_empty_fifo \/ apple_aes_reset
    <3>1. Busy \in BOOLEAN
      BY DEF Busy
    <3>2. CASE aes_empty_fifo
      BY <3>1, <3>2, Zenon DEF aes_empty_fifo
    <3>3. CASE apple_aes_reset
      BY <3>1, <3>3, Zenon DEF apple_aes_reset
    <3> QED BY ONLY <2>3, <3>2, <3>3
  <2>4. CASE WriteFifoUnknown
    BY <2>4 DEF WriteFifoUnknown
  <2>5. ASSUME NEW op \in Ops, WriteFifo(op)
        PROVE FlagsOK'
    BY <2>5 DEF WriteFifo
  <2>6. ASSUME NEW v, WriteIntStatus(v) \/ WriteIntEnable(v) \/ WriteWatermarks(v)
        PROVE FlagsOK'
    <3>1. CASE WriteIntStatus(v)
      BY <3>1 DEF WriteIntStatus
    <3>2. CASE WriteIntEnable(v)
      BY <3>2 DEF WriteIntEnable
    <3>3. CASE WriteWatermarks(v)
      BY <3>3 DEF WriteWatermarks
    <3> QED BY ONLY <2>6, <3>1, <3>2, <3>3
  <2> QED
    BY ONLY <1>1, <2>1, <2>2, <2>3, <2>4, <2>5, <2>6, Zenon DEF Guest
<1>2. CASE aes_stop(TRUE)
  BY <1>2, Zenon DEF aes_stop
<1>3. CASE StopDone \/ SaveDone
  BY <1>3, Zenon DEF StopDone, SaveDone, JoinReturns
<1>6. CASE apple_aes_post_load
  <2>1. Busy \in BOOLEAN
    BY DEF Busy
  <2>2. KeySelected \subseteq BOOLEAN
    BY Zenon DEF KeySelected
  <2>3. /\ disabled' \in BOOLEAN /\ cipher' = ~disabled'
        /\ abandoned' = FALSE /\ disturbed' = (disturbed \/ Busy)
        /\ UNCHANGED <<irq, lost>>
    BY <1>6, <2>2, Zenon DEF apple_aes_post_load, Loaded
  <2>4. /\ stopped' \in {stopped, FALSE}
        /\ joining' \in {joining, FALSE} /\ saving' \in {saving, FALSE}
        /\ calm' \in {calm, FALSE}
    BY <1>6, Zenon DEF apple_aes_post_load, JoinReturns
  <2> QED BY <2>1, <2>3, <2>4, Zenon
<1>4. ASSUME NEW w \in Workers, aes_thread(w) \/ WakeSpuriously(w)
      PROVE FlagsOK'
  <2>1. CASE Finish(w)
    BY <2>1, Zenon DEF Finish
  <2>2. CASE Begin(w)
    BY <2>2 DEF Begin
  <2> QED
    BY <1>4, <2>1, <2>2 DEF aes_thread, Loop, Take, Crypt, Test, Sleep, WakeSpuriously
<1>5. CASE UNCHANGED vars
  BY <1>5 DEF vars
<1> QED BY <1>1, <1>2, <1>3, <1>4, <1>5, <1>6, Zenon DEF Next

\* A worker goes to another place and keeps what it has.
LEMMA MoveOK ==
    ASSUME WorkersOK, NEW w \in Workers, NEW to \in Places,
           to \in Executing => cmd[w] \in Ops,
           pc' = [pc EXCEPT ![w] = to], UNCHANGED <<cmd, thread>>
    PROVE  WorkersOK'
BY DEF WorkersOK

LEMMA SignalledOK ==
    ASSUME WorkersOK, pc' \in Signalled, UNCHANGED <<cmd, thread>>
    PROVE  WorkersOK'
BY SignalledType DEF WorkersOK, Executing

LEMMA WorkersStep == TypeOK /\ [Next]_vars => WorkersOK'
<1> SUFFICES ASSUME TypeOK, [Next]_vars PROVE WorkersOK'
  OBVIOUS
<1>0. WorkersOK
  BY TypeParts
<1>1. CASE UNCHANGED <<pc, cmd, thread>>
  BY <1>0, <1>1 DEF WorkersOK
<1>2. ASSUME NEW op \in Ops, WriteFifo(op)
      PROVE WorkersOK'
  <2>1. UNCHANGED <<cmd, thread>> /\ (pc' = pc \/ pc' \in Signalled)
    BY <1>2 DEF WriteFifo, Assemble, Enqueue
  <2> QED BY <1>0, <1>1, <2>1, SignalledOK
<1>3. CASE aes_start
  <2>1. CASE stopped
    <3>1. thread' \in Workers
      BY <1>3, <2>1 DEF aes_start
    <3> QED BY <1>0, <1>3, <2>1, <3>1 DEF aes_start, WorkersOK, Places, Executing
  <2> QED BY <1>1, <1>3, <2>1 DEF aes_start
<1>4. ASSUME NEW save \in BOOLEAN, aes_stop(save)
      PROVE WorkersOK'
  <2>1. UNCHANGED <<cmd, thread>> /\ (pc' = pc \/ pc' \in Signalled)
    BY <1>4 DEF aes_stop
  <2> QED BY <1>0, <1>1, <2>1, SignalledOK
<1>5. CASE apple_aes_post_load
  <2>1. /\ cmd' = [w \in Workers |-> None]
        /\ \/ thread' \in Workers
              /\ pc' = [w \in Workers |-> IF w = thread' THEN "loop" ELSE "gone"]
           \/ pc' = [w \in Workers |-> "gone"] /\ UNCHANGED thread
    BY <1>5, Zenon DEF apple_aes_post_load, Loaded
  <2> QED BY <1>0, <2>1 DEF WorkersOK, Places, Executing
<1>6. ASSUME NEW w \in Workers, aes_thread(w) \/ WakeSpuriously(w)
      PROVE WorkersOK'
  <2>1. CASE Loop(w) \/ Test(w) \/ Sleep(w) \/ WakeSpuriously(w)
    <3>1. PICK to \in {"gone", "loop", "take", "test", "sleep", "wait"} :
               pc' = [pc EXCEPT ![w] = to]
      BY <2>1 DEF Loop, Test, Sleep, WakeSpuriously
    <3>2. UNCHANGED <<cmd, thread>>
      BY <2>1 DEF Loop, Test, Sleep, WakeSpuriously
    <3> QED BY <1>0, <3>1, <3>2, MoveOK, Zenon DEF Places, Executing
  <2>2. CASE Begin(w) \/ Crypt(w)
    <3>1. PICK to \in Executing : pc' = [pc EXCEPT ![w] = to]
      BY <2>2 DEF Begin, Crypt, Executing
    <3>2. UNCHANGED <<cmd, thread>> /\ cmd[w] \in Ops
      BY <1>0, <2>2 DEF Begin, Crypt, WorkersOK, Executing
    <3> QED BY <1>0, <3>1, <3>2, MoveOK, Zenon DEF Places
  <2>3. CASE Take(w)
    <3>1. CASE queue = <<>>
      BY <1>0, <2>3, <3>1, MoveOK DEF Take, Places, Executing
    <3>2. CASE queue # <<>>
      <4>1. Head(queue) \in Ops
        BY <3>2 DEF TypeOK
      <4> QED BY <1>0, <2>3, <3>2, <4>1 DEF Take, WorkersOK, Places, Executing
    <3> QED BY <3>1, <3>2
  <2>4. CASE Finish(w)
    BY <1>0, <2>4 DEF Finish, WorkersOK, Places, Executing
  <2> QED BY <1>6, <2>1, <2>2, <2>3, <2>4 DEF aes_thread
<1> QED
  BY <1>1, <1>2, <1>3, <1>4, <1>5, <1>6, Zenon
  DEF Next, Guest, vars, worker, WriteIntStatus, WriteIntEnable, WriteWatermarks,
      WriteFifoUnknown, aes_empty_fifo, apple_aes_reset, StopDone, SaveDone

\* A word is counted and the status follows; the watermark stays.
LEMMA WordCounted ==
    ASSUME FifoOK, NEW n \in Int, NEW status \in SUBSET Bits,
           aes_update_command_fifo_status(n % LevelRange, status)
    PROVE  level' \in 0 .. LevelRange - 1 /\ int_status' \subseteq Bits /\ int_enable' \subseteq Bits
<1>1. n % LevelRange \in 0 .. LevelRange - 1
  BY EightBits
<1> QED BY <1>1, UpdateFifoType DEF FifoOK

LEMMA FifoStep == TypeOK /\ [Next]_vars => FifoOK'
<1> SUFFICES ASSUME TypeOK, [Next]_vars PROVE FifoOK'
  OBVIOUS
<1>0. FifoOK /\ level \in Int /\ int_status \in SUBSET Bits /\ int_enable \in SUBSET Bits
  BY TypeParts DEF FifoOK
<1>1. CASE UNCHANGED <<fifo, int_status, int_enable>>
  BY <1>0, <1>1 DEF FifoOK, fifo
<1>2. ASSUME NEW v, WriteIntStatus(v)
      PROVE FifoOK'
  BY <1>0, <1>2 DEF WriteIntStatus, aes_update_irq, FifoOK, fifo
<1>3. ASSUME NEW v \in EnableVals, WriteIntEnable(v)
      PROVE FifoOK'
  BY <1>0, <1>3, EnableAssumption DEF WriteIntEnable, aes_update_irq, FifoOK, fifo
<1>4. ASSUME NEW v \in Watermarks, WriteWatermarks(v)
      PROVE FifoOK'
  <2>1. level' \in 0 .. LevelRange - 1 /\ int_status' \subseteq Bits /\ int_enable' \subseteq Bits
    BY <1>0, <1>4, UpdateFifoType DEF WriteWatermarks, FifoOK
  <2> QED BY <1>0, <1>4, <2>1 DEF WriteWatermarks, FifoOK
<1>5. ASSUME NEW op \in Ops, WriteFifo(op)
      PROVE FifoOK'
  <2>1. PICK read \in Nat \ {0} : Assemble(op, read)
    <3>1. command # NoCommand => command.read \in Nat
      BY <1>0 DEF FifoOK
    <3> QED BY <1>5, <3>1 DEF WriteFifo
  <2>2. level' \in 0 .. LevelRange - 1 /\ int_status' \subseteq Bits /\ int_enable' \subseteq Bits
    BY <1>0, <1>5, WordCounted DEF WriteFifo
  <2>3. watermark' \in Watermarks \cup {0}
    BY <1>0, <1>5 DEF WriteFifo, FifoOK
  <2>4. CASE read >= Words[op]
    <3>1. queue' = Append(queue, op) /\ command' = NoCommand
      BY <2>1, <2>4 DEF Assemble, Enqueue
    <3>2. NoCommand.op \notin Ops
      BY OpsAssumption DEF NoCommand, None
    <3> QED BY <1>0, <2>2, <2>3, <3>1, <3>2 DEF FifoOK
  <2>5. CASE ~(read >= Words[op])
    <3>1. command' = [op |-> op, read |-> read] /\ UNCHANGED queue
      BY <2>1, <2>5 DEF Assemble
    <3>2. read < Words[op]
      BY <2>5, WordsAssumption
    <3> QED BY <1>0, <2>2, <2>3, <3>1, <3>2 DEF FifoOK
  <2> QED BY <2>4, <2>5
<1>6. CASE WriteFifoUnknown
  <2>1. int_status \cup {"invalid_command"} \in SUBSET Bits
    BY <1>0 DEF Bits
  <2>2. level' \in 0 .. LevelRange - 1 /\ int_status' \subseteq Bits /\ int_enable' \subseteq Bits
    BY <1>0, <1>6, <2>1, WordCounted DEF WriteFifoUnknown
  <2> QED BY <1>0, <1>6, <2>2 DEF WriteFifoUnknown, FifoOK
<1>7. CASE aes_empty_fifo
  <2>1. 0 \in 0 .. LevelRange - 1
    BY DEF LevelRange
  <2>2. level' \in 0 .. LevelRange - 1 /\ int_status' \subseteq Bits /\ int_enable' \subseteq Bits
    BY <1>0, <1>7, <2>1, UpdateFifoType DEF aes_empty_fifo
  <2> QED BY <1>0, <1>7, <2>2 DEF aes_empty_fifo, FifoOK
<1>8. CASE apple_aes_reset
  <2>1. NoCommand.op \notin Ops
    BY OpsAssumption DEF NoCommand, None
  <2> QED BY <1>8, <2>1 DEF apple_aes_reset, aes_update_irq, FifoOK, LevelRange
<1>9. ASSUME NEW w \in Workers, Take(w)
      PROVE FifoOK'
  <2>1. UNCHANGED <<command, level, watermark, int_status, int_enable>>
    BY <1>9 DEF Take, irq
  <2>2. queue \in Seq(Ops) /\ (queue' = queue \/ (queue # <<>> /\ queue' = Tail(queue)))
    BY <1>0, <1>9 DEF Take, FifoOK
  <2>3. queue' \in Seq(Ops)
    BY <2>2
  <2> QED BY <1>0, <2>1, <2>3 DEF FifoOK
<1>10. ASSUME NEW w \in Workers, Finish(w)
       PROVE FifoOK'
  <2>1. level - Words[cmd[w]] \in Int
    BY <1>0, <1>10, WordsAssumption, TypeParts DEF Finish, WorkersOK, Executing
  <2>2. Outcome(w) \in SUBSET Bits
    BY <1>0 DEF Outcome, Bits
  <2>3. level' \in 0 .. LevelRange - 1 /\ int_status' \subseteq Bits /\ int_enable' \subseteq Bits
    BY <1>0, <1>10, <2>1, <2>2, WordCounted DEF Finish
  <2> QED BY <1>0, <1>10, <2>3 DEF Finish, FifoOK
<1>11. CASE apple_aes_post_load
  <2>1. UNCHANGED <<queue, level, watermark, int_status, int_enable>>
    BY <1>11 DEF apple_aes_post_load, Loaded, irq
  <2>2. command' \in {NoCommand} \cup [op : {Lost}, read : Nat \ {0}]
    BY <1>0, <1>11 DEF apple_aes_post_load, Loaded, FifoOK
  <2>3. Lost \notin Ops /\ NoCommand.op \notin Ops
    BY OpsAssumption DEF Lost, NoCommand, None
  <2> QED BY <1>0, <2>1, <2>2, <2>3 DEF FifoOK
<1> QED
  BY <1>1, <1>2, <1>3, <1>4, <1>5, <1>6, <1>7, <1>8, <1>9, <1>10, <1>11, ZenonT(30)
  DEF Next, Guest, vars, irq, aes_thread, Loop, Begin, Crypt, Test, Sleep,
      WakeSpuriously, aes_start, aes_stop, StopDone, SaveDone

(***************************************************************************)
(* Every handler of aes.c and every step of a worker keeps the state in    *)
(* range: the level wraps with its eight bits, a command in assembly is    *)
(* never complete, the queue holds known commands, and a worker in         *)
(* aes_process_command has one.                                            *)
(***************************************************************************)
THEOREM TypeCorrect == SafetySpec => []TypeOK
<1>1. Init => TypeOK
  <2> SUFFICES ASSUME Init PROVE TypeOK
    OBVIOUS
  <2>1. FifoOK
    <3>1. NoCommand.op \notin Ops
      BY OpsAssumption DEF NoCommand, None
    <3> QED BY <3>1 DEF Init, FifoOK, LevelRange
  <2>2. WorkersOK
    BY DEF Init, WorkersOK, Places, Executing
  <2>3. FlagsOK
    BY Zenon DEF Init, FlagsOK
  <2> QED BY <2>1, <2>2, <2>3, TypeParts
<1>2. TypeOK /\ [Next]_vars => TypeOK'
  BY TypeParts, TypePartsPrimed, FifoStep, WorkersStep, FlagsStep
<1> QED BY <1>1, <1>2, PTL DEF SafetySpec

-----------------------------------------------------------------------------
(* The workers.                                                            *)

\* Unless one was abandoned, no worker but the last one started is alive, and
\* none at all once aes_stop has returned.
Joined ==
    ~abandoned => /\ Alive \subseteq {thread}
                  /\ stopped /\ ~joining => Alive = {}

\* Nobody comes alive except by aes_start and apple_aes_post_load.
LEMMA NobodyAppears ==
    ASSUME TypeOK, [Next]_vars, ~aes_start, ~apple_aes_post_load
    PROVE  Alive' \subseteq Alive /\ thread' = thread
<1>0. pc \in [Workers -> Places]
  BY DEF TypeOK
<1>1. ASSUME pc' = pc PROVE Alive' \subseteq Alive
  BY <1>1 DEF Alive
<1>2. ASSUME pc' \in Signalled PROVE Alive' \subseteq Alive
  BY <1>0, <1>2, SignalledType DEF Alive
<1>3. ASSUME NEW w \in Alive, NEW to, pc' = [pc EXCEPT ![w] = to]
      PROVE Alive' \subseteq Alive
  BY <1>0, <1>3 DEF Alive
<1>4. CASE Guest
  <2>1. pc' = pc \/ pc' \in Signalled
    BY <1>4, Zenon DEF Guest, WriteIntStatus, WriteIntEnable, WriteWatermarks, WriteFifo,
       Assemble, Enqueue, WriteFifoUnknown, aes_empty_fifo, aes_stop, apple_aes_reset, worker
  <2>2. thread' = thread
    BY <1>4, Zenon DEF Guest, WriteIntStatus, WriteIntEnable, WriteWatermarks, WriteFifo,
       WriteFifoUnknown, aes_empty_fifo, aes_stop, apple_aes_reset, worker
  <2> QED BY <1>1, <1>2, <2>1, <2>2
<1>5. CASE aes_stop(TRUE) \/ StopDone \/ SaveDone \/ UNCHANGED vars
  <2>1. (pc' = pc \/ pc' \in Signalled) /\ thread' = thread
    BY <1>5 DEF aes_stop, StopDone, SaveDone, worker, vars
  <2> QED BY <1>1, <1>2, <2>1
<1>6. ASSUME NEW w \in Workers, aes_thread(w) \/ WakeSpuriously(w)
      PROVE Alive' \subseteq Alive /\ thread' = thread
  <2>1. w \in Alive
    BY <1>6, Zenon DEF aes_thread, Loop, Take, Begin, Crypt, Finish, Test, Sleep, WakeSpuriously, Alive
  <2>2. \E to : pc' = [pc EXCEPT ![w] = to]
    BY <1>6, Zenon DEF aes_thread, Loop, Take, Begin, Crypt, Finish, Test, Sleep, WakeSpuriously
  <2>3. thread' = thread
    BY <1>6, Zenon DEF aes_thread, Loop, Take, Begin, Crypt, Finish, Test, Sleep, WakeSpuriously
  <2> QED BY <1>3, <2>1, <2>2, <2>3, Zenon
<1> QED BY <1>4, <1>5, <1>6, Zenon DEF Next

\* The engine is stopped, and nobody waits for its worker, after the join only,
\* unless the worker is abandoned.
LEMMA StoppedByJoin ==
    ASSUME TypeOK, [Next]_vars, ~aes_start, ~apple_aes_post_load, ~abandoned'
    PROVE  /\ ~abandoned
           /\ stopped' /\ ~joining' =>
                 (stopped /\ ~joining) \/ pc[thread] = "gone" \/ Alive = {}
<1>1. CASE UNCHANGED <<stopped, joining, abandoned>>
  BY <1>1, Zenon
<1>0. ASSUME NEW save, aes_stop(save)
      PROVE  /\ ~abandoned
             /\ stopped' /\ ~joining' => stopped /\ ~joining
  <2>1. abandoned' = abandoned
    BY <1>0 DEF aes_stop
  <2>2. CASE stopped
    BY <1>0, <2>1, <2>2 DEF aes_stop, joins
  <2>3. CASE ~stopped
    BY <1>0, <2>1, <2>3 DEF aes_stop
  <2> QED BY <2>2, <2>3
<1>2. CASE Guest
  <2>1. CASE aes_stop(FALSE)
    BY <1>0, <2>1
  <2>2. CASE apple_aes_reset
    BY <2>2, Zenon DEF apple_aes_reset
  <2> QED
    BY <1>1, <1>2, <2>1, <2>2, Zenon
    DEF Guest, WriteIntStatus, WriteIntEnable, WriteWatermarks, WriteFifo,
        WriteFifoUnknown, aes_empty_fifo, history, joins
<1>3. CASE aes_stop(TRUE)
  BY <1>0, <1>3
<1>4. CASE StopDone \/ SaveDone
  <2>1. abandoned' = abandoned /\ pc[thread] = "gone"
    BY <1>4, Zenon DEF StopDone, SaveDone, JoinReturns
  <2> QED BY <2>1, Zenon
<1>5. ASSUME NEW w \in Workers, aes_thread(w) \/ WakeSpuriously(w)
      PROVE  ~abandoned /\ UNCHANGED <<stopped, joining>>
  <2>1. CASE Finish(w)
    <3>1. /\ abandoned' = (abandoned \/ cmd[w] = "stop_flag")
          /\ stopped' = (stopped \/ cmd[w] = "stop_flag") /\ joining' = joining
      BY <2>1 DEF Finish, joins
    <3>2. stopped \in BOOLEAN
      BY DEF TypeOK
    <3> QED BY <3>1, <3>2, Zenon
  <2>2. CASE ~Finish(w)
    <3>1. UNCHANGED <<stopped, joining, abandoned>>
      BY <1>5, <2>2, Zenon
      DEF aes_thread, Loop, Take, Begin, Crypt, Test, Sleep, WakeSpuriously, history, joins
    <3> QED BY <3>1, Zenon
  <2> QED BY <2>1, <2>2
<1>6. CASE UNCHANGED vars
  BY <1>1, <1>6, Zenon DEF vars, history, joins
<1> QED BY <1>1, <1>2, <1>3, <1>4, <1>5, <1>6, Zenon DEF Next

LEMMA AlwaysJoined == SafetySpec => []Joined
<1>1. Init => Joined
  BY DEF Init, Joined, Alive
<1>2. TypeOK /\ Joined /\ [Next]_vars => Joined'
  <2> SUFFICES ASSUME TypeOK, Joined, [Next]_vars, ~abandoned'
               PROVE  /\ Alive' \subseteq {thread'}
                      /\ stopped' /\ ~joining' => Alive' = {}
    BY DEF Joined
  <2>1. CASE aes_start
    <3>1. CASE stopped
      <4>1. /\ thread' \in Workers /\ ~joining
            /\ pc' = [pc EXCEPT ![thread'] = "loop"]
            /\ ~stopped' /\ abandoned' = (abandoned /\ Alive # {})
        BY <2>1, <3>1 DEF aes_start, BQLFree
      <4>2. Alive = {}
        BY <3>1, <4>1, Zenon DEF Joined
      <4>3. pc \in [Workers -> Places] /\ \A w \in Workers : pc[w] = "gone"
        BY <4>2 DEF Alive, TypeOK
      <4>4. Alive' \subseteq {thread'}
        BY <4>1, <4>3 DEF Alive
      <4> QED BY <4>1, <4>4
    <3>2. CASE ~stopped
      <4>1. UNCHANGED <<stopped, pc, thread, abandoned>>
        BY <2>1, <3>2 DEF aes_start
      <4> QED BY <3>2, <4>1 DEF Joined, Alive
    <3> QED BY <3>1, <3>2
  <2>2. CASE apple_aes_post_load
    <3>1. \/ ~stopped' /\ pc' = [w \in Workers |-> IF w = thread' THEN "loop" ELSE "gone"]
          \/ pc' = [w \in Workers |-> "gone"]
      BY <2>2, Zenon DEF apple_aes_post_load
    <3> QED BY <3>1 DEF Alive
  <2>3. CASE ~aes_start /\ ~apple_aes_post_load
    <3>1. Alive' \subseteq Alive /\ thread' = thread
      BY <2>3, NobodyAppears
    <3>2. /\ ~abandoned
          /\ stopped' /\ ~joining' =>
                (stopped /\ ~joining) \/ pc[thread] = "gone" \/ Alive = {}
      BY <2>3, StoppedByJoin
    <3>3. Alive \subseteq {thread} /\ (pc[thread] = "gone" => Alive = {})
      BY <3>2 DEF Joined, Alive
    <3> QED BY <3>1, <3>2, <3>3 DEF Joined
  <2> QED BY <2>1, <2>2, <2>3
<1> QED BY <1>1, <1>2, TypeCorrect, PTL DEF SafetySpec

(***************************************************************************)
(* Unless a FLAG or a reset has left a worker behind, aes_stop's join      *)
(* keeps workers apart, and so DATA runs on a cipher that exists: the test *)
(* and the use in aes_process_command hold no lock, but only that worker   *)
(* frees it.                                                               *)
(***************************************************************************)
THEOREM WorkerIsAlone == SafetySpec => []LoneWorker
<1>1. Init => LoneWorker
  BY DEF Init, LoneWorker, Alive
<1>2. TypeOK /\ Joined /\ Joined' /\ LoneWorker /\ [Next]_vars => LoneWorker'
  <2> SUFFICES ASSUME TypeOK, Joined, Joined', LoneWorker, [Next]_vars, ~abandoned',
                      NEW v \in Workers, pc'[v] = "crypt"
               PROVE  cipher'
    BY DEF LoneWorker, Joined
  <2>1. CASE aes_start
    <3>1. CASE stopped
      <4>1. /\ thread' \in Workers /\ pc' = [pc EXCEPT ![thread'] = "loop"] /\ ~joining
            /\ abandoned' = (abandoned /\ Alive # {})
        BY <2>1, <3>1 DEF aes_start, BQLFree
      <4>2. Alive = {}
        BY <3>1, <4>1, Zenon DEF Joined
      <4> QED BY <4>1, <4>2, Zenon DEF TypeOK, Alive
    <3>2. CASE ~stopped
      <4>1. UNCHANGED <<pc, cipher, abandoned>>
        BY <2>1, <3>2 DEF aes_start
      <4> QED BY <4>1 DEF LoneWorker
    <3> QED BY <3>1, <3>2
  <2>2. CASE apple_aes_post_load
    <3>1. \/ pc' = [w \in Workers |-> IF w = thread' THEN "loop" ELSE "gone"]
          \/ pc' = [w \in Workers |-> "gone"]
      BY <2>2, Zenon DEF apple_aes_post_load
    <3> QED BY <3>1
  <2>3. CASE ~aes_start /\ ~apple_aes_post_load
    <3>1. ~abandoned /\ v \in Alive'
      BY <2>3, StoppedByJoin DEF Alive
    <3>2. v \in Alive
      BY <2>3, <3>1, NobodyAppears
    <3>3. CASE pc[v] = "crypt" /\ cipher' = cipher
      BY <3>1, <3>3 DEF LoneWorker
    <3>4. ASSUME NEW w \in Workers, aes_thread(w) \/ WakeSpuriously(w)
          PROVE cipher'
      <4>1. w \in Alive
        BY <3>4, Zenon DEF aes_thread, Loop, Take, Begin, Crypt, Finish, Test, Sleep, WakeSpuriously, Alive
      <4>2. w = v
        BY <3>1, <3>2, <4>1 DEF LoneWorker
      <4>3. Begin(v)
        BY <3>4, <4>2, Zenon DEF aes_thread, Loop, Take, Crypt, Finish, Test, Sleep, WakeSpuriously, TypeOK
      <4> QED BY <4>3 DEF Begin, TypeOK
    <3>5. CASE Guest
      <4>1. pc' = pc \/ pc' \in Signalled
        BY <2>3, <3>5, Zenon DEF Guest, WriteIntStatus, WriteIntEnable, WriteWatermarks, WriteFifo,
           Assemble, Enqueue, WriteFifoUnknown, aes_empty_fifo, aes_stop, apple_aes_reset, worker
      <4>2. pc[v] = "crypt"
        BY <4>1, SignalledType DEF TypeOK
      <4>3. cipher' = cipher
        BY <2>3, <3>5, Zenon DEF Guest, WriteIntStatus, WriteIntEnable, WriteWatermarks, WriteFifo,
           WriteFifoUnknown, aes_empty_fifo, aes_stop, apple_aes_reset, worker
      <4> QED BY <3>3, <4>2, <4>3
    <3>6. CASE aes_stop(TRUE) \/ StopDone \/ SaveDone \/ UNCHANGED vars
      <4>1. (pc' = pc \/ pc' \in Signalled) /\ cipher' = cipher
        BY <3>6 DEF aes_stop, StopDone, SaveDone, worker, vars
      <4>2. pc[v] = "crypt"
        BY <4>1, SignalledType DEF TypeOK
      <4> QED BY <3>3, <4>1, <4>2
    <3> QED BY <2>3, <3>4, <3>5, <3>6, Zenon DEF Next
  <2> QED BY <2>1, <2>2, <2>3
<1> QED BY <1>1, <1>2, TypeCorrect, AlwaysJoined, PTL DEF SafetySpec

-----------------------------------------------------------------------------
(* The level.                                                              *)

\* The words of one command.
LEMMA CommandWords ==
    ASSUME NEW x, NEW n \in Nat
    PROVE  /\ IsFiniteSet({x} \X (1 .. n)) /\ Cardinality({x} \X (1 .. n)) = n
<1>1. IsFiniteSet({x}) /\ Cardinality({x}) = 1
  BY FS_Singleton
<1>2. IsFiniteSet(1 .. n) /\ Cardinality(1 .. n) = n
  BY FS_Interval
<1>3. /\ IsFiniteSet({x} \X (1 .. n))
      /\ Cardinality({x} \X (1 .. n)) = Cardinality({x}) * Cardinality(1 .. n)
  BY <1>1, <1>2, FS_Product, Zenon
<1>4. 1 * n = n
  OBVIOUS
<1> QED BY <1>1, <1>2, <1>3, <1>4

\* g holds the commands of f and, at x where f has none, the command op.
Adds(f, g, x, op) ==
    /\ \A i : i \in DOMAIN g <=> i \in DOMAIN f \/ i = x
    /\ g[x] = op
    /\ x \in DOMAIN f => f[x] = None
    /\ \A i \in DOMAIN f : i # x => g[i] = f[i]

\* A command more has its words more.
LEMMA OneMore ==
    ASSUME NEW f, NEW g, NEW x, NEW op \in Ops, Adds(f, g, x, op),
           IsFiniteSet(WordsOf(f)) \/ IsFiniteSet(WordsOf(g))
    PROVE  /\ IsFiniteSet(WordsOf(f)) /\ IsFiniteSet(WordsOf(g))
           /\ Cardinality(WordsOf(f)) \in Nat /\ Cardinality(WordsOf(g)) \in Nat
           /\ Words[op] \in Nat
           /\ Cardinality(WordsOf(g)) = Cardinality(WordsOf(f)) + Words[op]
<1>0. Words[op] \in Nat /\ op # None
  BY WordsAssumption, OpsAssumption DEF None
<1> DEFINE B == {x} \X (1 .. Words[op])
           F == WordsOf(f)
           G == WordsOf(g)
<1>1. IsFiniteSet(B) /\ Cardinality(B) = Words[op]
  BY <1>0, CommandWords, Zenon
<1>2. G = F \cup B
  BY <1>0 DEF WordsOf, Adds
<1>3. F \cap B = {}
  BY DEF WordsOf, Adds
<1> HIDE DEF B, F, G
<1>4. IsFiniteSet(F)
  <2>1. F \in SUBSET G
    BY <1>2
  <2>2. IsFiniteSet(G) => IsFiniteSet(F)
    BY <2>1, FS_Subset
  <2> QED BY <2>2 DEF F, G
<1>5. /\ IsFiniteSet(G)
      /\ Cardinality(G) = Cardinality(F) + Cardinality(B) - Cardinality({})
  BY <1>1, <1>2, <1>3, <1>4, FS_Union
<1>6. Cardinality(F) \in Nat /\ Cardinality(G) \in Nat /\ Cardinality({}) = 0
  BY <1>4, <1>5, FS_CardinalityType, FS_EmptySet
<1> QED BY <1>0, <1>1, <1>4, <1>5, <1>6 DEF F, G

\* The words of a queue without its first command.
LEMMA OneTaken ==
    ASSUME NEW q \in Seq(Ops), q # <<>>, IsFiniteSet(WordsOf(q))
    PROVE  /\ IsFiniteSet(WordsOf(Tail(q))) /\ Head(q) \in Ops
           /\ Cardinality(WordsOf(q)) \in Nat /\ Cardinality(WordsOf(Tail(q))) \in Nat
           /\ Words[Head(q)] \in Nat
           /\ Cardinality(WordsOf(q)) = Cardinality(WordsOf(Tail(q))) + Words[Head(q)]
<1>1. PICK op, t : op = Head(q) /\ t = Tail(q)
  BY Zenon
<1>2. /\ op \in Ops /\ t \in Seq(Ops) /\ Len(q) \in Nat /\ Len(q) >= 1
      /\ Len(t) = Len(q) - 1 /\ q[1] = op
      /\ DOMAIN q = 1 .. Len(q) /\ DOMAIN t = 1 .. Len(t)
  BY <1>1
<1>3. \A i \in 1 .. Len(t) : t[i] = q[i + 1]
  BY <1>1, <1>2
<1> DEFINE g == [i \in 1 .. Len(q) |-> IF i = 1 THEN None ELSE q[i]]
           S == WordsOf(g)
           T == WordsOf(t)
<1>4. DOMAIN g = 1 .. Len(q) /\ g[1] = None /\ \A i \in 1 .. Len(q) : i # 1 => g[i] = q[i]
  BY <1>2
<1> HIDE DEF g
<1>5. /\ IsFiniteSet(S) /\ Cardinality(S) \in Nat /\ Words[op] \in Nat
      /\ Cardinality(WordsOf(q)) \in Nat
      /\ Cardinality(WordsOf(q)) = Cardinality(S) + Words[op]
  <2>1. \A i : i \in DOMAIN q <=> i \in DOMAIN g \/ i = 1
    BY <1>2, <1>4
  <2>2. \A i \in DOMAIN g : i # 1 => q[i] = g[i]
    BY <1>4
  <2>3. Adds(g, q, 1, op)
    BY <1>2, <1>4, <2>1, <2>2 DEF Adds
  <2> QED BY <1>2, <2>3, OneMore, Zenon
<1>6. ASSUME NEW i, NEW k
      PROVE  /\ <<i, k>> \in S <=> /\ i \in 2 .. Len(q) /\ q[i] # None
                                   /\ k \in 1 .. Words[q[i]]
             /\ <<i, k>> \in T <=> /\ i \in 1 .. Len(t) /\ t[i] # None
                                   /\ k \in 1 .. Words[t[i]]
  <2>1. \A j : j \in 2 .. Len(q) <=> j \in 1 .. Len(q) /\ j # 1
    BY <1>2
  <2>2. <<i, k>> \in S <=> i \in DOMAIN g /\ g[i] # None /\ k \in 1 .. Words[g[i]]
    BY DEF WordsOf
  <2>3. <<i, k>> \in T <=> i \in DOMAIN t /\ t[i] # None /\ k \in 1 .. Words[t[i]]
    BY DEF WordsOf
  <2> QED BY <1>2, <1>4, <2>1, <2>2, <2>3
<1>7. ASSUME NEW y, y \in S \/ y \in T
      PROVE  y = <<y[1], y[2]>>
  BY <1>7 DEF WordsOf
<1> HIDE DEF S, T
<1> DEFINE h == [y \in S |-> <<y[1] - 1, y[2]>>]
<1>8. ASSUME NEW i \in 2 .. Len(q)
      PROVE  i - 1 \in 1 .. Len(t) /\ t[i - 1] = q[i] /\ i \in Int
  <2>1. i - 1 \in 1 .. Len(t) /\ (i - 1) + 1 = i /\ i \in Int
    BY <1>2
  <2> QED BY <1>3, <2>1
<1>9. h \in [S -> T]
  <2>1. ASSUME NEW y \in S PROVE <<y[1] - 1, y[2]>> \in T
    <3>1. <<y[1], y[2]>> \in S
      BY <1>7
    <3>2. y[1] \in 2 .. Len(q) /\ q[y[1]] # None /\ y[2] \in 1 .. Words[q[y[1]]]
      BY <1>6, <3>1
    <3>3. y[1] - 1 \in 1 .. Len(t) /\ t[y[1] - 1] = q[y[1]]
      BY <1>8, <3>2
    <3> QED BY <1>6, <3>2, <3>3
  <2> QED BY <2>1
<1>10. ASSUME NEW y \in S, NEW z \in S, h[y] = h[z] PROVE y = z
  <2>1. y[1] - 1 = z[1] - 1 /\ y[2] = z[2]
    BY <1>10
  <2>2. y = <<y[1], y[2]>> /\ z = <<z[1], z[2]>>
    BY <1>7
  <2>3. y[1] \in Int /\ z[1] \in Int
    BY <1>2, <1>6, <2>2
  <2>4. y[1] = z[1]
    BY <2>1, <2>3
  <2> QED BY <2>1, <2>2, <2>4
<1>11. ASSUME NEW z \in T PROVE \E y \in S : h[y] = z
  <2>1. z = <<z[1], z[2]>>
    BY <1>7
  <2>2. z[1] \in 1 .. Len(t) /\ t[z[1]] # None /\ z[2] \in 1 .. Words[t[z[1]]]
    BY <1>6, <2>1
  <2>3. z[1] + 1 \in 2 .. Len(q) /\ (z[1] + 1) - 1 = z[1] /\ q[z[1] + 1] = t[z[1]]
    BY <1>2, <1>3, <2>2
  <2>4. <<z[1] + 1, z[2]>> \in S
    BY <1>6, <2>2, <2>3
  <2>5. h[<<z[1] + 1, z[2]>>] = <<(z[1] + 1) - 1, z[2]>>
    BY <2>4
  <2> QED BY <2>1, <2>3, <2>4, <2>5
<1> HIDE DEF h
<1>12. h \in Bijection(S, T)
  BY <1>9, <1>10, <1>11 DEF Bijection, Injection, Surjection, IsInjective
<1>13. IsFiniteSet(T) /\ Cardinality(T) = Cardinality(S)
  BY <1>5, <1>12, FS_Bijection DEF ExistsBijection
<1> QED BY <1>1, <1>2, <1>5, <1>13 DEF T

\* A worker has a command only while it executes it.
Idle == \A w \in Workers : pc[w] \notin Executing => cmd[w] = None

LEMMA IdleStep == TypeOK /\ Idle /\ [Next]_vars => Idle'
<1> SUFFICES ASSUME TypeOK, Idle, [Next]_vars PROVE Idle'
  OBVIOUS
<1>0. pc \in [Workers -> Places] /\ cmd \in [Workers -> Ops \cup {None}]
  BY DEF TypeOK
<1>1. CASE UNCHANGED cmd /\ (pc' = pc \/ pc' \in Signalled)
  BY <1>0, <1>1, SignalledType DEF Idle, Executing
<1>2. ASSUME NEW w \in Workers, NEW to, pc' = [pc EXCEPT ![w] = to], UNCHANGED cmd,
             pc[w] \notin Executing \/ to \in Executing
      PROVE  Idle'
  BY <1>0, <1>2 DEF Idle
<1>3. CASE Guest
  <2>1. CASE aes_start
    <3>1. UNCHANGED cmd
      BY <2>1 DEF aes_start
    <3>2. CASE stopped
      <4>1. thread' \in Workers /\ pc[thread'] = "gone" /\ pc' = [pc EXCEPT ![thread'] = "loop"]
        BY <2>1, <3>2 DEF aes_start, Alive
      <4> QED BY <1>2, <3>1, <4>1, Zenon DEF Executing
    <3>3. CASE ~stopped
      BY <1>1, <2>1, <3>1, <3>3 DEF aes_start
    <3> QED BY <3>2, <3>3
  <2>2. CASE ~aes_start
    <3>1. pc' = pc \/ pc' \in Signalled
      BY <1>3, <2>2, ZenonT(30) DEF Guest, WriteIntStatus, WriteIntEnable, WriteWatermarks, WriteFifo,
         Assemble, Enqueue, WriteFifoUnknown, aes_empty_fifo, aes_stop, apple_aes_reset, worker
    <3>2. UNCHANGED cmd
      BY <1>3, <2>2, Zenon DEF Guest, WriteIntStatus, WriteIntEnable, WriteWatermarks, WriteFifo,
         WriteFifoUnknown, aes_empty_fifo, aes_stop, apple_aes_reset, worker
    <3> QED BY <1>1, <3>1, <3>2
  <2> QED BY <2>1, <2>2
<1>4. CASE aes_stop(TRUE) \/ StopDone \/ SaveDone \/ UNCHANGED vars
  <2>1. UNCHANGED cmd /\ (pc' = pc \/ pc' \in Signalled)
    BY <1>4 DEF aes_stop, StopDone, SaveDone, worker, vars
  <2> QED BY <1>1, <2>1
<1>5. CASE apple_aes_post_load
  BY <1>5 DEF apple_aes_post_load, Loaded, Idle
<1>6. ASSUME NEW w \in Workers, aes_thread(w) \/ WakeSpuriously(w)
      PROVE  Idle'
  <2>1. CASE Loop(w) \/ Test(w) \/ Sleep(w) \/ WakeSpuriously(w)
    <3>1. UNCHANGED cmd /\ pc[w] \notin Executing /\ \E to : pc' = [pc EXCEPT ![w] = to]
      BY <2>1 DEF Loop, Test, Sleep, WakeSpuriously, Executing
    <3> QED BY <1>2, <3>1, Zenon
  <2>2. CASE Begin(w) \/ Crypt(w)
    <3>1. UNCHANGED cmd /\ \E to \in Executing : pc' = [pc EXCEPT ![w] = to]
      BY <2>2, Zenon DEF Begin, Crypt, Executing
    <3> QED BY <1>2, <3>1, Zenon
  <2>3. CASE Take(w)
    BY <1>0, <2>3 DEF Take, Idle, Executing
  <2>4. CASE Finish(w)
    BY <1>0, <2>4 DEF Finish, Idle
  <2> QED BY <1>6, <2>1, <2>2, <2>3, <2>4 DEF aes_thread
<1> QED BY <1>3, <1>4, <1>5, <1>6, Zenon DEF Next

\* Eight bits count on from what they have counted.
LEMMA CountsOn ==
    ASSUME NEW n \in Int, NEW d \in Int
    PROVE  ((n % LevelRange) + d) % LevelRange = (n + d) % LevelRange
BY DEF LevelRange

Counted ==
    /\ Idle
    /\ IsFiniteSet(WordsOf(queue)) /\ IsFiniteSet(WordsOf(cmd))
    /\ LevelCounts

\* No command has no words.
LEMMA NoWords ==
    /\ WordsOf(<<>>) = {} /\ IsFiniteSet({}) /\ Cardinality({}) = 0
    /\ \A f : (\A i \in DOMAIN f : f[i] = None) => WordsOf(f) = {}
<1>1. IsFiniteSet({}) /\ Cardinality({}) = 0
  BY FS_EmptySet
<1>2. \A f : (\A i \in DOMAIN f : f[i] = None) => WordsOf(f) = {}
  BY DEF WordsOf
<1>3. DOMAIN <<>> = {}
  OBVIOUS
<1> QED BY <1>1, <1>2, <1>3

\* The sizes are numbers.
LEMMA Sizes ==
    ASSUME TypeOK, Counted
    PROVE  /\ Cardinality(WordsOf(queue)) \in Nat /\ Cardinality(WordsOf(cmd)) \in Nat
           /\ command.read \in Nat
<1>1. Cardinality(WordsOf(queue)) \in Nat /\ Cardinality(WordsOf(cmd)) \in Nat
  BY FS_CardinalityType DEF Counted
<1>2. command.read \in Nat
  BY DEF TypeOK, NoCommand
<1> QED BY <1>1, <1>2

\* A word written to the FIFO is counted with the command it belongs to.
LEMMA WriteCounts ==
    ASSUME TypeOK, Counted, NEW op \in Ops, WriteFifo(op)
    PROVE  /\ IsFiniteSet(WordsOf(queue')) /\ IsFiniteSet(WordsOf(cmd'))
           /\ LevelCounts'
<1>0. PICK n \in Nat, k \in Nat, r \in Nat :
          n = Cardinality(WordsOf(queue)) /\ k = Cardinality(WordsOf(cmd)) /\ r = command.read
  BY Sizes
<1>1. UNCHANGED <<cmd, disturbed>> /\ level' = (level + 1) % LevelRange
  BY DEF WriteFifo, aes_update_command_fifo_status, history
<1>2. level \in Int
  BY DEF TypeOK, LevelRange
<1>3. ~disturbed => level' = ((n + k + r) + 1) % LevelRange
  <2>1. ~disturbed => level = (n + k + r) % LevelRange
    BY <1>0 DEF Counted, LevelCounts
  <2>2. (((n + k + r) % LevelRange) + 1) % LevelRange = ((n + k + r) + 1) % LevelRange
    BY CountsOn
  <2> QED BY <1>1, <2>1, <2>2
<1>4. Assemble(op, r + 1) /\ (r = 0 => command = NoCommand)
      /\ (r # 0 => r < Words[op])
  <2>1. CASE command = NoCommand
    BY <1>0, <2>1 DEF WriteFifo, NoCommand
  <2>2. CASE command # NoCommand
    <3>1. op = command.op /\ Assemble(op, command.read + 1)
      BY <2>2 DEF WriteFifo
    <3>2. command.read < Words[command.op] /\ command.read # 0
      BY <2>2, <3>1 DEF TypeOK
    <3> QED BY <1>0, <3>1, <3>2
  <2> QED BY <2>1, <2>2
<1>5. Words[op] \in Nat \ {0}
  BY WordsAssumption
<1>6. CASE r + 1 >= Words[op]
  <2>1. queue' = Append(queue, op) /\ command' = NoCommand
    BY <1>4, <1>6 DEF Assemble, Enqueue
  <2>2. Words[op] = r + 1
    BY <1>4, <1>5, <1>6
  <2>3. PICK q, a : q \in Seq(Ops) /\ q = queue /\ a = Append(queue, op)
    BY Zenon DEF TypeOK
  <2>4. /\ Len(q) \in Nat /\ DOMAIN q = 1 .. Len(q) /\ DOMAIN a = 1 .. Len(q) + 1
        /\ a[Len(q) + 1] = op /\ \A i \in 1 .. Len(q) : a[i] = q[i]
    BY <2>3
  <2>5. IsFiniteSet(WordsOf(a)) /\ Cardinality(WordsOf(a)) = n + Words[op]
    <3>1. \A i : i \in DOMAIN a <=> i \in DOMAIN q \/ i = Len(q) + 1
      BY <2>4
    <3>2. ~(Len(q) + 1 \in DOMAIN q) /\ \A i \in DOMAIN q : i # Len(q) + 1 => a[i] = q[i]
      BY <2>4
    <3>3. IsFiniteSet(WordsOf(q)) /\ Cardinality(WordsOf(q)) = n
      BY <1>0, <2>3 DEF Counted
    <3>4. Adds(q, a, Len(q) + 1, op)
      BY <2>4, <3>1, <3>2 DEF Adds
    <3>5. IsFiniteSet(WordsOf(a)) /\ Cardinality(WordsOf(a)) = Cardinality(WordsOf(q)) + Words[op]
      BY <3>3, <3>4, OneMore, Zenon
    <3> QED BY <3>3, <3>5
  <2>6. Cardinality(WordsOf(queue')) + Cardinality(WordsOf(cmd')) + command'.read = (n + k + r) + 1
    <3>1. command'.read = 0
      BY <2>1 DEF NoCommand
    <3>2. Cardinality(WordsOf(queue')) = n + (r + 1) /\ Cardinality(WordsOf(cmd')) = k
      BY <1>0, <1>1, <2>1, <2>2, <2>3, <2>5
    <3> QED BY <3>1, <3>2
  <2> QED BY <1>1, <1>3, <2>1, <2>3, <2>5, <2>6 DEF LevelCounts, Counted
<1>7. CASE ~(r + 1 >= Words[op])
  <2>1. command' = [op |-> op, read |-> r + 1] /\ UNCHANGED queue
    BY <1>4, <1>7 DEF Assemble
  <2>2. Cardinality(WordsOf(queue')) + Cardinality(WordsOf(cmd')) + command'.read = (n + k + r) + 1
    BY <1>0, <1>1, <2>1
  <2> QED BY <1>1, <1>3, <2>1, <2>2 DEF LevelCounts, Counted
<1> QED BY <1>6, <1>7

\* The words of a command stay counted when a worker takes it from the queue.
LEMMA TakeCounts ==
    ASSUME TypeOK, Counted, NEW w \in Workers, Take(w)
    PROVE  /\ IsFiniteSet(WordsOf(queue')) /\ IsFiniteSet(WordsOf(cmd'))
           /\ LevelCounts'
<1>1. UNCHANGED <<command, level, disturbed>>
  BY DEF Take, history
<1>2. CASE queue = <<>>
  <2>1. UNCHANGED <<queue, cmd>>
    BY <1>2 DEF Take
  <2> QED BY <1>1, <2>1 DEF Counted, LevelCounts
<1>3. CASE queue # <<>>
  <2>1. PICK q, t, op, f, g :
            q \in Seq(Ops) /\ q = queue /\ t = Tail(queue) /\ op = Head(queue) /\ f = cmd
            /\ g = [cmd EXCEPT ![w] = Head(queue)]
    BY Zenon DEF TypeOK
  <2>2. queue' = t /\ cmd' = g
    BY <1>3, <2>1 DEF Take
  <2>3. f[w] = None /\ f \in [Workers -> Ops \cup {None}]
    BY <2>1 DEF Take, Counted, Idle, Executing, TypeOK
  <2>4. /\ IsFiniteSet(WordsOf(t)) /\ op \in Ops
        /\ Cardinality(WordsOf(q)) \in Nat /\ Cardinality(WordsOf(t)) \in Nat /\ Words[op] \in Nat
        /\ Cardinality(WordsOf(q)) = Cardinality(WordsOf(t)) + Words[op]
    BY <1>3, <2>1, OneTaken DEF Counted
  <2>5. /\ IsFiniteSet(WordsOf(g))
        /\ Cardinality(WordsOf(f)) \in Nat /\ Cardinality(WordsOf(g)) \in Nat
        /\ Cardinality(WordsOf(g)) = Cardinality(WordsOf(f)) + Words[op]
    <3>1. Adds(f, g, w, op)
      BY <2>1, <2>3 DEF Adds
    <3>2. IsFiniteSet(WordsOf(f))
      BY <2>1 DEF Counted
    <3> QED BY <2>4, <3>1, <3>2, OneMore, Zenon
  <2>6. Cardinality(WordsOf(t)) + Cardinality(WordsOf(g)) = Cardinality(WordsOf(q)) + Cardinality(WordsOf(f))
    BY <2>4, <2>5
  <2>7. ~disturbed => level = (Cardinality(WordsOf(q)) + Cardinality(WordsOf(f)) + command.read) % LevelRange
    BY <2>1 DEF Counted, LevelCounts
  <2> QED BY <1>1, <2>2, <2>4, <2>5, <2>6, <2>7 DEF LevelCounts
<1> QED BY <1>2, <1>3

\* They come off, all of them and once, when it is finished.
LEMMA FinishCounts ==
    ASSUME TypeOK, Counted, NEW w \in Workers, Finish(w)
    PROVE  /\ IsFiniteSet(WordsOf(queue')) /\ IsFiniteSet(WordsOf(cmd'))
           /\ LevelCounts'
<1>0. PICK n \in Nat, k \in Nat, r \in Nat :
          n = Cardinality(WordsOf(queue)) /\ k = Cardinality(WordsOf(cmd)) /\ r = command.read
  BY Sizes
<1>1. /\ UNCHANGED <<command, queue, disturbed>> /\ cmd[w] \in Ops
      /\ level' = (level - Words[cmd[w]]) % LevelRange
  BY Zenon DEF Finish, aes_update_command_fifo_status, history, TypeOK, Executing
<1>2. PICK op, f, g : op \in Ops /\ op = cmd[w] /\ g = cmd /\ f = [cmd EXCEPT ![w] = None]
  BY <1>1, Zenon
<1>3. cmd' = f /\ g \in [Workers -> Ops \cup {None}]
  BY <1>2 DEF Finish, TypeOK
<1>4. /\ IsFiniteSet(WordsOf(f)) /\ Cardinality(WordsOf(f)) \in Nat /\ Words[op] \in Nat
      /\ Cardinality(WordsOf(g)) = Cardinality(WordsOf(f)) + Words[op]
  <2>1. Adds(f, g, w, op)
    BY <1>2, <1>3 DEF Adds
  <2>2. IsFiniteSet(WordsOf(g))
    BY <1>2 DEF Counted
  <2>3. op \in Ops
    BY <1>2
  <2> QED BY <2>1, <2>2, <2>3, OneMore, Zenon
<1>5. ~disturbed => level' = ((n + k + r) - Words[op]) % LevelRange
  <2>1. ~disturbed => level = (n + k + r) % LevelRange
    BY <1>0 DEF Counted, LevelCounts
  <2>2. PICK s \in Int, d \in Int : s = n + k + r /\ d = 0 - Words[op]
    BY <1>4
  <2>3. ((s % LevelRange) + d) % LevelRange = (s + d) % LevelRange
    BY CountsOn
  <2>4. level \in Int /\ level + d = level - Words[op] /\ s + d = (n + k + r) - Words[op]
    BY <1>4, <2>2 DEF TypeOK, LevelRange
  <2> QED BY <1>1, <1>2, <2>1, <2>2, <2>3, <2>4
<1>6. n + Cardinality(WordsOf(f)) + r = (n + k + r) - Words[op]
  BY <1>0, <1>2, <1>4
<1> QED BY <1>0, <1>1, <1>3, <1>4, <1>5, <1>6, Zenon DEF Counted, LevelCounts

LEMMA CountStep == TypeOK /\ Counted /\ [Next]_vars => Counted'
<1> SUFFICES ASSUME TypeOK, Counted, [Next]_vars PROVE Counted'
  OBVIOUS
<1>0. Idle'
  BY IdleStep DEF Counted
<1>1. CASE UNCHANGED <<queue, cmd, command, level, disturbed>>
  BY <1>0, <1>1 DEF Counted, LevelCounts
<1>2. ASSUME NEW op \in Ops, WriteFifo(op) PROVE Counted'
  BY <1>0, <1>2, WriteCounts DEF Counted
<1>3. CASE WriteFifoUnknown
  BY <1>0, <1>3 DEF WriteFifoUnknown, worker, Counted, LevelCounts
<1>4. CASE aes_empty_fifo \/ apple_aes_reset
  <2>1. /\ queue' = <<>> /\ UNCHANGED cmd /\ level' = 0
        /\ ~disturbed' => ~Busy /\ command' = NoCommand
    <3>1. CASE aes_empty_fifo
      <4>1. /\ queue' = <<>> /\ UNCHANGED <<cmd, command>> /\ level' = 0
            /\ disturbed' = (Busy \/ command # NoCommand)
        BY <3>1 DEF aes_empty_fifo, aes_update_command_fifo_status, worker
      <4> QED BY <4>1, Zenon
    <3>2. CASE apple_aes_reset
      BY <3>2 DEF apple_aes_reset, worker
    <3> QED BY <1>4, <3>1, <3>2
  <2>2. IsFiniteSet(WordsOf(queue')) /\ IsFiniteSet(WordsOf(cmd')) /\ Cardinality(WordsOf(queue')) = 0
    BY <2>1, NoWords, Zenon DEF Counted
  <2>3. ~Busy => Cardinality(WordsOf(cmd')) = 0
    <3>1. ~Busy => \A w \in DOMAIN cmd : cmd[w] = None
      BY DEF Busy, TypeOK
    <3> QED BY <2>1, <3>1, NoWords, Zenon
  <2>4. (0 + 0 + 0) % LevelRange = 0
    BY DEF LevelRange
  <2>5. NoCommand.read = 0
    BY  DEF NoCommand
  <2> QED BY <1>0, <2>1, <2>2, <2>3, <2>4, <2>5 DEF Counted, LevelCounts
<1>5. CASE apple_aes_post_load
  <2>1. /\ UNCHANGED <<queue, level>> /\ cmd' = [w \in Workers |-> None]
        /\ ~disturbed' => ~disturbed /\ ~Busy
    BY <1>5, Zenon DEF apple_aes_post_load, Loaded
  <2>4. command'.read = command.read
    BY <1>5 DEF apple_aes_post_load, Loaded
  <2>2. IsFiniteSet(WordsOf(cmd')) /\ Cardinality(WordsOf(cmd')) = 0
    BY <2>1, NoWords
  <2>3. ~Busy => Cardinality(WordsOf(cmd)) = 0
    <3>1. ~Busy => \A w \in DOMAIN cmd : cmd[w] = None
      BY DEF Busy, TypeOK
    <3> QED BY <3>1, NoWords, Zenon
  <2> QED BY <1>0, <2>1, <2>2, <2>3, <2>4 DEF Counted, LevelCounts
<1>6. ASSUME NEW w \in Workers, Take(w) PROVE Counted'
  BY <1>0, <1>6, TakeCounts DEF Counted
<1>7. ASSUME NEW w \in Workers, Finish(w) PROVE Counted'
  BY <1>0, <1>7, FinishCounts DEF Counted
<1>8. CASE Guest
  <2>1. ASSUME NEW v, WriteIntStatus(v) \/ WriteIntEnable(v)
        PROVE  UNCHANGED <<queue, cmd, command, level, disturbed>>
    BY <2>1 DEF WriteIntStatus, WriteIntEnable, fifo, worker, history
  <2>2. ASSUME NEW v, WriteWatermarks(v)
        PROVE  UNCHANGED <<queue, cmd, command, level, disturbed>>
    BY <2>2 DEF WriteWatermarks, aes_update_command_fifo_status, worker, history
  <2>3. CASE aes_start \/ aes_stop(FALSE)
    BY <1>1, <2>3 DEF aes_start, aes_stop, fifo
  <2> QED BY <1>1, <1>2, <1>3, <1>4, <1>8, <2>1, <2>2, <2>3, Zenon DEF Guest
<1>9. CASE aes_stop(TRUE) \/ StopDone \/ SaveDone \/ UNCHANGED vars
  BY <1>1, <1>9 DEF aes_stop, StopDone, SaveDone, fifo, worker, history, vars
<1>10. ASSUME NEW w \in Workers, aes_thread(w) \/ WakeSpuriously(w) PROVE Counted'
  <2>1. CASE Loop(w) \/ Begin(w) \/ Crypt(w) \/ Test(w) \/ Sleep(w) \/ WakeSpuriously(w)
    BY <1>1, <2>1, Zenon DEF Loop, Begin, Crypt, Test, Sleep, WakeSpuriously, fifo, history
  <2> QED BY <1>6, <1>7, <1>10, <2>1 DEF aes_thread
<1> QED BY <1>5, <1>8, <1>9, <1>10, ZenonT(30) DEF Next

(***************************************************************************)
(* The level of the FIFO counts the words of the commands that are being   *)
(* assembled, queued or executed, modulo its eight bits, whatever number   *)
(* of workers takes them and in whatever order they finish, until an       *)
(* unknown opcode or an emptied FIFO makes it lose count (aes_reg_write,   *)
(* aes_thread).                                                            *)
(***************************************************************************)
THEOREM LevelCountsWords == SafetySpec => []LevelCounts
<1>1. Init => Counted
  <2> SUFFICES ASSUME Init PROVE Counted
    OBVIOUS
  <2>1. Idle
    BY DEF Init, Idle
  <2>2. WordsOf(queue) = {} /\ WordsOf(cmd) = {}
    BY NoWords DEF Init
  <2>3. command.read = 0 /\ level = 0 /\ (0 + 0 + 0) % LevelRange = 0
    BY DEF Init, NoCommand, LevelRange
  <2> QED BY <2>1, <2>2, <2>3, NoWords DEF Counted, LevelCounts
<1>2. Counted => LevelCounts
  BY DEF Counted
<1> QED BY <1>1, <1>2, CountStep, TypeCorrect, PTL DEF SafetySpec
=============================================================================
