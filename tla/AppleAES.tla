------------------------------ MODULE AppleAES ------------------------------
(***************************************************************************)
(* The AES engine (hw/misc/apple-silicon/aes.c): the guest writes command  *)
(* words into a FIFO, a worker thread of the emulator takes the assembled  *)
(* commands and executes them.                                             *)
(*                                                                         *)
(* The register handlers run with the big lock held and are one step each, *)
(* except aes_stop, which joins the worker with the lock held: while       *)
(* joining, nobody else gets it.  The worker holds queue_mutex while it    *)
(* decides to wait ("sleep") and gives it up as it waits.  There may be    *)
(* more than one worker: aes_start does not look whether the last one is   *)
(* still there.                                                            *)
(***************************************************************************)
EXTENDS Integers, Sequences, FiniteSets

CONSTANTS
    Workers,      \* bound: the threads that are alive at a time
    Words,        \* the FIFO words of each command the guest writes
    EnableVals,   \* the values it writes to INT_ENABLE
    ClearVals,    \* the values it writes to INT_STATUS
    Watermarks,   \* the values it writes to WATERMARKS
    MaxQueue,     \* bound: commands in the queue
    MaxLevel      \* bound: words counted by the FIFO level, either side of zero

None == "none"
NoCommand == [op |-> None, read |-> 0]
Lost == "lost"                     \* a command in assembly whose words are gone
Ops == DOMAIN Words
Bits == {"invalid_command", "invalid_data_length", "key_disabled",
         "flag_command", "command_fifo_low"}
LevelRange == 256                  \* command_fifo_status.level has eight bits

ASSUME WordsAssumption == Words \in [Ops -> Nat \ {0}]
ASSUME OpsAssumption ==
    Ops \subseteq {"key", "hardware_key", "iv", "data", "ragged_data",
                   "flag", "stop_flag"}
ASSUME EnableAssumption == EnableVals \subseteq SUBSET Bits

VARIABLES
    command,      \* the command being assembled, its words read so far; or NoCommand
    queue,        \* the assembled commands
    level,        \* command_fifo_status.level
    watermark,    \* watermarks.command_fifo_low
    int_status,
    int_enable,
    last_level,   \* the interrupt line
    stopped,
    pc,           \* where each worker is
    cmd,          \* the command each worker has taken
    cipher,       \* keys[].cipher is not NULL
    disabled,     \* keys[].disabled
    thread,       \* the worker aes_start created last, or None
    joining,      \* aes_stop is waiting for it
    saving,       \* it does so for apple_aes_pre_save
    calm,         \* history: it alone was waiting at the call of aes_stop
    abandoned,    \* history: stopped was set, under a living worker, by a FLAG
                  \* or a reset, which join nobody
    disturbed,    \* history: the level has lost count of the words
    lost          \* history: a save has ended the worker of a running engine

fifo == <<command, queue, level, watermark>>
irq == <<int_status, int_enable, last_level>>
worker == <<pc, cmd, cipher, disabled, thread>>
joins == <<joining, saving>>
history == <<calm, abandoned, disturbed, lost>>
vars == <<fifo, irq, stopped, worker, joins, history>>

Alive == {w \in Workers : pc[w] # "gone"}
Waiting == {w \in Workers : pc[w] = "wait"}

\* A worker between its test of the queue and qemu_cond_wait holds the mutex.
QueueMutexFree == \A w \in Workers : pc[w] # "sleep"

\* qemu_cond_signal: one waiting worker, if there is one, tests again.
Signalled ==
    IF Waiting = {} THEN {pc} ELSE {[pc EXCEPT ![w] = "test"] : w \in Waiting}

Init ==
    /\ command = NoCommand
    /\ queue = <<>>
    /\ level = 0
    /\ watermark = 0
    /\ int_status = {}
    /\ int_enable = {}
    /\ last_level = FALSE
    /\ stopped = TRUE
    /\ pc = [w \in Workers |-> "gone"]
    /\ cmd = [w \in Workers |-> None]
    /\ cipher = FALSE
    /\ disabled = FALSE
    /\ thread = None
    /\ joining = FALSE
    /\ saving = FALSE
    /\ calm = FALSE
    /\ abandoned = FALSE
    /\ disturbed = FALSE
    /\ lost = FALSE

-----------------------------------------------------------------------------
(* Interrupts.                                                             *)

\* Sets the status and lets the line follow: aes_update_irq.
aes_update_irq(status, enable) ==
    /\ int_status' = status
    /\ int_enable' = enable
    /\ last_level' = (status \cap enable # {})

\* The level becomes n, the other bits of the status register follow it.
aes_update_command_fifo_status(n, status) ==
    /\ level' = n
    /\ aes_update_irq((status \ {"command_fifo_low"})
                          \cup {b \in {"command_fifo_low"} : n < watermark},
                      int_enable)

-----------------------------------------------------------------------------
(* The guest's register accesses.                                          *)

\* The big lock is free.
BQLFree == ~joining

WriteIntStatus(clear) ==
    /\ BQLFree
    /\ aes_update_irq(int_status \ clear, int_enable)
    /\ UNCHANGED <<fifo, stopped, worker, joins, history>>

WriteIntEnable(enable) ==
    /\ BQLFree
    /\ aes_update_irq(int_status, enable)
    /\ UNCHANGED <<fifo, stopped, worker, joins, history>>

\* The status is brought up to date before the new value is stored.
WriteWatermarks(value) ==
    /\ BQLFree
    /\ aes_update_command_fifo_status(level, int_status)
    /\ watermark' = value
    /\ UNCHANGED <<command, queue, stopped, worker, joins, history>>

LevelInBounds == level < MaxLevel \/ level >= LevelRange - MaxLevel

\* Mutation: the worker is not told of the new command.
EnqueueSilently(op) ==
    /\ QueueMutexFree
    /\ Len(queue) < MaxQueue
    /\ queue' = Append(queue, op)
    /\ command' = NoCommand
    /\ UNCHANGED pc

\* A complete command goes to the queue and the worker is told.
Enqueue(op) ==
    /\ QueueMutexFree
    /\ Len(queue) < MaxQueue
    /\ queue' = Append(queue, op)
    /\ command' = NoCommand
    /\ pc' \in Signalled

Assemble(op, read) ==
    IF read >= Words[op]
    THEN Enqueue(op)
    ELSE command' = [op |-> op, read |-> read] /\ UNCHANGED <<queue, pc>>

\* A word of the command being assembled, or the first one of a new command.
\* (After a load that lost the words of a command in assembly, the handler
\* stores the next one through NULL and the process ends.)
WriteFifo(op) ==
    /\ BQLFree
    /\ LevelInBounds
    /\ IF command = NoCommand THEN Assemble(op, 1)
       ELSE op = command.op /\ Assemble(op, command.read + 1)
    /\ aes_update_command_fifo_status((level + 1) % LevelRange, int_status)
    /\ UNCHANGED <<watermark, stopped, cmd, cipher, disabled, thread, joins, history>>

\* The first word of a command names no opcode the engine knows.  The word is
\* counted and nothing will ever take it off.
WriteFifoUnknown ==
    /\ BQLFree
    /\ LevelInBounds
    /\ command = NoCommand
    /\ aes_update_command_fifo_status((level + 1) % LevelRange,
                                      int_status \cup {"invalid_command"})
    /\ disturbed' = TRUE
    /\ UNCHANGED <<command, queue, watermark, stopped, worker, joins, calm,
                   abandoned, lost>>

Busy == \E w \in Workers : cmd[w] # None

\* CLEAR_FIFO and CONTROL_RESET: aes_empty_fifo.  A word already counted for a
\* command in assembly or in execution is forgotten.
aes_empty_fifo ==
    /\ BQLFree
    /\ QueueMutexFree
    /\ queue' = <<>>
    /\ aes_update_command_fifo_status(0, int_status)
    /\ disturbed' = (Busy \/ command # NoCommand)
    /\ UNCHANGED <<command, watermark, stopped, worker, joins, calm, abandoned, lost>>

aes_start ==
    /\ BQLFree
    /\ IF stopped
       THEN /\ thread' \in Workers \ Alive
            /\ pc' = [pc EXCEPT ![thread'] = "loop"]
            /\ stopped' = FALSE
            /\ abandoned' = (abandoned /\ Alive # {})
       ELSE UNCHANGED <<stopped, pc, thread, abandoned>>
    /\ UNCHANGED <<fifo, irq, cmd, cipher, disabled, joins, calm, disturbed, lost>>

\* Mutation: the waiting worker is not told.
StopSilently(save) ==
    /\ BQLFree
    /\ IF stopped THEN UNCHANGED <<stopped, pc, joins, calm, lost>>
       ELSE /\ stopped' = TRUE
            /\ joining' = TRUE
            /\ saving' = save
            /\ lost' = FALSE
            /\ calm' = (Waiting = {thread})
            /\ UNCHANGED pc
    /\ UNCHANGED <<fifo, irq, cmd, cipher, disabled, thread, abandoned, disturbed>>

\* Mutation: the worker is told, but not waited for.
StopNoJoin(save) ==
    /\ BQLFree
    /\ IF stopped THEN UNCHANGED <<stopped, pc, lost>>
       ELSE /\ stopped' = TRUE
            /\ lost' = FALSE
            /\ pc' \in Signalled
    /\ UNCHANGED <<fifo, irq, cmd, cipher, disabled, thread, joins, calm,
                   abandoned, disturbed>>

\* aes_stop up to qemu_thread_join, called for a register write or by
\* apple_aes_pre_save.
aes_stop(save) ==
    /\ BQLFree
    /\ IF stopped THEN UNCHANGED <<stopped, pc, joins, calm, lost>>
       ELSE /\ stopped' = TRUE
            /\ joining' = TRUE
            /\ saving' = save
            /\ lost' = FALSE
            /\ calm' = (Waiting = {thread})
            /\ pc' \in Signalled
    /\ UNCHANGED <<fifo, irq, cmd, cipher, disabled, thread, abandoned, disturbed>>

\* The worker has ended, qemu_thread_join returns.  (After a save it joins a
\* thread that was joined before, which the C library need not survive.)
JoinReturns ==
    /\ joining
    /\ pc[thread] = "gone"
    /\ joining' = FALSE
    /\ saving' = FALSE
    /\ calm' = FALSE

StopDone ==
    /\ JoinReturns
    /\ ~saving
    /\ UNCHANGED <<fifo, irq, stopped, worker, abandoned, disturbed, lost>>

\* apple_aes_pre_save puts stopped back; if the machine then goes on, it does so
\* without a worker.
SaveDone ==
    /\ JoinReturns
    /\ saving
    /\ stopped' = FALSE
    /\ lost' = TRUE
    /\ UNCHANGED <<fifo, irq, worker, abandoned, disturbed>>

\* The values `disabled' may have by what the last KEY to begin selected; none
\* if there was no KEY.
KeySelected ==
    LET begun == {w \in Workers : pc[w] = "lock" /\ cmd[w] \in {"key", "hardware_key"}}
    IN IF begun # {} THEN {cmd[w] = "hardware_key" : w \in begun}
       ELSE {d \in BOOLEAN : IF d THEN disabled ELSE cipher}

\* What was saved goes on in another process: without the threads and, as `data'
\* is not saved, without the words of a command in assembly.
\* apple_aes_key_post_load makes the cipher anew or disables the key; if no key
\* was ever set it aborts that process.
Loaded ==
    /\ disabled' \in KeySelected
    /\ cipher' = ~disabled'
    /\ command' = IF command = NoCommand THEN NoCommand
                  ELSE [op |-> Lost, read |-> command.read]
    /\ cmd' = [w \in Workers |-> None]
    /\ abandoned' = FALSE
    /\ disturbed' = (disturbed \/ Busy)
    /\ UNCHANGED <<queue, level, watermark, irq, lost>>

\* A running engine gets a worker, the only one there.  The save of a stopped
\* one joins nobody, and it stays stopped.
apple_aes_post_load ==
    /\ Loaded
    /\ \/ /\ JoinReturns
          /\ saving
          /\ stopped' = FALSE
          /\ thread' \in Workers
          /\ pc' = [w \in Workers |-> IF w = thread' THEN "loop" ELSE "gone"]
       \/ /\ BQLFree
          /\ stopped
          /\ pc' = [w \in Workers |-> "gone"]
          /\ UNCHANGED <<stopped, thread, joins, calm>>

\* RESET_AES and the device's reset.  stopped is set first, so aes_stop does
\* nothing: a worker is neither woken nor waited for.
apple_aes_reset ==
    /\ BQLFree
    /\ QueueMutexFree
    /\ command' = NoCommand
    /\ queue' = <<>>
    /\ level' = 0
    /\ watermark' = 0
    /\ aes_update_irq({}, {})
    /\ stopped' = TRUE
    /\ abandoned' = (abandoned \/ Alive # {})
    /\ disturbed' = Busy
    /\ lost' = FALSE
    /\ UNCHANGED <<worker, joins, calm>>

-----------------------------------------------------------------------------
(* A worker: aes_thread.                                                   *)

\* The loop's test of stopped; the thread ends or goes on.
Loop(w) ==
    /\ pc[w] = "loop"
    /\ pc' = [pc EXCEPT ![w] = IF stopped THEN "gone" ELSE "take"]
    /\ UNCHANGED <<fifo, irq, stopped, cmd, cipher, disabled, thread, joins, history>>

\* The first command of the queue, if there is one.
Take(w) ==
    /\ pc[w] = "take"
    /\ QueueMutexFree
    /\ IF queue = <<>>
       THEN pc' = [pc EXCEPT ![w] = "test"] /\ UNCHANGED <<queue, cmd>>
       ELSE /\ pc' = [pc EXCEPT ![w] = "begin"]
            /\ cmd' = [cmd EXCEPT ![w] = Head(queue)]
            /\ queue' = Tail(queue)
    /\ UNCHANGED <<command, level, watermark, irq, stopped, cipher, disabled,
                   thread, joins, history>>

\* What aes_process_command does before it takes the big lock: a KEY frees the
\* old cipher, DATA looks for a usable one.
Begin(w) ==
    /\ pc[w] = "begin"
    /\ pc' = [pc EXCEPT ![w] = IF cmd[w] = "data" /\ ~disabled /\ cipher
                               THEN "crypt" ELSE "lock"]
    /\ cipher' = (cipher /\ cmd[w] \notin {"key", "hardware_key"})
    /\ UNCHANGED <<fifo, irq, stopped, cmd, disabled, thread, joins, history>>

\* DATA reads guest memory, runs the cipher and writes the result.
Crypt(w) ==
    /\ pc[w] = "crypt"
    /\ pc' = [pc EXCEPT ![w] = "done"]
    /\ UNCHANGED <<fifo, irq, stopped, cmd, cipher, disabled, thread, joins, history>>

\* The status bits a command leaves.
Outcome(w) ==
    CASE cmd[w] = "key" -> int_status \ {"key_disabled"}
      [] cmd[w] = "hardware_key" -> int_status \cup {"key_disabled"}
      [] cmd[w] = "ragged_data" -> int_status \cup {"invalid_data_length"}
      [] cmd[w] = "data" /\ pc[w] = "lock" -> int_status \cup {"key_disabled"}
      [] cmd[w] \in {"flag", "stop_flag"} -> int_status \cup {"flag_command"}
      [] OTHER -> int_status

\* Mutation: one word is taken off for a command of several.
FinishOneWord(w) ==
    /\ pc[w] \in {"lock", "done"}
    /\ BQLFree
    /\ cipher' = (cipher \/ cmd[w] = "key")
    /\ disabled' = IF cmd[w] = "key" THEN FALSE ELSE disabled \/ cmd[w] = "hardware_key"
    /\ stopped' = (stopped \/ cmd[w] = "stop_flag")
    /\ abandoned' = (abandoned \/ cmd[w] = "stop_flag")
    /\ aes_update_command_fifo_status((level - 1) % LevelRange, Outcome(w))
    /\ pc' = [pc EXCEPT ![w] = "test"]
    /\ cmd' = [cmd EXCEPT ![w] = None]
    /\ UNCHANGED <<command, queue, watermark, thread, joins, calm, disturbed, lost>>

\* Mutation: the level goes below zero instead of wrapping.
FinishNoWrap(w) ==
    /\ pc[w] \in {"lock", "done"}
    /\ BQLFree
    /\ cipher' = (cipher \/ cmd[w] = "key")
    /\ disabled' = IF cmd[w] = "key" THEN FALSE ELSE disabled \/ cmd[w] = "hardware_key"
    /\ stopped' = (stopped \/ cmd[w] = "stop_flag")
    /\ abandoned' = (abandoned \/ cmd[w] = "stop_flag")
    /\ aes_update_command_fifo_status(level - Words[cmd[w]], Outcome(w))
    /\ pc' = [pc EXCEPT ![w] = "test"]
    /\ cmd' = [cmd EXCEPT ![w] = None]
    /\ UNCHANGED <<command, queue, watermark, thread, joins, calm, disturbed, lost>>

\* With the big lock held: the rest of aes_process_command, the level, the line.
Finish(w) ==
    /\ pc[w] \in {"lock", "done"}
    /\ BQLFree
    /\ cipher' = (cipher \/ cmd[w] = "key")
    /\ disabled' = IF cmd[w] = "key" THEN FALSE ELSE disabled \/ cmd[w] = "hardware_key"
    /\ stopped' = (stopped \/ cmd[w] = "stop_flag")
    /\ abandoned' = (abandoned \/ cmd[w] = "stop_flag")
    /\ aes_update_command_fifo_status((level - Words[cmd[w]]) % LevelRange, Outcome(w))
    /\ pc' = [pc EXCEPT ![w] = "test"]
    /\ cmd' = [cmd EXCEPT ![w] = None]
    /\ UNCHANGED <<command, queue, watermark, thread, joins, calm, disturbed, lost>>

\* The condition of the wait loop, with queue_mutex held.
Test(w) ==
    /\ pc[w] = "test"
    /\ QueueMutexFree
    /\ pc' = [pc EXCEPT ![w] = IF queue = <<>> /\ ~stopped THEN "sleep" ELSE "loop"]
    /\ UNCHANGED <<fifo, irq, stopped, cmd, cipher, disabled, thread, joins, history>>

\* qemu_cond_wait gives up the mutex and waits.
Sleep(w) ==
    /\ pc[w] = "sleep"
    /\ pc' = [pc EXCEPT ![w] = "wait"]
    /\ UNCHANGED <<fifo, irq, stopped, cmd, cipher, disabled, thread, joins, history>>

\* A wait may end without a signal.
WakeSpuriously(w) ==
    /\ pc[w] = "wait"
    /\ pc' = [pc EXCEPT ![w] = "test"]
    /\ UNCHANGED <<fifo, irq, stopped, cmd, cipher, disabled, thread, joins, history>>

aes_thread(w) ==
    Loop(w) \/ Take(w) \/ Begin(w) \/ Crypt(w) \/ Finish(w) \/ Test(w) \/ Sleep(w)

Guest ==
    \/ \E v \in ClearVals : WriteIntStatus(v)
    \/ \E v \in EnableVals : WriteIntEnable(v)
    \/ \E v \in Watermarks : WriteWatermarks(v)
    \/ \E op \in Ops : WriteFifo(op)
    \/ WriteFifoUnknown
    \/ aes_empty_fifo
    \/ aes_start
    \/ aes_stop(FALSE)
    \/ apple_aes_reset

Next ==
    \/ Guest
    \/ aes_stop(TRUE)
    \/ StopDone \/ SaveDone \/ apple_aes_post_load
    \/ \E w \in Workers : aes_thread(w) \/ WakeSpuriously(w)

\* The host runs every thread that can run, and lets a join return.
Fairness ==
    /\ \A w \in Workers : WF_vars(aes_thread(w))
    /\ WF_vars(joining /\ (StopDone \/ SaveDone \/ apple_aes_post_load))

SafetySpec == Init /\ [][Next]_vars
Spec == SafetySpec /\ Fairness

-----------------------------------------------------------------------------
(* Properties.                                                             *)

\* Where a worker may be, and where it has a command.
Executing == {"begin", "crypt", "lock", "done"}
Places == {"gone", "loop", "take", "test", "sleep", "wait"} \cup Executing

\* Types of the variables; a worker that executes a command has one.
TypeOK ==
    /\ command \in {NoCommand} \cup [op : Ops \cup {Lost}, read : Nat \ {0}]
    /\ command.op \in Ops => command.read < Words[command.op]
    /\ queue \in Seq(Ops)
    /\ level \in 0 .. LevelRange - 1
    /\ watermark \in Watermarks \cup {0}
    /\ int_status \subseteq Bits
    /\ int_enable \subseteq Bits
    /\ pc \in [Workers -> Places]
    /\ cmd \in [Workers -> Ops \cup {None}]
    /\ \A w \in Workers : pc[w] \in Executing => cmd[w] \in Ops
    /\ thread \in Workers \cup {None}
    /\ last_level \in BOOLEAN /\ stopped \in BOOLEAN
    /\ cipher \in BOOLEAN /\ disabled \in BOOLEAN
    /\ joining \in BOOLEAN /\ saving \in BOOLEAN /\ calm \in BOOLEAN
    /\ abandoned \in BOOLEAN /\ disturbed \in BOOLEAN /\ lost \in BOOLEAN

\* The words of the commands in a queue, or of those that the workers have.
WordsOf(f) == UNION {{i} \X (1 .. Words[f[i]]) : i \in {j \in DOMAIN f : f[j] # None}}

\* While no unknown opcode was written and no FIFO was emptied under a running
\* or half-written command, the level counts, in its eight bits, the words of
\* every command that is being assembled, queued or executed: the words come off
\* once, when the command is finished (aes_reg_write, aes_thread).
LevelCounts ==
    ~disturbed =>
        level = (Cardinality(WordsOf(queue)) + Cardinality(WordsOf(cmd)) + command.read)
                    % LevelRange

\* The join of aes_stop is what keeps workers apart, for aes_start does not look
\* for a living one: however starts, stops, commands, saves and loads interleave,
\* there is one worker at most, and so nobody else's KEY frees the cipher between
\* DATA's test and its use (aes_process_command does both without a lock).  A
\* FLAG that stops the engine or a reset breaks this, until the engine is started
\* with no worker alive.
LoneWorker ==
    ~abandoned => /\ \A v, w \in Alive : v = w
                  /\ \A w \in Workers : pc[w] = "crypt" => cipher

\* As long as there are commands in the queue of a running engine, its workers
\* keep taking them: no wakeup is lost between the queue's mutex and its
\* condition variable (aes_reg_write, aes_thread), and a machine that is saved and
\* loaded has a worker again (apple_aes_post_load).  A machine that goes on after
\* a save has none (apple_aes_pre_save).
QueueServed ==
    <>[](queue # <<>> /\ ~stopped /\ ~lost)
        => []<><<\E w \in Workers : cmd[w] = None /\ cmd'[w] # None>>_vars

\* aes_stop returns when the worker it joins is the only one and waits for
\* commands.  (A worker with a command to finish needs the lock aes_stop holds,
\* one about to wait misses the signal, and of two that wait the signal may wake
\* the other: then aes_stop need not return.)
StopReturns == (joining /\ calm) ~> ~joining

=============================================================================
