# Verification of the ThinkOS kernel and its TCP (YARD-ICE)

The repository holds the firmware of the YARD-ICE JTAG debug adapter. All its
programs run on ThinkOS, a preemptive real-time kernel for ARM Cortex-M3 whose
source is in `src/src/sdk/libthinkos/` and `src/src/sdk/include/thinkos*.h`.
The kernel is where the concurrency of the whole repository is decided: the
TCP/IP stack, the debugger, the USB and serial drivers all rely on what its
mutexes, condition variables, semaphores, event sets and flags promise. This
project models the kernel in TLA+, model-checks it with TLC and proves its main
safety properties with TLAPS. Above the kernel it does the same for the TCP of
`src/src/sdk/libtcpip/tcp/`, whose protocol state survives loss, reordering and
timeouts or does not.

## 1. The system

### 1.1 Inventory

| Part | Source | State | Operations |
|---|---|---|---|
| Core | `thinkos_core.c`, `thinkos_sys.h` | wait-queue bitmaps `wq_lst[]`, `active`, `ctx[]`, `th_stat[]`, `ticks`, `clock[]`, `sched_val[]`/`sched_pri[]`/`sched_limit`, allocation bitmaps | PendSV (scheduler), SysTick (clock and time sharing), `__thinkos_wait`, `__thinkos_wakeup`, `__thinkos_wq_insert`, `__thinkos_tmdwq_insert`, `thinkos_bmp_alloc`, `thinkos_thread_exit`, `thinkos_init` |
| Sleep, alarm, yield | `thinkos_sleep.c`, `thinkos.h` | `wq_clock`, `clock[]` | `thinkos_sleep`, `thinkos_alarm`, `thinkos_yield` |
| Mutexes | `thinkos_mutex.c` | `lock[]`, `mutex_alloc` | alloc, free, lock, trylock, timedlock, unlock |
| Condition variables | `thinkos_cond.c`, stubs in `thinkos_svc.h` | `cond_alloc`, the queues | alloc, free, wait, timedwait, signal, broadcast |
| Semaphores | `thinkos_semaphore.c`, `thinkos_irq.h` | `sem_val[]`, `sem_alloc` | alloc, free, init, wait, trywait, timedwait, post, post from interrupts |
| Event sets | `thinkos_event.c`, `thinkos_irq.h` | `ev[].pend`, `ev[].mask` | alloc, free, wait, timedwait, raise, mask, raise from interrupts |
| Flags | `thinkos_flag.c`, `thinkos_irq.h` | `flag.sig`, `flag.lock` | alloc, free, val, set, clr, give, take, timedtake, wait, timedwait, watch, release |
| Threads | `thinkos.c`, `thinkos_core.c` | `th_alloc`, `wq_join[]`, `wq_canceled` | create, exit, join, cancel |
| Pause | `thinkos_pause.c` | `wq_paused` | pause, resume |
| Interrupt wait | `thinkos_irq.c` | `irq_th[]` | `thinkos_irq_wait` and its dispatcher |
| Break | `thinkos_break.c` | the queues | wakes every waiter of an object |
| Exceptions, tracing, object types | `thinkos_except.c`, `_debug.c`, `_type.c`, `_util.c` | none of the kernel's | fault dumps, names |
| TCP | `libtcpip/tcp/` | control blocks (state, sequence numbers, queues, flags, timers), one network mutex | connect, accept, send, recv, close; input, output, three timers |
| IP, ARP, UDP, ICMP | `libtcpip/` | tables, buffers | packet handling |
| Debugger | `yard-ice/` | target state, poll task, halt condition | halt, run, step, breakpoints, GDB, TFTP, telnet |
| Drivers, loaders | `libdrv`, `libcdc-acm`, `libstm32f`, `usb-serial`, ... | device registers | I/O |
| MicroJS, BACnet, shell, ... | `libmicrojs`, `libbacnet`, `libshell`, ... | sequential | interpreters, protocols |

### 1.2 How the parts interact

A thread enters the kernel with an SVC instruction; the handler runs at
priority 0x60 and is not preempted by threads, by the scheduler (PendSV, lowest
priority), by SysTick (0xa0) or by regular interrupts (0x80). It works on the
wait-queue bitmaps: to block, it sets the caller's bit in the object's queue,
records that queue in `th_stat[]`, clears the ready bit and makes PendSV
pending; to wake a thread up, `__thinkos_wakeup()` moves its bit back and
writes the result 0 into the exception frame the thread was switched out with.
The scheduler takes the lowest bit of `wq_ready`: thread numbers are
priorities, and the idle thread is one more bit above them when fewer than 32
threads are configured.

A timed wait is in two queues, the object's and `wq_clock`, with
`THINKOS_ETIMEDOUT` as its provisional result. SysTick walks a copy of
`wq_clock`; for an expired thread it reads `th_stat[]` to find the other queue,
clears both bits and makes the thread ready. With time sharing enabled, it also
charges the active thread and may move it to `wq_tmshare`, from which
`__thinkos_wait()` and SysTick collect the threads when nobody else is ready.
Interrupt handlers post to semaphores, raise events and give, set and clear
flags without an SVC, by masking interrupts around the queue operation; they
preempt SysTick at any point. A driver may give its interrupt a priority above
SVC: the Ethernet interrupt has 0x20 (`stm32f-ethif.c:304`), and then the handler
preempts service calls as well, wherever they have not masked it. A thread that waits for an interrupt is in no
queue: only `irq_th[]` knows of it.

`thinkos_thread_exit()` is not a service call. It runs at thread level, when the
task function returns, after `thinkos_exit()`, or as the continuation
`thinkos_cancel()` has written into the thread's frame, and it changes the
kernel's queues itself.

TCP has three callers: the application's threads, the receiving task
(`tcp_input()`) and `tcp_tmr_task()`, which sends whatever is due and runs the
timers. All hold `net_mutex`; an application waits on the condition variable of
its control block, `tcp_tmr_task()` on one of its own with a timeout.

### 1.3 What is hard here

* a timeout, a hand-over and an interrupt-level post compete for one thread,
  and exactly one of them must win in *all* of the queue, the status byte, the
  clock queue and the result register;
* PendSV is deferred: between the call that blocks and the context switch,
  SysTick and interrupts see a thread that is `active` and blocked, with a
  stale `ctx[]`;
* every operation has to request the scheduler itself;
* tick arithmetic is modular, and `th_stat[]` is 8 bits wide;
* a condition wait is two service calls, with one return value;
* a thread can end in three ways, in any state, and its slot is used again:
  everything that names it has to be gone by then;
* a flag has two protocols, with and without its lock, that share a signal and
  a queue;
* TCP keeps offsets into a queue that ACKs shorten and retransmissions rewind,
  in two code paths, while old segments and old ACKs are still on their way.

`PROJECT.json` lists each hazard with its line and the properties that cover
it, or the reason why none does yet.

### 1.4 What makes each part correct

*Core*: queues and status bytes agree; the most urgent ready thread runs; no
expired thread is left behind; no runnable thread is stranded while the CPU
idles; a wait with a timeout ends. *Mutex*: whoever was told it holds the lock
is the owner, the owner has been or will be told, nobody waits for a free lock,
a hand-over reaches the new owner. *Condition*: waiting releases the mutex
atomically, the caller is told about a timeout. *Semaphore*: it is a counting
semaphore, no token is lost or duplicated, and a wait that reports a timeout has
consumed none. *Flags, events*: nobody waits beside a signal or an event it
could have. *Threads*: a join ends once the joined thread runs its exit, and
returns the code of that thread and of no other user of its slot, no live thread
drops out of all queues, a free slot is clean. *TCP*: what arrives is
a prefix of what was sent, both ends agree on what is in flight, no call sleeps
past its reason, no data is forgotten, and the end of the stream is the end.

## 2. The modules

| Module | Models | Uses |
|---|---|---|
| `ThinkOSCore` | `struct thinkos_rt`, the queue operations, PendSV, SysTick, sleep/alarm/yield | |
| `ThinkOSMutex` | mutexes and condition variables with the stubs of `thinkos_svc.h` | EXTENDS `ThinkOSCore` |
| `ThinkOSSemaphore` | semaphores, `thinkos_sem_post_i()` | EXTENDS `ThinkOSCore`, INSTANCE `Semaphore` |
| `Semaphore` | what a counting semaphore with timed waits promises | |
| `ThinkOSEvent` | event sets, `thinkos_ev_raise_i()` | EXTENDS `ThinkOSCore` |
| `ThinkOSFlag` | flags and their interrupt-level calls | EXTENDS `ThinkOSCore` |
| `ThinkOSThread` | create, exit, join, cancel, `thinkos_thread_exit()`, interrupt wait | EXTENDS `ThinkOSCore` |
| `TCP` | one connection between two hosts of `libtcpip/tcp` | |
| `MCCore`, `MCMutex`, `MCSemaphore`, `MCEvent`, `MCFlag`, `MCThread`, `MCTCP` | constants for TLC | |
| `ThinkOSCoreProofs` | theorems about the core, and the lemmas about queues and blocking all others use | EXTENDS `ThinkOSCore` |
| `ThinkOSMutexProofs` | theorems about mutexes and condition variables | EXTENDS `ThinkOSCoreProofs` |
| `ThinkOSSemaphoreProofs`, `ThinkOSEventProofs`, `ThinkOSFlagProofs`, `ThinkOSThreadProofs` | theorems about one kind of object each | EXTENDS `ThinkOSCoreProofs` |
| `TCPProofs` | what one entry into the TCP code does, and the theorems about types, waits and data due | EXTENDS `TCP` |
| `TCPStreamProofs` | the theorems about the two streams of data | EXTENDS `TCPProofs` |

### 2.1 State and actions

Variables keep the names of the fields of `struct thinkos_rt`. A bitmap is a
set of threads, `wq_lst` a function from queue index to bitmap, laid out as in
`thinkos_sys.h` (optional queues shift the others). `pendsv` is the pending bit
of the scheduler. `ctx[th]->r0` is abstracted to `r0[th]`, the result in the
frame of the *blocked* call; a call that does not block returns before anything
else can happen to its caller and its result is not kept. `call[th]` records
the blocked call whose return the caller has not seen. `held[th]` (mutexes) is
what the caller has been told: it changes when a call *returns* success, not
when the kernel changes `lock[]`. `posts` (semaphores) is a one-bit history
variable per semaphore. Event bitmaps and the flag words are sets. `th_pc`
(threads) says which code a thread is in: its task, or one of the three steps of
`thinkos_thread_exit()`, which the interrupt-masked part and the two statements
after it divide. `owed` (threads) is a history variable that only a property
looks at: the code with which the thread that a thread joins has come through the
wake-up of its joiners, or `LATE` for a join made after that.

Each service call is one action with the name of its handler; its disjuncts
are the handler's ways out: refused (`EINVAL`, `EPERM`, `EDEADLK`, `EAGAIN`),
done, blocked. Arguments include one object number past the last.
`thinkos_cond_wait()` and `thinkos_cond_timedwait()` are two calls, so their
second half is the action `CondRelock`. `CallReturn` and the actions on top of
it are the thread's first instruction after a blocked call.

SysTick runs below the interrupt handlers that call the kernel. Its loop is
therefore five actions (`SysTickEntry`, `Scan`, `Unlink`, `Wakeup`, `Exit`) with
its local variables in `tick`; the breaks are where a handler could change what
the loop is about to use: after the expiry test and the status read, and after
the object's queue bit is cleared. `PendSV` needs `tick.pc = "none"`, a thread
needs that and no pending PendSV (`Running`).

**Undefined outcome.** `__thinkos_wakeup()` writes through `ctx[th]`. When an
interrupt wakes up the *active* thread (it has blocked, the scheduler has not
run yet), `ctx[th]` points to the frame of an earlier switch. Whether the write
lands in the right frame depends on the stack depth, so `CtxWrite` chooses
nondeterministically between writing and not writing the thread's `r0`. That
the stray write may also change something else on the thread's own stack is not
modelled.

**Simplifications.** Except in `ThinkOSThread`, all threads exist from the
start, created by a main thread; `SCHED_PRI` and `SCHED_LIMIT` are what the
creations leave behind. Argument and
deadlock checks, object allocation and timed calls are enabled, as in the
default configuration and in `src/src/config.h`. The end of a time slice is
one action: an interrupt between its bit operations and its `cpsid` is not
modelled. `sched_val` is an integer: with `THINKOS_SCHED_LIMIT_MAX` 32, which
every configuration of the repository uses, the 8-bit field cannot overflow.
`sem_val` is bounded by `SEM_VALUE_CAP` in the guard of a post without waiter.
In `ThinkOSThread` the frame a blocked thread will return through is the one
`thinkos_cancel_svc()` rewrites; a thread that cancels *itself* would rewrite a
stale frame and is left out, and so is the cancellation of a thread that waits
for an interrupt (`CANCELABLE`) and a second waiter for one interrupt
(`IRQ_WAITS`): `irq_th[]` goes stale in both. Nor is a slot cancelled that a
rejected creation has leaked (`Leaked`): it has no frame to rewrite, and nobody was
told its number.

Service calls are atomic with respect to interrupts of regular priority, and the
models have no others. An interrupt above SVC finds windows in them: between
`cm3_cpsie_i()` and the change of the signal in the flag calls
(`thinkos_flag.c:98-100, 169-171, 266-268, 303-305, 366-368`), where a signal it gives is
cleared, and in all of `thinkos_ev_raise_svc()` (`thinkos_event.c:220-231`), which
masks nothing. Both are hazards in `PROJECT.json`; no property speaks of them.

### 2.2 TCP

A host has one control block `pcb`, an application record `app` (what it has
sent and read, a history for the properties) and a set of segments on their way
to it. Each entry into the code is one action, because it holds `net_mutex` to
its end or to its wait: `Connect`, `Accept`, `Send`, `Recv`, `CloseCall`;
`Receive`, the whole of `tcp_input()` for a segment; `Output` and `OutputFails`,
a turn of `tcp_tmr_task()` whose `ip_output()` succeeds or wants an ARP entry;
`FastTimeout`, `RxmtTimeout`, `IdleTimeout`, a turn after the wait timed out.
`tcp_input()` is a pipeline of stages, one per section of the function, that
hand on the control block, what is left of the segment and the label jumped to.
`tcp_output()` makes as many segments as the window allows, in a loop
(`sendalot`). All of its segments but the last are full and follow each other, so
the model has no loop: `FullSegments` is the set of the full ones, `AfterFull` the
control block after them, and the last segment has the tests of its own.

The unit is a block of bytes. Sequence numbers wrap at `SEQ_MOD`, and `snd_off`
and `snd_max` at `OFF_MOD`, as their 32 and 16 bits do. A timer is a Boolean
that says it runs; it may run out at any time, which includes all durations. A
wait in a call ends in the state `blocked = "none"`, and the application makes
its next call, the same or another: more behaviours than the loop in the code
has. The network is a set: a segment sent twice before it is delivered arrives
once, but a retransmission that follows a delivery is a duplicate. Left out:
keep-alive, `tcp_abort()` and `tcp_drop()`, `tcp_bind()` and `tcp_listen()` (the
server listens), a lack of mbufs, options, checksums, urgent data, other
connections. Also left out are three exits of `tcp_output()`. Without a route
(`tcp_out.c:417-424`) or a buffer from `ifn_mmap()` (448-451) it returns 0, and
`tcp_tmr_task()` drops the request as if the segment had been sent; both sides look
up the route before they open (`tcp_connect.c:51`, `tcp_in.c:148`), and neither
interface of the repository returns no buffer. A failure of `ip_output()` other
than `-EAGAIN` (609-618) comes after the control block has changed and drops the
request as well: for a single segment it is the loss of a segment sent, which the
network of the model has; that the rest of a `sendalot` loop is not sent is not
modelled.

### 2.3 Faulty variants

Definitions such as `NextOwner_nobody` or `SysTickUnlink_keeps_queue` stand
before the definition they are a wrong version of. No specification uses them:
they are for testing the properties, each of which is violated when the right
definition is replaced by a wrong one (`mutants` in `PROJECT.json`).

## 3. Runs

Every run takes less than five minutes with two workers.

| Run | Configuration | Checks |
|---|---|---|
| `clock` | 3 threads, time sharing with limit 1, clock modulo 4, sleeps 0 and 1, an alarm in the past | types, priority, idle CPU means empty time-share queue, no missed timeout, the urgent thread's waits end |
| `mutex_cond` | 3 threads, no idle bit, 1 mutex, 1 condition, timeout 1, sleeps | all safety properties of mutexes and conditions |
| `cond_live` | 2 threads, 1 mutex that is freed at will, 1 condition, fairness | hand-over reaches the urgent thread, its timed waits end |
| `semaphore` | 2 threads, 3 semaphores: timed waits; interrupt posts; both, freed and re-initialised | types, queues, priority, no waiter beside a token, no missed timeout, two refinements of `Semaphore` |
| `events` | 3 threads, 1 set of 2 events, timeout 1, raises from an interrupt | types, priority, nobody waits beside an unmasked pending event |
| `flags` | 3 threads, 1 flag, timeout 1, interrupt-level give, set, clear | types, queues, priority, nobody waits beside a signal it could have |
| `threads` | 3 slots, two codes in slot 1, sleeps, cancellation of slots 0 and 1, 1 interrupt that thread 2 waits for, fairness | types, clean free slots, no vanished thread, the code of a join is that of the thread joined, priority of tasks, the urgent join ends |
| `tcp` | 2 hosts, segments of 1 block, queues and windows of 2, 2 segments in flight, 1 fault | stream, windows, wake-ups, data due |
| `mutex_timeshare` | 2 threads, time sharing | **violation** of mutual exclusion |
| `cond_timeout` | 2 threads | **violation**: the timeout is not reported |
| `sem_irq_timed` | 2 threads, timed waits, interrupt posts | **violation** of the refinement |
| `tcp_fin` | as `tcp` | **violation**: an end of stream before its data |

Bounds. Three threads are an owner, a waiter and a third party that is more or
less urgent than either; the queue operations treat bits independently. The
clock modulus only has to exceed twice the longest wait, as 2^32 does for
realistic waits; 3 and 4 make the counter wrap every few ticks and put the alarm
in the past half of the range (3 seen from 0). `WORD_BITS` is one more
than the number of threads where the idle bit exists and equal to it where it
does not, the two cases of `#if (THINKOS_THREADS_MAX < 32)`. One object of a
kind is enough for safety, since handlers touch a single object except for a
condition and its mutex; `semaphore` has three to show independence. Two events
are one to deliver and one to leave pending. Three thread slots are a joiner, a
thread joined and one that cancels or joins either; the threads that use slot 1
one after the other may end with different codes, so that the code of one is not
taken for that of another. No symmetry is used: thread
numbers are priorities.

In `tcp` and `tcp_fin`, one side sends: the client two blocks, which fill its queue
and its peer's window, or the server three, more than fit, so that `tcp_send()` waits
(`SENDS`). In `tcp` also both send; the constraint `BothSendBound` keeps this instance
to behaviours in which neither side reads and no fault but a loss happens, enough
for a sender that waits for room while the peer's data, and then its FIN, arrive. Two segments in flight (`NET_MAX`) are enough for an old one to be
overtaken; what would be a third is lost, and any segment may be lost at any
time. A fault (`FAULTS_MAX`) is a retransmission, a connection timer that runs
out or a transmission that fails: one is enough for data sent twice and for an
ACK of the first transmission after the second. With `MAXRXMTS = 1` the timer
that runs out next makes the code give up; that is not counted as a fault.
`OPENS_MAX = 1`: a port is not used again. A
connection may end with both sides closed or give up, so deadlock is not checked
in these two runs.

Fairness. SysTick is weakly fair: the timer interrupt keeps coming and its
handler terminates. PendSV and the return of a call are strongly fair: each
tick disables them for the length of the handler, which is far below the tick
period of 1 ms, so they are enabled, and get the CPU, again and again. Nothing
is assumed about a thread *making* calls, releasing a lock or signalling; the
liveness properties are therefore about the most urgent thread, the only one
strict priority promises anything to. In `threads` the fairness is the same
for the code of `thinkos_thread_exit()` of thread 1 and the return of thread 0;
thread 1 is then the most urgent that is ready. `TCP` has no fairness: its
timers do not run reliably (`cond_timeout`), and no progress is claimed.

### 3.1 What the violations mean

* `mutex_timeshare`: SysTick charges `active` without looking whether it is
  still ready (`thinkos_core.c:219-231`). A tick between a blocking call and
  the scheduler puts the blocked thread in the time-share queue, and from there
  in the ready queue, while its bit is still in the mutex's queue. Its lock
  call returns 0 without the lock. `src/src/config.h` has time sharing off.
* `sem_irq_timed`: the stale `ctx[]` described above; a timed wait consumes a
  token and reports `THINKOS_ETIMEDOUT`. Untimed waits do not suffer because
  their provisional result is already 0 (`IsSemaphoreForIrq`).
* `cond_timeout`: `thinkos_cond_timedwait()` returns the result of its second
  call, `THINKOS_MUTEX_LOCK`, so a timeout looks like a signal
  (`thinkos_svc.h:269`). `tcp_tmr.c:465` runs the TCP timers only on a timeout.
* `tcp_fin`: `tcp_in.c:880` drops the data of a segment that is out of order and
  `:891` processes its FIN all the same. The reader is told the end of the
  stream, and the block before it, sent again, finds a connection that is no
  longer ESTABLISHED.

Five more defects are in the models without a run of their own. The semaphore and event waits
compare `wq_ready` with 0 (`thinkos_semaphore.c:137`, `thinkos_event.c:114`), not
with the idle bit as `__thinkos_wait()` does, so that with time sharing a runnable
thread can stay in `wq_tmshare` while the CPU idles: `wait_unless_empty` is that
test, and `IdleMeansNobodyWaits` fails for a semaphore with `ENABLE_TIMESHARE`.
`thinkos_thread_create_svc()` keeps the slot of a thread it rejects
(`thinkos.c:196`).

The other three are cases a property has to except, and each is reached in its run:

* A join made while the joined thread is past the wake-up of its joiners
  (`thinkos_core.c:314`) and has not freed its slot (`:332`) is accepted. Nobody wakes
  up the caller, unless the slot is used again: then it is the next thread that ends,
  and the join returns the code of a thread it was not made for. `JoinReturnsCode`
  is about all other joins (`owed # LATE`).
* `thinkos_cancel_svc()` parks its target in `wq_canceled` "and wait for a join call"
  (`thinkos.c:99`). A join that is already waiting is not that call: the target never
  runs its exit, and the joiner sleeps until a second thread joins. `UrgentJoinEnds`
  therefore starts from a joined thread that is ready.
* A FIN that arrives out of order while received data is unread changes the state to
  CLOSE_WAIT without a broadcast (`tcp_in.c:899-906`; data in order would have
  brought one). A `tcp_send()` that waits for room would return -1 in this state
  (`tcp_send.c:71-91`) and sleeps on. `NoLostWakeup` names exactly this state.

## 4. Proofs

`THINKOS_THREADS_MAX`, the numbers of objects, the clock modulus, the sets of
timeouts and everything a program or an interrupt handler may do with the objects
are arbitrary in the theorems. They use the assumptions `CoreAssumption`,
`MutexAssumption`, `SemAssumption`, `EventAssumption`, `FlagAssumption` and
`ThreadAssumption`, which say that the constants are numbers and sets of the right
kind, that there are no more threads than bits in a word, and, for threads, that
`THINKOS_ENABLE_JOIN` is set (the code without it is not modelled). In the
theorems about TCP the sizes of the queues, windows and segments, both moduli, the
step of the initial sequence numbers, the retries, the capacity of the network and
the number of faults are arbitrary within `TCPAssumption`, which says that they are
numbers, that the 16-bit offsets are shorter than the sequence numbers and can
count a full send queue and a FIN (`MAXSND + 1 < OFF_MOD`), and that the sequence
numbers order the data of two segments (`2 * MAXSEG < SEQ_MOD`). With bytes for
blocks the code has 2^32, 2^16, queues and windows of 2920 and segments of 1460
(`tcp.c:43-79`). TLC evaluates each assumption in a run.

| Theorem | States | Condition |
|---|---|---|
| `CoreTypeCorrect`, `MutexTypeCorrect`, `SemTypeCorrect`, `EventTypeCorrect`, `FlagTypeCorrect`, `ThreadTypeCorrect` | `CoreTypeOK`, `TypeOK` | none |
| `CorePriority`, `MutexPriority`, `SemPriority`, `EventPriority`, `FlagPriority` | `HighestReadyRuns` | none |
| `TaskPriority` | `HighestTaskRuns` | none |
| `CoreTimeouts`, `MutexTimeouts`, `SemTimeouts`, `EventTimeouts`, `FlagTimeouts` | `NoMissedTimeout` | none |
| `CoreTimeshareTurns`, `MutexTimeshareTurns` | `IdleMeansNobodyWaits` | `StatusByteFits` |
| `CoreScheduling`, `MutexScheduling`, `SemScheduling`, `EventScheduling`, `FlagScheduling` | `StatusNamesQueue`, `HighestReadyRuns` | `Configuration` |
| `MutualExclusion` | `HeldIsOwned` | `Configuration` |
| `NoOrphanedLock` | `OwnerIsTold` | `Configuration` |
| `NobodyWaitsForFreeLock` | `FreeLockHasNoWaiter` | `Configuration` |
| `NobodyWaitsForItself` | `WaiterIsNotOwner` | `Configuration` |
| `NoTokenPastWaiter` | `WaitersMeanNoToken` | none |
| `SemaphoreRefinement` | `IsSemaphore` | `Configuration`; semaphore 0 is never reset or freed, and not posted by interrupts |
| `IrqSemaphoreRefinement` | `IsSemaphoreForIrq` | `Configuration`; semaphore 1 is never reset or freed, and nobody waits for it with a timeout |
| `NoEventLeftBehind` | `NoEventPastWaiter` | none |
| `NoSignalLeftBehind` | `NoSignalPastWaiter` | `Configuration` |
| `FreeSlotsAreClean` | `FreeSlotIsClean` | `LifeConfiguration` |
| `JoinsReturnCodes` | `JoinReturnsCode` | `LifeConfiguration` |
| `NoThreadIsLost` | `NoThreadVanishes` | `LifeConfiguration`, `InterruptsApart` |
| `TypesHold` | `TypeOK` of `TCP` | none |
| `NobodyWaitsInVain` | `NoLostWakeup` | one connection |
| `DataIsNeverForgotten` | `DataIsDue` | one connection, bounded faults |
| `StreamStaysIntact` | `StreamIntact` | one connection, bounded faults, bounded stream |
| `WindowsAgree` | `WindowAgrees` | one connection, bounded faults, bounded stream, `2 * OFF_MOD <= SEQ_MOD` |

The conditions, and why they are there:

- `StatusByteFits` is `WQ_LST_END <= 128`: from the 129th queue on
  `th_stat[] = wq << 1` loses its top bit.
- `Configuration` is that and `~ENABLE_TIMESHARE`: `mutex_timeshare` refutes
  mutual exclusion with time sharing. The YARD-ICE configuration satisfies it.
- The two conditions on the semaphores cannot be dropped together:
  `sem_irq_timed` shows a semaphore that is posted by interrupts and waited for
  with timeouts: a wait takes a token and reports a timeout.
- `LifeConfiguration` is `Configuration` without `THINKOS_ENABLE_PAUSE`, and no
  thread that waits for interrupts is cancelled. `thinkos_cancel_svc()` does not
  touch `irq_th[]`, so the interrupt would make ready whoever has the slot by then
  (a hazard in `PROJECT.json`); with pause a thread may be created paused, and
  only resume, which is not modelled, would bring it back.
- `InterruptsApart`: no two threads wait for one interrupt. The second overwrites
  the first in `irq_th[]`, which is then lost. `FreeSlotsAreClean` and
  `JoinsReturnCodes` hold without it.
- `JoinReturnsCode` and `NoLostWakeup` each except one case in their statement, which
  the code gets wrong (section 3.1). The theorems say that there is no other.
- *One connection* is `OPENS_MAX <= 1`: a host does not open the same connection
  twice. Segments of an earlier one may still be on their way, and this TCP has no
  quiet time that would keep them out.
- *Bounded faults* is `FAULTS_MAX + 1 < OFF_MOD`: fewer than 2^16 - 1 failed
  transmissions, retries and timeouts in a behaviour. A SYN that `ip_output()` does
  not take is counted in `snd_off` each time (`tcp_out.c:575`), and after 2^16
  times the count is 0 again: the answer to the SYN is then an ACK for nothing
  sent. `TCP_MAXRXMTS` and the connection timer end such an open long before.
- *Bounded stream* is `f[h] + OFF_MOD <= SEQ_MOD` for every `f` in `SENDS`: an
  application sends fewer bytes than there are sequence numbers, less a send
  queue. The network of the model keeps a segment as long as it likes, so that in
  a longer stream an old segment would pass for a new one. (Real TCP excludes this
  by the lifetime of a segment.)
- `2 * OFF_MOD <= SEQ_MOD`: the whole of `snd_max` lies in the positive half of the
  sequence numbers, as 2^16 does in that of 2^32.

The instance in `MCTCP.cfg` satisfies all of these conditions.

### 4.1 The core

*Queues and status bytes.* `StatusNamesQueue` is not inductive: while SysTick ends
a thread's wait, the thread is in no state a status byte describes. `StatusInv`
says the same for every other thread, and `TickInv` what the handler's locals
promise about that one (its status has been read or is 0; later, it is in no
object's queue). Both survive an interrupt-level call at any point of the handler,
so the same lemmas (`WaitKeepsInv`, `WakeupKeepsInv`, `CoreStepKeepsInv`) serve
mutexes, semaphores, event sets and flags.

*Strict priority.* `SchedInv`: if neither PendSV is pending nor the handler is
going to request it, the active thread is the head of the ready queue. With the
two facts about `tick.sched` in `PriorityInv` it is inductive on its own: nothing
in the argument looks at a status byte, so the result has no condition.

*Timeouts.* `NoMissedTimeout` is an action property of the step that ends SysTick.
`TimeoutInv` says what holds while its loop runs: a thread in the clock queue is
still in the handler's copy, or is the one in hand, or has time left. A thread
cannot join the clock queue in between (no thread runs), and an interrupt can only
take one out; the clock arithmetic is modulo an arbitrary `CLOCK_MOD`.

*Time sharing.* `IdleMeansNobodyWaits` needs that ending a wait never takes a
thread out of the ready queue. `ClockStatus` says so of the threads in the clock
queue: the status of each names another queue than the ready queue.

### 4.2 Mutexes and condition variables

`NoIrqInv` says that nobody takes a thread out of the clock queue behind SysTick's
back, which is true as long as no interrupt handler calls the kernel (mutexes and
conditions have no interrupt-level calls); it rules out that a timeout hits a
thread that was just handed a mutex. On top of it, `MutexInv` relates every thread
to every mutex: who is in a mutex's queue is there for a lock call on it, and has
the timeout as provisional result exactly if the clock may still wake it
(`LockWaiter`); waits for somebody else (`WaitsForOther`); a lock call about to
report success and no longer queued owns the lock (`GrantIsOwned`); `HeldIsLocked`
and `OwnerKnows` are the properties themselves; `AllocInv` says an unallocated
mutex is unlocked, so that the allocation's `lock[idx] = -1` takes nothing away.
Guarantees are for mutexes that are not freed while in use (`m \notin FREEABLE`):
`thinkos_mutex_free_svc()` checks nothing. Each conjunct is proved per action;
`BlockEffect`, `WakeupEffect` and `Bystander` are the lemmas that say what blocking
and waking do to the thread concerned and to all others.

`WaiterIsNotOwner` speaks of every object's queue, the condition variables'
included, and needs `StrangerInv`: whoever is in such a queue is in a lock call or
a condition wait and does not own the mutex of that call. A hand-over makes a
thread owner in the step that takes it out of the queue; that no other queue still
holds it is `OneObject`, from the agreement of queues and status bytes.

The theorems hold for any number of mutexes, some of which (`FREEABLE`) are freed
and allocated again at any moment; the runs check this with one such mutex only
for liveness.

### 4.3 Semaphores, event sets, flags

The proof modules first reduce `Next` to the few effects a step has on one object
(a set-up, a token more, a token less, a waiter made ready, a caller blocked), and
prove the theorems for those effects.

`WaitersMeanNoToken` becomes inductive with `NobodyWaitsUnallocated`, because a
set-up gives a value to a semaphore whose queue it does not look at.
`NoEventPastWaiter` is inductive as it stands: a raise either keeps the event or
wakes a waiter, and an unmask hands out what it uncovers until the events or the
waiters run out. `NoSignalPastWaiter` needs the agreement of queues and status
bytes, because a give wakes the head of the queue and looks at nothing else.

The refinements go step by step: `RequestOf(s, t)` is the abstract state of a
request, and every effect on semaphore `s` is one abstract action or a stutter
(`Simulates`). The invariant, `SemInv`, says of a thread in the queue of `s` that
it is there for a wait on `s`, has success as provisional result if its wait has
no timeout and the timeout otherwise, and that SysTick never takes up a wait
without a timeout. A wait without a timeout has its result from the start, so that
an interrupt-level post may write through a stale `ctx[]`; for a timed wait only a
post by a thread, which runs after the scheduler, is sure to reach the frame.

### 4.4 Threads

`thinkos_thread_exit()` runs in the thread that ends, unprotected and in several
steps, and between the wake-up of the joiners and its final wait a more urgent
thread may be ready. `UrgencyInv` excepts exactly that stretch (`Leaving`) from
`SchedInv`.

For the rest, `LifeInv` says of every thread where it can be at each point of its
life (`Place`): a task is ready, sleeps, joins one other thread, or waits for an
interrupt, and its status, its call and its result agree with that; a thread that
ends is ready or in the queue of the cancelled, or both, and has its code; one that
has been unlinked is at most ready and has no status; a slot is
free only after that. A thread in a join queue has `owed` NONE or LATE; one that has
left it owns the code it is owed (`Paid`), because the wake-up of the joiners writes
both in one step and nobody writes into the frame of a ready thread but its
canceller, who ends its join. `IrqInv` says that an enabled interrupt names a thread that
waits for one, each a different thread; `ClockInv` what SysTick has in hand. The
invariant is inductive together with `UrgencyInv`, because the active thread of a
call must be known to be ready. `NoThreadVanishes` adds `DueInv`: a task in no
queue has an enabled interrupt that names it.

### 4.5 TCP

*One entry into the code.* `TCPProofs` first says what each entry does, without
looking at the rest of the system. The stages of `tcp_input()` compose to four
effects (`InputEffect`): the connection ends (`Gone`), the active open is answered
(`Opened`), the segment is dropped (`Held`), or its ACK, a slice of its data and its
FIN are taken (`Through`). The two paths of header prediction are shown to be cases
of the last, so that everything after this is proved once for both. `tcp_output()`
sends segments whose data is a stretch of the send queue at its sequence number
(`SentBy`, `DataFrom`). The arithmetic is modulo 2^32 and 2^16 throughout;
`SeqDiffNear` is the fact that signed differences are right as long as the numbers
are less than half the modulus apart.

*Types.* `TypeInv` adds the types of the segments and that the queues are empty
outside a connection. The receive queue stays within `MAXRCV` because `TrimBack`
cuts the segment to what is free, not because the peer respects the window.

*Waits.* `WakeOK` is the part of `NoLostWakeup` of one control block. It is
inductive except for one step: an ACK that ends SYN_RCVD without acknowledging
anything would leave a caller asleep, since the signal there is commented out
(`tcp_in.c:682`). The clause of `tcp_send()` follows the state as well as the queue
(`FullQueue`): leaving ESTABLISHED wakes up the caller on every path but the FIN with
unread data. `Hand` rules the ACK of nothing out: before the server opens nobody has
anything to acknowledge, and while it is in SYN_RCVD every ACK under way is one of
its SYN (`Reached`), however often that was sent.

*Data due.* `DueInv` needs that the retransmission timer runs whenever something is
sent and not acknowledged (`TimerOK`), which fails if the answer to the SYN comes
when `snd_off` is 0. `SynCounted` says that whatever the server may have seen of an
active open is counted there.

*Streams.* `StreamInv` says, for each direction: there is a number `b` such that the
receiver, having `n` blocks, expects `b + n`; each segment with data carries the
blocks `i + 1, i + 2, ...` at the number `b + i`, and not past what the sender was
given or, while it is open, has counted in `snd_max`; and the sender's queue holds
the blocks after the `a` that are acknowledged, `snd_seq` is `b + a`, `a <= n`, and
every ACK on its way is for at most `n` (`Stream`, `Sender`, `OnItsWay`). The sender's
part is only claimed while it has data whose numbers matter (`Numbered`), because
`tcp_close()` in CLOSE_WAIT drops the queue, and the receiver's only while it takes
data (`Accepting`). Around it, `FinInv` keeps `snd_off <= snd_max` and a FIN that was
sent counted; `EndInv` says that nobody is in a state that follows the peer's FIN
unless the peer has closed; `HandData` says that nothing is queued, sent or read in a
direction before its handshake is over, which is where `b` comes from. Every step is
one of five kinds (`StreamKinds`, `InputKinds`): a step of one host that sends or
reads, a queued block, a segment taken, and the two opens; for each kind the
receiver's and the sender's side of both streams are preserved separately
(`WorkReceiver`, `WorkSender`, `QueueReceiver`, ...). `StreamIntact` is the part about
what arrived (`PrefixOK`), and holds to the end of the connection although the
numbers are followed only while data is taken.

### 4.6 Only model-checked

Liveness (`UrgentWaitEnds`, `HandOverReachesOwner`, `UrgentTimedWaitEnds`,
`UrgentJoinEnds`): fairness and ENABLED are out of the prover's reach. (`UrgentJoinEnds`
begins where the joined thread is ready in `thinkos_thread_exit()`; what brings it
there is up to the program.) Every safety
property of a passing run is proved under the conditions above.

## 5. Not modelled, and the plan

1. *Pause and resume* (`thinkos_pause.c`): a paused thread leaves the queue of
   what it waits for and comes back with the clock running, so that none of the
   queue properties holds; the promise left to state is small. Its hazards are in
   `PROJECT.json`.
2. *Composition*: semaphores and mutexes in one kernel, so that interrupt-level
   posts run against mutex waits.
3. *TCP*: keep-alive and abort, a lack of mbufs, a second connection on the same
   port, the pool of condition variables (two functions free or lose one).
4. *The debugger*: the poll task and the halt and step commands of
   `yard-ice/debugger.c`, as clients of the mutexes and conditions.

`thinkos_break_svc()` has no case in the dispatcher and cannot be called.

Left out for good: fault handlers and traces (no kernel state), drivers
(registers), parsers and interpreters (sequential, generated tables), the FPGA
design and the host tools.
