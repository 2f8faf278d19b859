# The DSP firmware in TLA+

This directory is a verification development of the firmware that Allwinner's
audio DSP (Xtensa HiFi4, R528/sun8iw20, core `dsp0`) runs under FreeRTOS: TLA+
modules translated from the C code, TLC configurations that check them on small
instances, and proofs that TLAPS checks for instances of any size.

The code has two halves: `src/rtos-hal` (drivers: a `hal_*` layer over the
registers) and `src/freertos` (the kernel, the port, the OS layer under the
drivers, and the services). The one build configuration in the repository,
`dsp0` of the R528, has the message box AMP driver, DMA, GPIO, UART, timers,
interrupt controller and clocks; the remote audio server with its component part
on remote 0, channel 1; the power management client; frequency scaling; the CLI
and `msgbox_demo`. The message manager with its SX message box driver, the sound
core, SPI, TWI and the algorithm sample are in the repository and not in that
build; what is said of them is about their code as it stands. `configASSERT` is
empty (`FreeRTOSConfig.h:144` and `:222`, `portmacro.h:194`,
`FreeRTOS.h:238`), so a failed kernel assertion changes nothing by itself.

| modules | what | lines |
|---|---|---|
| `MsgboxAmp` | receive side of the message box driver | 481 |
| `MsgboxService` | what it promises: an abstract message service | 52 |
| `RpafServer` | the remote audio server | 655 |
| `RpafService` | what it promises: request and answer | 23 |
| `PmClient` | the power management client with its standby | 412 |
| `PmService` | what it promises: answers, and sleep after a Suspend | 56 |
| `MessageManager` | the message manager over the SX message box driver | 358 |
| `DataTransfer` | the data transfer sample | 211 |
| `KernelQueue` | a queue of the kernel and the scheduler under it | 368 |
| `QueueService` | what it promises: a bounded sequence | 30 |
| `KernelMutex` | mutexes of the kernel, priority inheritance | 312 |
| `SndPcm` | a stream of the sound core and its DMA | 479 |
| `HalDma` | the pool of DMA channels | 140 |
| `HalSpi` | SPI transfers and a sound stream over that pool | 399 |
| `Services` | the client, the manager, the sample and the mutexes side by side | 131 |
| `Platform` | a queue, a stream and the transfers side by side | 90 |
| `MsgboxAmp_proofs`, `RpafServer_proofs`, `PmClient_proofs`, `MessageManager_proofs`, `KernelQueue_proofs`, `KernelMutex_proofs`, `Services_proofs`, `Platform_proofs` | theorems about the modules they are named after | 18107 |
| `MCMsgboxAmp`, `MCRpafServer`, `MCServices`, `MCPlatform` | instances for TLC | 115 |

`tlc -config X.cfg MCModule` repeats a run, `tlapm X_proofs.tla` the proofs.
`PROJECT.json` says which lines of the source each definition stands for, which
mutated definition breaks each property, and where the hazards are.

Sections: 1 inventory, 2 plan, 3 runs and fairness at a glance, 4 to 9 one per
group of components, 10 findings, 11 what is proved, what is only
model-checked, what is not modelled.

## 1. Inventory

One core, preemptive scheduling with 25 priorities, round robin within a
priority, interrupt handlers above every task. The other cores are reached
through the message box: per channel a FIFO of eight 32-bit words each way.
At boot `main` initialises the audio server, the console and the power
management client, in that order, and starts the scheduler.

### Components

**AMP message box driver** (`msgbox_amp.c`).
*State:* the list `it_edp` of endpoints, linked through the endpoint itself;
`it_edp_mutex`; the interrupt enable and status registers; the FIFOs.
*Operations:* init, alloc, free, send (spins until the FIFO has room), and the
interrupt handler, which walks the list, drains the FIFO of each endpoint's
channel into its callback and clears its status bit.
*Used by* the audio server and the power management client (never freed) and by
the CLI commands `msgbox_demo` and the message box test.
*Hard:* the handler walks the list while a task is in the middle of linking or
unlinking, and takes part in the mutex protocol without being able to wait.
*Correct when:* the list always holds what is in use, the handler ends, calls
nobody that has been freed, and loses no word.

**Remote audio server, RPAF** (`aw-rpaf/common.c`, `component.c`).
*State:* five kinds of queue, the list of components, per component a task, its
command queue, an event group and the parameters copied last; two words of a
package under construction in the callback.
*Operations:* the receive callback, the tasks AudioSend, AudioRece and one per
component, and sending an answer. The other core puts a command in an object in
shared memory and sends its address; the address comes back as the answer.
*Hard:* six contexts pass the address on, none of them looks at the result of a
queue operation, and the object is looked at again and again on its way.
*Correct when:* every command is performed by the right task and answered once.

**OS layer** (`drivers/osal`). Mutexes, semaphores, queues, timers, event
groups: thin wrappers that choose between the task and the interrupt variant of
the kernel's function. *Hard:* blocking calls that fail in an interrupt.

**FreeRTOS kernel** (`queue.c`, `tasks.c`; version 10 with the vendor's
changes). *State:* a ring with two pointers, two event lists and two lock counts
per queue; the ready, pending and delayed lists; priorities and mutexes held per
task. *Hard:* a call blocks in several critical sections with interrupts in
between; a holder inherits a priority and gives it back on several ways.
*Correct when:* nobody waits for what is there, nothing is lost or made up, and
no task of middle priority delays one of high priority.

**Power management client** (`pm_client/pm_msg.c`). *State:* a queue of eight
words, `inited`, `edp`. *Operations:* initialisation, callback, task (echo the
word, then enter standby on SUSPEND), the standby sequence: suspend the
scheduler, lower the frequency, mask interrupts, `waiti`, and everything back.
*Hard:* what arrives between the echo and `waiti`. *Correct when:* every word is
echoed, standby restores what it changed, and a RESUME always ends standby.

**Message manager** (`message_manager/message_manage.c`) and the **SX message
box driver** under it. Frames of several words, collected in five buffers and
handed to a task through a queue, with feedback to the sender. *Hard:*
buffers move between interrupt and task, lengths are counted in eight bits, a
frame that stops half way is timed out. *Correct when:* the task gets whole
packages, each buffer has one user, and answers are not mixed.

**DMA driver** (`hal_dma.c`). Channels with descriptor lists, and an interrupt
handler that drops the lock around the callback. *Correct when:* a channel has
one owner, and a callback is not called after its channel was freed.

**SPI driver** (`hal_spi.c`). Transfers by DMA or by the processor; each call
ends by semaphores that interrupts and a time-out give. *Correct when:* a call
that returns OK has sent or received everything.

**Sound core** (`sound/core/snd_pcm.c`, `snd_core.c`, `snd_dma.c`). Ring buffers
with positions that wrap, a state machine per stream, a DMA that goes round, and
two tasks. *Correct when:* nothing is overwritten before it is played, the
position follows the DMA, an underrun stops the stream, and calls return.

**Data transfer sample** (`algo_sample/data_transfer.c`). A pool of buffers and
a work queue between an algorithm and a task that writes to a sound card.
*Correct when:* every block is used by one side at a time, played in order, and
the stream is closed.

**Algorithm registry and chain** (`algo_common`, `component.c:187-373`).
Algorithms run in the order the client asks for and exchange two buffers.

**ALSA library and codec drivers, TWI, UART, CIR** (transfer state machines in
interrupt handlers, a receive ring), **clocks** (`ccmu`, `cpufreq.c`: enable
counts, tables of divisors), **interrupt controller** (`hal_intc.c`: a second
level of masks), **GPIO, timers, RTC, watchdog, PWM, ADC, LED, hardware
spinlock, standby:** mostly register access. The console and the vendor runtime
are third-party code.

### What interacts with what

    other core --FIFO--> irq_msgbox_handler --rec()--> arpaf_rxch_from_cpu_callback
                                        |                    | ServerSendQueue
                                        |                AudioSend --cmdQueue--> Comp<n>
                                        |                    |  \                  |
                                        |                    |   ServerReceQueue <-+
                                        |            (errors)|        |
    other core <--FIFO-- hal_msgbox_channel_send <-----------+--- AudioRece
                                        |
                                        +--rec()--> pm_msg_recv_callback --xQueue--> pm --> waiti

    other core --FIFO--> msg_irq_handler_sx --> rev_callback --msg_queue--> message manager
    task --ksnd_pcm_write--> ring --> DMA channel --> codec;  DMA interrupt --> period elapsed
    task --hal_spi_xfer--> SPI controller + DMA channel;  two interrupts --> semaphores

Shared state without a lock: the interrupt enable register, the send FIFO, the
objects in shared memory, the parameters of a component (written by AudioSend,
read by its task), the buffers of the message manager, the ring of a stream
while frames are copied.

## 2. Plan

In the order of importance to this firmware.

| step | modules | state |
|---|---|---|
| message box driver, receive side | `MsgboxAmp` implements `MsgboxService` | modelled, checked, proved |
| audio server | `RpafServer` implements `RpafService` | modelled, checked; invariants and refinement proved |
| power management client | `PmClient` implements `PmService` | modelled, checked; invariants and refinement proved |
| queues of the kernel | `KernelQueue` implements `QueueService` | modelled, checked; invariants and refinement proved |
| mutexes of the kernel | `KernelMutex` | modelled, checked; three invariants proved |
| message manager and SX driver | `MessageManager` | modelled, checked; its three invariants proved |
| data transfer sample | `DataTransfer` | modelled, checked; both invariants proved |
| sound core | `SndPcm` | modelled, checked; its safety properties proved |
| DMA channels under two drivers | `HalDma`, `HalSpi` | modelled, checked; both properties proved |

Left, in this order: `MsgboxSend`, `hal_msgbox_channel_send` for packages of any
length from two tasks, composed with `MsgboxAmp`; `AlgoChain`, the sorting and
the exchange of buffers in a chain of algorithms, against function composition;
the state machine of `hal_twi.c`; the mapped access of the ALSA library over
`SndPcm`; freeing a channel of the SX driver and its adapter; event groups,
timers and queue sets of the kernel.

## 3. Runs and fairness at a glance

| run | instance | states | shows |
|---|---|---|---|
| `msgbox` | two instances, section 4 | 225 629 | list of endpoints, service, delivery |
| `rpaf_faults`, `rpaf_shared` | section 5 | 5 577 389, 215 053 | accounting, packages, service, answers |
| `services` | the power management client, or the message manager, or the data transfer, or mutexes of the kernel | 353 953 | sections 6, 7 and 8 |
| `platform` | a kernel queue, or a stream of sound, or SPI and DMA | 776 334 | sections 8 and 9 |
| `msgbox_isr_give`, `rpaf_event_bits`, `rpaf_senders`, `pm_lost_wakeup`, `mutex_give`, `pcm_pause`, `spi_done` | | | a violation each: section 10 |

`MCMsgboxAmp`, `Services` and `Platform` put instances that share no state
into one specification: the variable `exercised` says which part a behaviour is
one of, and the others stay in their initial states. The number of states is
therefore the sum of those of the parts, not the product, and each part is
explored completely. `Services` extends `PmClient` and has `Manager`, `Transfer`
and `Mutexes` as instances of `MessageManager`, `DataTransfer` and
`KernelMutex`; `Platform` extends `KernelQueue` and has `Pcm` and `Spi` as
instances of `SndPcm` and `HalSpi`. An invariant of a part is stated where that
part is exercised (`InPart`); its mutants are found there. `MCServices` and
`MCPlatform` give the parameters their values, and assume that these are what the
theorems ask of them.
The interactions that do matter are inside one module each: handler, callbacks,
server tasks and the other core in `RpafServer`; two drivers over one pool of
channels in `HalSpi`; tasks, interrupts and scheduler in `KernelQueue`.

Deadlock is checked in `rpaf_shared` only: everywhere else the system may come
to rest (nobody calls, no word comes, a bound is reached), and that is not an
error.

Fairness is weak throughout. An interrupt that stays raised is taken and its
handler runs to its end: there is one core and nothing above the handlers. A
task inside a call gets the processor: tasks of equal priority share it by time
slices, and none of the tasks modelled runs for ever. Main runs until it starts
the scheduler. The other core reads its FIFO. The DMA moves on while it is on,
its interrupt is served, and the task that a call of the sound core is in gets
the processor: that is one condition on `SystemStep`, which is weaker than one
for each of the three, and enough. A stream that has been paused is released
again. Nothing makes a client ask, a
remote core send, a task make a call, or a time-out come, except the time-out of
a wait in the sound core that nothing else can end.

## 4. The message box driver

### Model

`MsgboxAmp` has a variable for each of the driver's: `head` is `it_edp`, `next`
the field of each endpoint, `mutexCount` and `mutexHolder` the two fields of the
mutex that `xSemaphoreTake` and `xSemaphoreGive` read and write, `irqEn` and
`irqSta` the registers, `fifo` the FIFOs. The handler and each task have a
program counter; an action goes from one access to shared memory to the next,
so the handler can come in at every point where it makes a difference. While it
runs no task moves; only the remote core does.

| actions | code |
|---|---|
| `AllocCall`, `AllocLock`, `AllocFirst`/`Walk`/`Append`, `AllocNull`, `AllocUnlock`, `EnableRead`, `EnableWrite` | `hal_msgbox_alloc_channel`, `msgbox_enable_rec_int` |
| `FreeCall`, `DisableRead`, `DisableWrite`, `FreeLock`, `FreeFirst`, `FreeSeek`, `FreeWalk`, `FreeUnlink`, `FreeUnlock` | `hal_msgbox_free_channel`, `msgbox_disable_rec_int` |
| `IsrEnter`, `IsrRead`, `IsrDrained`, `IsrClear`, `IsrUnlock` | `irq_msgbox_handler`, `irq_msgbox_channel_handler` |
| `RemoteSend`, `StatusCleared` | the hardware and the other core (external) |

In an interrupt `hal_mutex_lock` does not wait and `hal_mutex_unlock` gives the
mutex unconditionally. The handler ignores both results, so when it preempts a
task inside the critical section it frees that task's mutex, and the task's own
unlock then fails. The model does exactly that: `IsrUnlock` sets the count to 1
whoever holds the mutex.

`LevelStatus` says whether a status bit follows the FIFO or is latched when a
word arrives; the repository does not tell. Safety and delivery are checked for a
bit that follows the FIFO, the end of the handler for both kinds, and safety is
proved for both; a latched bit can be cleared after the last look at the FIFO and
leave a word behind.

### Properties

| property | says |
|---|---|
| `RegistryIntact` | endpoints in use are on the list, nothing else is but the argument of a call in progress, and the list ends |
| `NoCallbackAfterFree` | the handler calls no endpoint that has been freed, unless it may be following a stale pointer |
| `NoOrphanInterrupt` | an enabled channel has an endpoint that empties its FIFO, and an endpoint in use has its channel enabled, unless it is muted |
| `ImplementsService` | every step is one of `MsgboxService`: words are handed over in order, once, to an open endpoint of their channel; the walk on a stale pointer may hand over to another |
| `HandlersReturn` (`HandlerReturns` of the module) | the handler ends each time, in both instances |
| `WordsArrive` (`WordsDelivered` of the module) | a word for an endpoint in use that is not muted is handed over where the status bit follows the FIFO, on a shared channel and on one of its own |
| `GivenFromIsrOnlyUnheld` | the kernel's assertion about giving a mutex in an interrupt (violated) |

*The field `next` of a new endpoint* is what its caller left there: NULL in the
static endpoints, anything in that of `msgbox_demo` (`msgbox_demo.c:105`), which
is on the stack. Between `t->next = edp` and `edp->next = NULL`
(`msgbox_amp.c:130-136`) the list goes on to wherever that field points. The
model sets it to anything (`StaleNext`). `Settled` is the list as it is meant,
on which the properties above hold at every moment; `StaleLink` says that a field
that is not NULL is on the list and not yet cleared, and only while it does can
a walk go astray. The driver has no defence against that, and nothing but the
shortness of the interval.

*A channel that several endpoints read* has one bit in the enable register.
`hal_msgbox_free_channel` clears it, whoever else reads the channel
(`msgbox_amp.c:110`, `146`), and the words of the others stay in the FIFO until
the next alloc on the channel sets the bit again. The history variable `muted` holds the
endpoints that this has happened to. No comment or document says that a channel may
be shared, so this is a limit of the driver that the properties name, not a
contradiction to anything: the audio server reads channel 1 of remote 0, the power
management client has a channel of its own, and the demo opens the one it is
given on the command line.

### Runs

`MCMsgboxAmp` has two instances of the module, with variables of their own; a
behaviour exercises one of them.

| run | instance | states | result |
|---|---|---|---|
| `msgbox` | *shared:* three endpoints, one of them permanent and sharing its channel with another, FIFO of 2, 2 words per channel, level status | 225 629 in all | the safety properties, the refinement and both liveness properties hold |
| | *own:* a channel per endpoint, one word each, latched status | | the handler returns |
| `msgbox_isr_give` | *shared* | | `GivenFromIsrOnlyUnheld` violated |

*Bounds.* Three endpoints are what this firmware has at a time on one remote
(audio, power management or test, demo), and are enough for an endpoint in the
middle of the list, one before and one after it. `StaleNext` is NULL or an
endpoint that comes and goes. Two words let one be in the
handler's hands while the next arrives. `MaxWords` bounds what the remote core
sends; the list can change for ever. One task (`cli`) allocates and frees: the
audio server and the power management client do so before the scheduler starts,
afterwards only console commands do. With two such tasks the driver is not
correct: the enable register is read and written outside the mutex, and the
handler gives the mutex away.

*Deadlock* is not checked: without callers and words the system is at rest.

*Fairness.* Weak fairness of the handler: a raised interrupt is served, and the
handler runs on the processor until it returns. Weak fairness of a task inside
a call: tasks of equal priority share the processor, and nothing that runs at a
higher priority runs for ever. Calls and words may never come.

### Proofs

`MsgboxAmp_proofs` proves, for any endpoints, channels, FIFO depth and either
kind of status bit:

| theorem | property |
|---|---|
| `TypeCorrect` | `TypeOK`: no null pointer is followed |
| `RegistryStaysIntact` | `RegistryIntact` |
| `CallbacksOnlyInUse` | `NoCallbackAfterFree` |
| `InterruptsAreServed` | `NoOrphanInterrupt` |
| `Refinement` | `ImplementsService` |

*Hypothesis,* stated in the theorems: `SingleMutator` (one task allocates and
frees). Of the endpoints nothing is assumed: `next` may hold anything when they
are handed to alloc, and an endpoint may share its channel.

*Argument.* The list as a set, `OnList`, is the least set closed under `next`
that contains the head. Lemmas say what each kind of pointer update does to it:
writing an endpoint off the list changes nothing (`WriteOutside`), linking
behind the last adds one (`LinkLast`), unlinking the first or a later one
removes it (`UnlinkFirst`, `UnlinkBehind`), and a walk stays ahead of what it
looks for. None of the safety properties is inductive: that a step leaves the
right endpoints on the list depends on where the walk is and on the list being
a chain. `IInv` therefore adds to `TypeOK`: `CallArgument` (the endpoint a call
works on is not in use), `Membership` (the list is exactly the endpoints in use
and those at a linked point of a call), `WalkPosition` (an allocation's pointer
is on the list; what a free looks for is ahead of it), `Chain` (no two
endpoints have the same successor, none points to the head, and there is an
end), `HandlerOnList` (or past a stale pointer), and `Enabled` (the copy of the
register a task holds is still right). The lemmas and the parts speak of the
settled list: the store of NULL after a link leaves it as it is. One lemma per group of actions shows that `IInv` is preserved; the
properties follow from it. The handler's unlock needs nothing of the mutex:
with one mutator, the mutex protects nothing, and the order of the pointer
writes carries the proof.

## 5. The remote audio server

### Model

A command is a record in the object of its client. The variables follow the
address of the object: `rx` and `rxVal` (callback), `serverSend`, `sendItem`
(AudioSend), `cmdQueue`, `compItem` (component tasks), `receQueue`,
`sendingObj` (the two senders), `tx`. `known`, `native`, `slot`, `eventSet`,
`handleBits` are the list of components, the parameters copied into a
component, its number, its event group and the static variable that numbers are
taken from. `live` and `dump` stand for the algorithms created and for
`dump_start`.

| actions | code |
|---|---|
| `ReceiveFirstWord`, `ReceiveSecondWord` | `arpaf_rxch_from_cpu_callback` |
| `SendReceive`, `Fail` | `pxAudioServerSendTask` |
| `Lookup`, `LookupFails`, `NoMemory`, `CreateTask`, `WaitTask`, `Dispatch`, `Pass` | `snd_dsp_hal_component_independence_process` and the functions it calls |
| `ProcessOther`, `ProcessNothing` | the other modes of `snd_dsp_hal_component_process` |
| `CompStart`, `CompReceive`, `CompExecute`, `CompReply` | `pxAudioCompTask` |
| `ReceTask`, `SendWait`, `SendWrite` | `pxAudioServerReceTask`, `arpaf_msgbox_send`, `hal_msgbox_channel_send` |
| `Submit`, `TakeFirstWord`, `TakeSecondWord` | the clients (external) |

`CompExecute` switches on `native`, as the code does, and not on the object it
received. A full queue drops what is pushed. A word written to a full FIFO is
lost, which two senders can bring about. The results of `xQueueCreate` and
`xTaskCreate` are not looked at: `CreateTask` may leave the component without its
queue (it is not in `queues`) or without its task, and AudioSend, which waits for
the task's bit, without end. A command for a component without a queue reaches
`xQueueSendToBack` with a null queue, and its task `xQueueReceive`; the model
halts AudioSend and the task there (`queue.c` asserts `pxQueue`, to no effect
here). Bits of the event group from `EventBits` on wake nobody, because
`event_groups.c:552` masks them out of what a waiter waits for.

Clients own their object: they do not touch it between command and answer, and
they create a component before they use it. They may send what the server has
no handler for (`"silent"`), what it has to refuse (`"unsupported"`), and the
server may run out of memory (`"nomem"`): for the object of a component or its
event group, its queue, or its task.

Abstracted: the samples, the chain of algorithms (a component has its algorithms
or not), the commands without an effect on the rest (`"other"`), and the
32 numbers of `0x1 << i`, of which the model uses as many as there are
components.

### Properties

| property | says |
|---|---|
| `Accounting` | the address of a command is in exactly one place of the server until the answer arrives |
| `RunsItsCommand` | a component task performs the command it received, although it reads parameters somebody else writes |
| `PackagesWhole` | the words in the send FIFO pair up as whole packages |
| `ComponentReady` | commands find their component made, and its queue unless there was no memory for it; data its algorithms |
| `ImplementsService` | a command is performed, then answered, once |
| `Answered` | every command that has a handler is answered |
| `WaitsForUserBits`, `SendersExclude` | what an assertion and a comment say (violated) |

Four of them are stated "until a command has failed". After a failure they do
not hold, and that is the code's behaviour: AudioSend answers what AudioRece
answers as well, so a client is answered twice, its next command is in the
object while the first is still in a queue, and packages of the two senders can
be mixed. `RunsItsCommand` and the second half of `ComponentReady` also need
`Exclusive`: two clients that use one component may remove it under each other
and overwrite each other's parameters.

### Runs

| run | instance | states | result |
|---|---|---|---|
| `rpaf_faults` | 2 clients with components of their own, messages without handler, refusals and no memory, FIFO of 3 | 5 577 389 | `Accounting`, `RunsItsCommand`, `PackagesWhole`, `ComponentReady` hold |
| `rpaf_shared` | 2 clients that share a component, start and stop too, no faults | 215 053 | `ImplementsService`, `Answered` hold; no deadlock |
| `rpaf_event_bits` | 2 components, one user bit | | `WaitsForUserBits` violated |
| `rpaf_senders` | refusals | | `SendersExclude` violated |

*Bounds.* A client has one command in flight, so two clients give two commands,
which is enough for one to overtake, overwrite or be mixed with the other, and
for one to find the component the other is creating. Queues of 2 are as long as
the number of clients: the code's lengths (20 and 10) play the same part for 20
and 10 clients, and `Accounting` would be violated with fewer places than
clients. `FifoDepth` 4 holds the words of both clients; 3 makes a sender wait in
the middle of a package. `EventBits` 24 becomes 1 or 2, one less than or as many
as the components. `MaxLate` 0: no command is asked
after the first failure, of which nothing is claimed.
Deadlock is not checked where clients may send what is never answered.

*Fairness.* Weak fairness of each task and of the callback: AudioSend, AudioRece
and the component tasks have the same priority and share the processor by time
slices, and the callback runs in an interrupt. The other core reads its FIFO.
Clients need not ask.

### Proofs

`RpafServer_proofs` proves `PackagesWholeAlways`, `AccountingAlways`,
`RunsItsCommandAlways`, `ComponentReadyAlways` and `ServerImplementsService`:
for any clients, components and commands, any depth of the FIFO, and (but for the
first) queues at least as long as there are clients, which the hypothesis `Long`
states. That is what the code's lengths have to be, and why it may ignore the
results of the queues.

*Whole packages.* `PackageInv` adds to the property what the words in the FIFO
are, that one of the two senders at most is between its two words, and that the
object AudioRece sends is one that has been handled.

*Accounting.* The property counts the places an object is in, and a step that
moves it changes two of them. The proof therefore names the places: there is a map from the objects in the server to places, and
`AccountInv` says that a place holds what is mapped to it, and nothing else,
once. A push then finds room by counting: whatever is in a queue is mapped
injectively into the clients, and the object to be pushed is one more.

*Components.* `ComponentInv` says, until a command has failed, what the program
counter of AudioSend and the component's task imply of the list of components:
the session a client has with its component, that the parameters copied last are
those of the one command that is under way for a component with one client, that
a component that is passed a command has its task, and its queue unless memory ran
out (`MadeTasks`, `AtTask`), and that the algorithms exist from the command that
creates them to the one that removes them. It uses the accounting, because a command that was in
two places could be overtaken by itself.

*Service.* `ServerImplementsService` has the hypothesis `NoFailure`: no client
asks for what is refused, and memory does not run out. What has no handler may be
sent; it stays asked for. (After a failure the server does not implement the
service: it answers twice.) The refinement calls a command done when its object
is `Out`: in the hands of a component that has performed it, in `receQueue`, with
AudioRece, or in the FIFO. Two steps make an object one that is out, and the map
of the accounting says that it was not one before. All the others move it on
without losing it, because there is room in the queue, and one sender.

## 6. The power management client

### Model

`main` has its own program counter through `pm_standby_service_init`, because
the endpoint, the task and `inited` come one after the other. `fifo`, `queue`
and `tx` hold the words on their way; `cpu` is what the standby changes
(interrupt level, enabled interrupts, scheduler, frequency), `saved` its two
local variables, and the history variable `wanted` what the other tasks have
last asked for. An interrupt is taken between two steps.

| actions | code |
|---|---|
| `CreateQueue`/`CreateQueueFails`, `AllocChannel`/`AllocChannelFails`, `CreateTask`/`CreateTaskFails`, `DeleteHandles`, `Publish`, `StartScheduler` | `pm_standby_service_init`, with its error path, and `main` |
| `MsgboxInterrupt` | the handler and `pm_msg_recv_callback` for each word |
| `Receive`, `Answer` | `pm_msgbox_dotask`, `pm_msgbox_send` |
| `SuspendAll`, `GetFreq`, `SetFreq`, `DisableInterrupts`, `GetIntenable`, `MaskOthers`, `Waiti`, `Unmask`, `EnableInterrupts`, `SetFreq`, `ResumeAll` | `pm_dsp_standby`, line by line |
| `RemoteSend`, `RemoteRead`, `Raise`, `OtherInterrupt`, `OtherTask` | the other core, other interrupts and tasks (external) |

The clock functions may fail (`FreqFails`): the frequency is then what it was,
and `freqFailed` remembers it. With `CreateFails` the queue, the channel or the
task may not be had, and main, which ignores the result, goes on without the
service: without a queue there is no endpoint and no task; without a channel the
queue is deleted (neither driver of the repository refuses one, but the code asks
for it); without a task the queue is deleted under an endpoint that stays linked,
and the words the callback offers it are taken as lost. `Unbuilt` names the
three. `vSemaphoreDelete` of the handle that is NULL has
no defined effect and is left out. `Patience` says whether the other core waits,
after a Suspend, until the processor has gone to sleep. Both kinds are checked.

### Properties

| property | says |
|---|---|
| `BuiltInOrder` | the callback finds a queue that was created, though perhaps deleted since; the task never refuses to answer |
| `NothingDropped` | no word is lost if the other core leaves at most `QueueLength` unanswered and no queue was deleted |
| `StandbyUndoesNothing` | after standby the scheduler, interrupts and frequency are what others last asked for |
| `ImplementsPmService` | every word is answered once, in order; every Suspend puts the processor to sleep once, and nothing else does |
| `EveryWordAnswered` | a patient remote core gets every answer, unless the service could not be built |
| `SleepsOnlyWithoutWord` | the processor sleeps only when nothing is queued (violated) |

*Bounds.* Two words tell SUSPEND from another; three words in all let one wait in
the queue while one is answered and one arrives; FIFO 1 and queue 2 make both
full. `Window` = `QueueLength` is the limit of `NothingDropped`.

### Proofs

`PmClient_proofs` proves, for any words, interrupts, levels, frequencies and
lengths, under the assumptions that `PmClient` states on its constants:
`PmTypeCorrect`, `BuiltInOrderAlways`, `StandbyUndoesNothingAlways`,
`NothingDroppedEver`, and `ClientImplementsService` (with the hypothesis
`Window <= QueueLength`: with a shorter queue words are lost). `OrderInv` relates
how far main has come to what exists, and that nothing of the task has run
before the scheduler. `StandbyInv` says for each point of the standby what it has
changed and that the saved values are still those wanted, because from
`SuspendAll` on no other task runs. `WindowInv` bounds the words in FIFO and
queue together. The refinement maps the word being answered, the queue and the
FIFO, in this order, to the line of the service.

## 7. The message manager and the data transfer sample

### Message manager

A word is <<package, position>>, so that the model can tell whose words a buffer
holds; `Count` is what the code reads in the second word of a buffer, `Junk`
what it reads when that is not a count. `buf` has the words, `idx` and `used` of
each buffer, `mctrl` is the buffer being filled, `isr` the channels the handler
still has to serve.

| actions | code |
|---|---|
| `IsrEnter`, `IsrReturn` | `msg_irq_handler_sx` |
| `RevCallback`, `RevDone` | `msgbox_rev_handler` with `rev_callback`, one word |
| `SendWord`, `SendFull`, `SendDone` | `msgbox_send_handler` |
| `AllocRx`, `AllocTx`, `CreateQueue` | `msgbox_alloc_channel_sx`, start of `task_message_manage` |
| `Receive`, `Handle`, `Release` | `task_message_manage`, `coming_msg_handler` |
| `Feedback`, `Fed` | `msg_feedback`, `arisc_send_to_cpu` |
| `RemoteSend`, `RemoteAbort`, `RemoteRead`, `TimePasses` | the other core and the clock (external) |

`idx` is a byte and the length of a package up to 256, so `IndexWords` (4 in the
run) is where the index wraps and a package of as many words is never complete.
A package that stops half way is dropped when its continuation is late; one that
goes on in time is continued. `WholePackages` and `AnswersWhole` are therefore
about a remote core that is `Orderly`, as the code relies on: no more packages
unhandled than buffers (`Window`), silence after giving one up (`GapAfterAbort`),
and no package longer than the index can count. Without either of the first two,
TLC finds packages put together from two.

| property | says |
|---|---|
| `BuffersOwned` | a buffer is used exactly when it is queued, once, or with the task, and is not being filled then |
| `WholePackages` | the task gets whole packages, as they were sent |
| `AnswersWhole` | the words of an answer arrive in order, although the send is asynchronous and keeps a pointer to a local variable |
| `BuffersReturn` | a used buffer is given back |

*Bounds.* Four packages: an empty one, one as long as the index (dropped), one
without an answer, one with; two buffers, one in use while the next is filled;
FIFOs of 2, so that an answer is sent in several interrupts.

*Proofs.* `MessageManager_proofs` proves `BuffersOwnedAlways`,
`WholePackagesAlways` and `AnswersWholeAlways` for any packages, number of
buffers, index, window and depth of the FIFOs; `ManagerParameters` states the
types of the constants, and `Services_proofs` carries the theorems over. The
inductive invariant `MmInv` has two layers. `BasicInv` holds whatever the remote
core sends: who has each buffer (`OwnInv`), that only the buffer being filled has
an index (`IndexInv`), and where the task is in an answer (`TaskInv`). For an
orderly core, `FlowInv` says what `WholePackages` does not: that the words in the
FIFO are a piece of one package that continues what has been collected, and ends
with the word sent last; and that a package which starts there will find a buffer
that is free. `Chain` of `Sent` says of the answers that what has been read, what
is in the FIFO, the one word of the asynchronous send and what the task has left
are, in this order, in order: `AnswersWhole` is about the first of these alone.

### Data transfer

`FillBlock`, `QueueBlock` and `AfterBlock` are `aw_data_transfer_send` (the
length of a block is chosen by the whole length, not by what remains, as in the
code), `Create`, `QueueExit` and `QueueExitFails` creation and destruction,
`Receive`, `Write`, `Release`, `Finish` the task `adt_task`. A destruction that
cannot queue its exit message in 20 ms frees the object under the task.

| property | says |
|---|---|
| `PlaysWhatWasSent` | of what was given in whole blocks, or in less than one, each unit is played once and in its turn, and all of them in the end; what another call plays does not disturb it |
| `SendFindsRoom` | a block whose buffer was free has room in the queue |
| `StreamCloses` | after the destruction the stream is closed |

*Bounds.* Calls of 1, 4, 3 and 2 units with blocks of 2: less than a block,
two blocks, a block and a half (whose last block the code sends too long), one
block; three buffers as in the code's `ADT_QUEUE_SIZE`.

*Proofs.* `Services_proofs` proves `SendFindsRoomAlways` for any lengths of the
calls, of a block and of the queue. `RoomInv` says that each buffer is in the
queue once, or with the task, or about to be queued, and that `Exit` is put into
the queue once, after all of them. A full queue would then hold as many different
buffers as there are, and not the one about to be queued: the pigeonhole
principle says that it does not. `PlaysWhatWasSentAlways` rests on it: a buffer
that is filled is neither queued nor being played. A `FlowInv` of its own gives each buffer
that is queued, or with the task, the position where its block starts. Each block
then holds what is given from its position on, the next one starts where it ends
(`Ahead`), behind the last one starts what the owner queues next, and what has
been played is everything up to the first of them (`UpTo`). The property alone
says nothing of what is still in the queue, and is therefore not inductive. That a
block of a call of whole blocks ends inside the call (`BlockSizes`) is where the
choice of its length by the whole length does no harm.

## 8. The kernel

### Queues

`KernelQueue` follows `xQueueGenericSend`, `xQueueReceive` and `xQueuePeek`
through their critical sections: between two of them interrupts send and
receive, and while the scheduler is suspended they count in `cTxLock` and
`cRxLock` instead of touching event lists.

| actions | code |
|---|---|
| `Call`; `Send`, `Receive`, `Peek`, `TryFails` | the first critical section: success, or no block time, or on |
| `SuspendAll`, `LockQueue`, `CheckForTimeOut`, `CheckQueue`, `PlaceOnEventList` | `vTaskSuspendAll`, `prvLockQueue`, `xTaskCheckForTimeOut`, `prvIsQueueFull`/`Empty`, `vTaskPlaceOnEventList` |
| `UnlockTx`, `UnlockRx`, `ResumeAll`, `LateReceive` | `prvUnlockQueue`, `xTaskResumeAll` and the yield, the last look of a late receive |
| `IsrSend`, `IsrReceive` | `xQueueGenericSendFromISR`, `xQueueReceiveFromISR` |
| `TimePasses`, `SwitchContext` | `xTaskIncrementTick`, the switch |
| `Put`, `First`, `Got` | `prvCopyDataToQueue`, `prvCopyDataFromQueue`: two pointers that move in opposite directions |

| property | says |
|---|---|
| `NoLostWakeup` | if there is an item and a task waits for one, some task will look again or an unlocking will wake one; the same of places |
| `ListsConsistent` | a waiting task is on one list and not ready; lists are not touched under a task that works on them |
| `ImplementsQueueService` | the ring is a bounded sequence |

*Bounds.* A sender of low and two receivers (one peeks) of equal high priority,
interrupts that send in front and receive, all block times finite (a wait
without end is one whose time does not run out), a queue of 2. Lock counts wrap
at `LockMax`; `IsrBurst` bounds the interrupts during one lock to 1. With a
burst beyond `LockMax` the count wraps, as the signed byte does, and
`NoLostWakeup` fails: that needs 128 interrupts in one locked section.
Queue sets, reset and deletion are not modelled.

*Proofs.* `KernelQueue_proofs` proves `KqTypeCorrect`, `ListsAlways`,
`NoLostWakeupEver` and `QueueImplementsService` for any finite set of tasks, any
priorities, operations and length. The hypothesis `Parameters` states the types
of the constants, `IsrBurst <= LockMax`, and that only a queue of length one is
overwritten, which the kernel asserts. `Platform_proofs` carries the first over. `SchedInv` says who has suspended the
scheduler and what is locked, `ListInv` where the call of a listed task is.
`NoLostWakeup` is not inductive, because it says only that somebody will look:
that one may leave with an item while another stays. `WakeInv` counts: for every
item there is a keen receiver that does not wait, or a count in the lock that
will wake one. `RingOK` ties the two pointers to the number of items.

### Mutexes

`KernelMutex` is about priorities, which `KernelQueue` leaves out: taking
(`Take`, `TryTakes`, `TryFails`, `Block`, `BlockRetries`, `BlockLate`,
`LateTake`), inheriting (in `Block`), giving (`Give`, `GiveOne`, `TakeAgain` for
the recursive pair), the way back after a time-out
(`DisinheritAfterTimeout`), the tick, and tasks that rest. Interrupts do not use
mutexes and ticks wait while the scheduler is suspended, so that a section from
`vTaskSuspendAll` to `xTaskResumeAll` is one step.

| property | says |
|---|---|
| `NoInversion` | the holder of a mutex runs at least at the base priority of every task that waits for it |
| `BaseWithoutMutex` | a task without a mutex has its own priority |
| `RunsHighest` | the running task is one of the highest priority |
| `GiveSwitches` | a give after which another task is to run switches to it (violated) |

The kernel yields in a give if it wakes a task of higher priority, or if it
wakes none and the priority of the giver has dropped. If it drops and the task
woken is not of a higher priority, nothing yields, although a third task may now
be the one to run. `fallen` records that this has happened; `NoInversion` and
`RunsHighest` are about the time before it, and `GiveSwitches` (run
`mutex_give`) shows that it does happen: see section 10.

`NestedWaits` is FALSE: a task that has a mutex takes others without waiting.
With nested waits `RunsHighest` fails in the model, because the kernel does not
re-sort the list of waiting tasks when a waiting task inherits, and yields for a
task that is woken without looking at a priority that has dropped at the same
time.

*Bounds.* Three tasks of three priorities and the idle task, which is always
ready and uses no mutex: a holder that inherits in two steps, one that is
overtaken while it waits, and a task with both mutexes. One of the mutexes is
recursive, and taken twice (`MaxDepth`).

*Proofs.* `KernelMutex_proofs` proves `KmTypeCorrect`, `BaseWithoutMutexAlways`,
`NoInversionAlways` and `RunsHighestAlways` for any tasks of any priorities, any
finite number of mutexes and any depth, under `Simple`: the types of the
constants, an idle task of lowest priority, and no nested waits.
`Services_proofs` carries them over to `ServicesSpec`, where the instance is
checked. None of the
three is inductive. `CountInv` says that `held` is the number of mutexes a task
has (so that `uxMutexesHeld` = 1 in the give of the last one means that the
base priority is due), and that no priority is below the base. `CallInv` says
that a task which waits, or is late, has no mutex, so that its priority is its
own. `WaitInv` says who is on a list, once each, the highest first: a time-out
lowers the holder to the first of them and thereby to the highest. `HeirInv` is
what `NoInversion` lacks: between the give and the moment the woken task takes
the mutex nobody has it, and tasks may wait. Then there is an heir, ready, about
to take it, and of no lower priority than those who wait. When another task
takes the mutex first, it is the running one, and by `RunsHighest` of no lower
priority than the heir: so the two properties are proved together.

## 9. Sound, DMA and SPI

### A stream of the sound core

The functions of `snd_pcm.c` work on the runtime under the stream lock, that is
without interrupts; a locked section is one step, and operators on the record
`rt` are what it does. The copy is outside the lock: `Transfer` chooses the
frames, `Commit` is the copy and the next locked section.

| actions and operators | code |
|---|---|
| `Avail`, `HwPtrUpdated`, `StateUpdated`, `Stopped`, `Started` | `snd_pcm_playback_avail`, `snd_pcm_update_hw_ptr0`, `snd_pcm_update_state`, `snd_pcm_stop`, `snd_pcm_do_start` |
| `Transfer`, `Commit`, `TransferWakes` | `snd_pcm_lib_write`, `snd_pcm_lib_read`, `wait_for_avail` |
| `Announce`, `TakeToken`, `TimeOut`, `StopWaiting` | `snd_schd_timeout` |
| `DrainBegins`, `DrainWakes`, `Prepare`, `Start`, `HwSync`, `Rewind`, `Pause`, `Release`, `Drop` | `ksnd_pcm_drain` ... `ksnd_pcm_drop` |
| `DmaStep`, `PeriodElapsed` | the DMA (external) and its interrupt |

| property | says |
|---|---|
| `NothingOverwritten` | a frame written and not yet played is in its place |
| `HwPtrTracks` | `hw_ptr` is less than two periods behind the DMA |
| `UnderrunStops` | the DMA does not go on for two periods with what has been played |
| `DmaFollowsState` | the DMA is on only for a stream that runs or drains |
| `DrainPlaysAll` | a drain nobody cuts short ends when all is played |
| `CallsReturn` | a write, read or drain ends |
| `PauseHoldsDma` | what is paused is a running stream (violated) |

*Bounds and limits.* A buffer of 4, a period of 2, a boundary of 12: the least
with which both wraps and a partial period occur; writes of 3 cross the end of
the buffer. The second task acts once. An interrupt is served before the next is
raised, the start of the DMA does not fail, a time-out comes only when the DMA
is not running (it is at least ten seconds), `prepare` is called for a stream
that is not running, `silence_size` is 0. A wake-up between the unlocking and
the mark that somebody waits is not posted (`Announce`); `CallsReturn` then rests
on the next period or the time-out.

*Proofs.* `Platform_proofs` proves `NothingOverwrittenEver`, `HwPtrTracksAlways`,
`UnderrunStopsAlways`, `DmaFollowsStateAlways` and `DrainPlaysAllAlways` for both
directions, any writes, and any buffer of whole periods (at least two) with a
boundary of whole buffers (at least three), which `PcmParameters` states. All
follow from `PcmInv`. Its core is that the DMA has left the period of `hw_ptr`
only if an interrupt is pending, and then for the next one (`RtInv`, `Near`,
`Same`): only therefore can `snd_pcm_update_hw_ptr0`, which sees a position
within the buffer, tell how far the DMA has come over the wrap of the buffer and
of the boundary. `RingInv` says of every frame between the two pointers where it
is. `AppInv` says of a copy under way, which is outside the lock, that its frames
begin at `appl_ptr` and that the room found before has not shrunk, whatever the
second task and the interrupt did since. Little of this holds of a stream that
is not `Alive` (its DMA is off and it is not prepared), where the code does not
keep the pointers meaningful either.

### Channels, SPI transfers and a stream

Every function of `hal_dma.c` works under `dma_lock` with interrupts masked, so
that each is one step; `HalDma` defines these steps as operators (`Request`,
`PrepDevice`, `CallbackInstall`, `Start`, `Stop`, `ChanFree`, `PreparedCyclic`,
`DmaIrqHandle`), and `HalSpi` composes them with the driver that calls them:
`Begin` ... `FreeDma` are `hal_spi_xfer`, `SpiIrqHandler` and `DmaInterrupt` the
handlers, `StreamOpen`, `StreamStart`, `StreamStop`, `StreamClose` the sound
side, `DmaWorks`, `BusOver`, `LateOver`, `BusError` the hardware. A pending enabled
interrupt preempts the tasks. One task uses each port. The kinds of transfer are
`tx`, `rx` and `duplex` by DMA (the last: the processor writes, the DMA
receives), `write` and `read` by the processor (the last in one direction or
both).

The polling of the processor is modelled by what it can come to. What a `write`
writes fits in the FIFO, so that `spi_cpu_write` has written the last byte when
it gives up. `spi_cpu_read` (`CpuRead`) reads everything, or gives up before or
after the transfer is over; `spi_transfer` looks at neither result. A call that
returns leaves the controller as it is (`Leave`): a transfer that is not over
stays on the bus (`late`), enabled interrupts stay enabled, and the next call
resets only the FIFOs and the status. Such a transfer may end at any time, and
sets the same status bit as that of the next call (`LateOver`).

| property | says |
|---|---|
| `ChannelsOwned` | a channel has one user, calls back nobody else, is at rest when free, and has the descriptor its handler reads |
| `DoneWhenReturned` | a call that returns OK has sent everything, or the DMA has stored, or the bus brought, everything: if it found no semaphore and no transfer of a former call (`clean`), and does not return by the time-out that wraps round |
| `WaitsForDone` | a call that returns OK has sent, or received and read, everything (violated) |

`DoneWhenReturned` says what can be relied on: after any failure it holds again
of each call that finds nothing left. What it leaves out is what `WaitsForDone`
finds, for each kind of transfer by itself: a semaphore that was posted by the
time-out, or by a completion that came too late, makes the next `hal_spi_xfer`
return OK before its transfer is done; a transfer left on the bus ends, and is
taken for that of the next call; a receive by the processor returns OK with bytes
that were not read; the wait for a transfer by the processor returns OK at its
time-out, because the unsigned `timeout` wraps below zero. The run `spi_done`
has the kind `read`, with which it is the shortest. A call that fails to get a
descriptor keeps its channel. `MaxFailures` bounds the time-outs, errors and
calls that fail. Two channels for three users make channels change hands and run
out.

*Proofs.* `Platform_proofs` proves `ChannelsOwnedAlways` and
`DoneWhenReturnedAlways` for any number of channels and ports, all five kinds of
transfer, and any number of failures. `OwnInv` relates each channel to the call or
stream that has it, at every point of a call between requesting it and freeing
it: no two have the same one (`OneUser`), only the stream's is cyclic, and only a
port that receives is called back (`ChanInv`). `DoneWhenReturned` needs more:
`DoneInv` says, for each kind of transfer and of a call that found nothing left,
what the two semaphores, the result, the pending interrupts and the bus can be
together, so that a semaphore is given once and not before the transfer is done;
and `StatInv` that a channel which runs will raise an interrupt that is enabled.
Nothing is assumed of former calls: a call begins with what they left, and either
that is nothing, and the invariant begins anew, or it says nothing of this call.

## 10. Findings

| run | where | what |
|---|---|---|
| `msgbox_isr_give` | `msgbox_amp.c:56` | the handler gives the mutex of the task it preempted, which `queue.c:1129` asserts does not happen |
| `rpaf_event_bits` | `component.c:699` | the 25th component waits for a bit that belongs to the kernel, which `event_groups.c:321` asserts does not happen, and may wait for ever |
| `rpaf_senders` | `common.c:540` | two tasks send on one channel without the exclusion `component.h:113` asks for |
| `pm_lost_wakeup` | `pm_msg.c:147` | a word queued between the echo of SUSPEND and `waiti` does not wake the processor, which `pm_msg.c:203` says waits for a message |
| `mutex_give` | `queue.c:824` | a give that drops an inherited priority and wakes a task of no higher priority does not yield, although a third task is ready that should run; `tasks.c:4084` asks for a switch whether a task is waiting or not |
| `pcm_pause` | `snd_pcm.c:748` | an underrun found while pausing is overwritten by PAUSED, although `snd_pcm.c:745` refuses every state but RUNNING |
| `spi_done` | `hal_spi.c:1346` | a transfer by the processor returns OK without being over, or without its bytes having been read: nobody looks at the result of `spi_cpu_read`, and the time-out wraps round; `hal_spi.c:1502` says it waits for completion |

## 11. What is proved, what is only checked, what is not modelled

*Proved* for all values of the constants: every invariant and every action
property of the passing runs, and all four refinements, in the theorems of
sections 4 to 9. Each follows from an inductive invariant, which
the module of the proofs defines. A hypothesis of a theorem is written in its
ASSUME:

| theorems about | hypothesis |
|---|---|
| the message box driver | `SingleMutator`: section 4 |
| the audio server | `Long` (but for whole packages), and `NoFailure` for the refinement: section 5 |
| the power management client | `Window <= QueueLength` for the refinement |
| the message manager, the sample, streams and transfers | `ManagerParameters`, `TransferParameters`, `PcmParameters`, `SpiParameters`: the types of the constants and how the sizes relate |
| mutexes | `MutexParameters`, and no nested waits: section 8 |
| queues | `Parameters`: section 8 |

TLC evaluates the parameters of `Services` and `Platform` for the instances it
checks. The theorems of `Services_proofs` and `Platform_proofs` are about the two
compositions: a step of one part leaves the invariants of the others alone, and an
invariant that is proved of a part alone (`MessageManager_proofs`,
`KernelMutex_proofs`) is proved of the composition by showing that each of its
steps is one of the part, or a stutter. The client and the queue, which the
compositions extend, keep their own theorems, about `Spec`; only their types are
stated again.

*Model-checked only.* Liveness (`HandlersReturn`, `WordsArrive`, `Answered`,
`EveryWordAnswered`, `BuffersReturn`, `StreamCloses`, `CallsReturn`): the prover
handles neither fairness nor ENABLED. The violations of section 10 are
counterexamples of TLC. No module with a theorem has a RECURSIVE operator.

*Not modelled.*
* Memory ordering and cache maintenance between the cores: each access takes
  effect at once and in order.
* The initialisation of the audio server. Whether a word can arrive before the
  queue it is meant for exists (`common.c:631`, the endpoint is enabled before
  `ServerSendQueue` is created) depends on the other core.
* In the kernel (`dsp0` builds it with `configUSE_QUEUE_SETS` 1; the queues
  modelled are in no set): notifications, event groups beyond one bit, timers, stream
  buffers, queue sets, reset and deletion of queues, the heap, the Xtensa port.
* `hal_msgbox_channel_send` for packages longer than two words; the chain of
  algorithms behind a component.
* The interrupt controller, clocks, GPIO, timers, RTC, watchdog, PWM, ADCs,
  codecs: register access and tables, without state that two actors share.
  TWI, UART and CIR have transfer state machines that could be modelled next.
* Console, CLI commands, test benches, vendor runtime and binary libraries.

The modules cover the parts of the firmware that carry its own concurrency; most
of the rest of the repository's lines are register access, tables, the vendor's
board support and third-party code.

Every property of a passing run has a mutant: a definition in the same module,
marked `Mutant:`, that changes one action the way a plausible mistake would, and
with which TLC finds the property violated.
