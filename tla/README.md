# A TLA+ model of the neural-network accelerator simulator

The program under `src/` simulates, in SystemC, a small accelerator that runs a
feed-forward network: a handful of clocked modules, wired together in
`src/src/main.cpp`, read a network and a picture from two files, compute the
layers on an array of processing units, and print the activations of the last
layer. These modules model the whole simulator, edge by edge of its clock, and,
below it, the part of the vendored SystemC kernel that runs it: the scheduler,
events, signals, the clock and the queue of timed notifications. TLC checks them
on small instances; TLAPS proves, for every number of units, queue capacity and
network that fits the memory, that the accelerator computes and prints the
network it is given, along with the properties of dispatch, handshakes and copy
this rests on; that the dispatch hands out and computes every number once, in any
environment; and that the kernel implements the scheduling semantics and its heap
a priority queue.

## 1. The system

### Components

| Component (`src/src`) | State it keeps | Operations (SystemC processes) | What makes it correct |
|---|---|---|---|
| `IO` (`io_module.cpp`) | `transmit`, position in the thread | thread `write_data_to_system`: loads the files, sends them beat by beat, then the start command; method `read_data_from_system`: prints | data complete before the start command; off the bus before results come |
| `CONTROLLER` (`controller.cpp`) | `state`, `layers`, `prev_layer`, loop counter, weight base | methods `state_read_data`, `state_start_conv`; thread `process` | walks all layers in order; clears and copies only when all units are at rest |
| `LAYERS_STORAGE` | list of sizes, cursor | methods `next_element`, `add_to_queue`, `issue_element` | shows the size of the current layer when it is used |
| `WEIGHT_STORAGE` | list of weights | methods `add_to_memory`, `issue_element` | constant while units compute |
| `PREVIOUS_LAYER` | input words of the layer, output cursor | methods `add_to_mem`, `clear`, `issue_element_PC`, `issue_element_IO` | constant while units compute; replaced exactly by the new layer; ends the simulation after the last word |
| `PREVIOUS_LAYER_SIZE` | latched size | methods `save_new_element`, `pass_new_element` | constant while units compute |
| `PREVIOUS_LAYER_CONTROLLER` | loop counter, position in the thread | methods `clear`, `write_out_to_IO`; thread `copy_memory` | copies every word once, in order; its end pulse is heard |
| `GENERATOR` | `state`, `counter`, position in the thread | thread `generate` | hands out each number once, to a queue with room, the shortest one |
| `PROCESSOR` × `COUNT_PC_UNIT` | queue, `is_working`, the neuron being computed | method `add_to_queue`; thread `process` | each queued neuron is computed once from the right inputs and weights |
| `NEXT_LAYER` | result words, read cursor | methods `add_to_memory`, `issue_element` | words in bounds, cursor rewound before each copy |
| `END_REDUCER` | none | combinational method `reduce` | true only if the layer is finished |
| top level (`main.cpp`) | the signals | bindings, clock, command line, trace, statistics | |

and, in the vendored `src/systemc-2.3.3/src/sysc`:

| Component | State it keeps | Operations | What makes it correct |
|---|---|---|---|
| kernel, scheduling (`kernel/sc_simcontext.cpp`, `sc_runnable_int.h`, processes) | two queues per kind of process, the running process, the phase | `crunch` (evaluate, update, notify), `simulate` (advance of time), `wait`, `sc_stop` | a queued process runs, once; all that is ready runs before values change; nothing is due when time advances |
| kernel, events (`kernel/sc_event.cpp`) | per event: kind of notification, index in the list of delta notifications, entry in the timed queue | `cancel`, `notify()`, `notify(t)`, `trigger` | the three records agree; the earliest notification counts and fires once |
| kernel, timed queue (`utils/sc_pq.cpp`) | a heap in a growing array | `insert`, `extract_top` | a priority queue; stays in its allocation |
| kernel, signals (`communication/sc_signal.*`, `sc_prim_channel.*`) | current and next value, writer, list of updates | `write`, `request_update`, `update` | no update lost or doubled; two writers are an error |
| kernel, clock (`communication/sc_clock.*`) | two events | `posedge_action`, `negedge_action` | keeps going |
| the rest of SystemC | | number types, other channels, tracing, TLM | not executed by the program, or without effect on it |

### Interaction

Modules share no memory. They communicate by signals that take new values only
after every process has run (evaluate/update), so what a process reads on an
edge is what the others wrote on the previous one. Everything a module learns
is one edge old, and a handshake of two modules costs at least two edges.

A run has four phases. *Loading*: IO puts `+inf`, the number of layers, the
sizes, the picture and the weights on its bus, and the stores pick up what is
addressed to them. *Start*: IO sends `-inf`, leaves the bus, and the controller
enters its loop. *Each layer*: latch the input size, advance the cursor of
sizes, pulse the generator, which distributes the neuron numbers; units compute
and write their results to NEXT_LAYER; END_REDUCER reports the end; the
controller clears PREVIOUS_LAYER and has NEXT_LAYER copied into it. *Output*:
PREVIOUS_LAYER drives the IO bus, one word per edge, and then stops the
simulation.

### What is hard

* **Stale state.** Queue lengths, emptiness, `cycle_ended`, the size of the
  current layer are all an edge old when they are used (`generator.cpp:56`,
  `controller.cpp:117`). A unit drops a number that finds its queue full
  without telling anyone (`processor.cpp:85`).
* **Ordering of processes.** Processes of one module share C++ members and are
  triggered by the same edge. The SystemC standard leaves their order open. In
  the vendored kernel methods run before threads, and units rely on it.
* **Handshakes** by pulses one edge long, which are lost if the receiver is not
  at the right `wait()`.
* **Termination.** The clock never stops by itself: a lost pulse is an endless
  simulation.
* **Bookkeeping of the kernel.** Indices into a list that is compacted on
  cancellation (`sc_simcontext.cpp:1390`), entries of the timed queue that outlive
  their event (`sc_event.cpp:79`), lists linked through one pointer per element
  with the check for double insertion commented out (`sc_runnable_int.h:195`).
* **Boundaries.** A word indexed past the end of a vector, layers of size zero,
  short files, full queues, the last word of a copy.

`PROJECT.json` lists every hazard at its line, with the properties aimed at it.

## 2. The model

### How a clock edge is modelled

One step of `Accelerator` is one rising edge of `clk`. Each module's action
describes what all of its processes do on that edge, reading unprimed signals
and assigning primed ones; the edge is their conjunction. That is the
evaluate/update semantics. A thread (`SC_CTHREAD`) is a program counter that
names the `wait()` at which it is suspended, with one action per stretch of code
between two waits. A method is one action that always runs.

* *Methods before threads.* `sc_simcontext::crunch` empties the method queue of
  an evaluation phase before the thread queue, so a thread sees the members its
  module's methods left: `PROCESSOR::process` takes a number in the edge on which
  `add_to_queue` queued it; the controller's thread sees the state its methods
  have just set. The standard does not promise this, the kernel in the
  repository does it, and the model follows the kernel.
* *Methods among themselves.* Their order is left open: an action chooses
  nondeterministically whether a method sees a shared member before or after
  the update of its sibling (`LayersStorage!issue_element`,
  `NextLayer!issue_element`, `PreviousLayer!Views`). The order does show on the
  lines: a method that issues a word on every edge may show it before or after
  a sibling changed it, so the line may be an edge behind its store.
  `ChangesExclusive` says that the members themselves never depend on the
  order, `ReadsSettled` that nobody reads a line while it is behind, and the
  refinement that nothing printed depends on it.
* *END_REDUCER* is combinational. The delta cycles after an edge settle before
  the next, so its output is a function of the new values of its inputs.
* *The IO bus* has two drivers, IO and PREVIOUS_LAYER. A line nobody drives
  keeps its value; if both drive one the kernel reports an error and the model
  has no step (a deadlock, and deadlocks are checked in every run).
* *`sc_stop`* lets the edge complete (the kernel's default), then nothing more happens.
  *`sc_abort`* on a file that cannot be opened ends the program on its first edge.

### Data

A `float` is represented by the term that computed it (`FloatTerms`): pixel k,
weight k, or an operation on such terms, flattened to a sequence of integers so
that it can be compared and typed. Two values are equal only if the same
operations were applied to the same inputs in the same order: not even the
commutativity of addition is assumed. A result in the wrong place, made from a
wrong weight or added up in another order is a different value. An uninitialized
word of NEXT_LAYER is a value of its own (`Uninit`), so a copy of it would show.

### Modules

| Module | Models |
|---|---|
| `Config` | `inc/config.h`: the constants `COUNT_PC_UNIT`, `QUEUE_SIZE`, `MEM_SIZE` |
| `FloatTerms` | float values and the arithmetic of a unit |
| `NetworkFiles` | `loadData`: what is read from the two files |
| `IoModule`, `Controller`, `LayersStorage`, `WeightStorage`, `PreviousLayer`, `PreviousLayerController`, `PreviousLayerSize`, `Generator`, `Processors`, `NextLayer`, `EndReducer` | the module of that name; variables are its outputs and members, inputs are variables as well; operators keep the names of the processes |
| `Accelerator` | `main.cpp`: signals are variables, ports are bound with `INSTANCE ... WITH`; `Edge`, `Abort`, `Spec` |
| `FeedForward` | abstract specification: what the accelerator promises, without clock, bus, units or queues |
| `AcceleratorProperties` | the properties and the refinement mapping |
| `MCAccelerator` | the sets of input files for TLC |
| `AcceleratorProofs` | theorems about types, dispatch, the phases of a run, what is constant in a cycle, the handshakes, and the balance of the queues |
| `MemoryProofs` | theorems about loading (the stores hold the files when the start command is obeyed), the copy of a layer, and the bounds of NEXT_LAYER |
| `NetworkProofs` | theorems about values: the layer selected, what each unit has added up, the account of the numbers underway, weight addresses, the statistics |
| `Dispatch` | `GENERATOR`, units and `END_REDUCER` alone, in an open environment: units of any speed, layers of any size started at any time the controller's handshake allows |
| `TaskPool` | abstract specification of the dispatch: every number computed once, the end after the last |
| `DispatchProofs` | theorems that `Dispatch` keeps account of its numbers and implements `TaskPool` |
| `RefinementProofs` | theorems that the accelerator's dispatch is a behaviour of `Dispatch`, and the accelerator one of `FeedForward` |
| `SimContext` | the kernel: `sc_simcontext`, `sc_runnable`, `sc_event`, `sc_signal`, `sc_prim_channel`; one action per step of `crunch` and `simulate`, and as lower-case operators what a process can call |
| `OpenKernel` | the kernel with processes that call whatever they like; its properties |
| `Scheduler` | abstract specification of the kernel: the scheduling semantics, without queues, lists and indices |
| `MCKernel` | processes, events and signals for TLC |
| `KernelProofs` | theorems about the records of notifications, the queues and the list of updates, and that the kernel implements `Scheduler` |
| `KernelDispatch` | the processes of `Dispatch`, the clock and the kernel, composed: one process at a time, one write at a time |
| `EventQueue`, `PriorityQueue`, `EventQueueProofs` | the heap of timed notifications, what it promises, and the theorems that it stays in its allocation and keeps the promise |
| `RecursionProofs` | lemmas for the other proofs: induction, functions defined by recursion, sums over finite sets |

The six `bool` outputs of the controller are kept as the set of those that are
up (`ctrl_high`); the names of `main.cpp` are defined from it. Operators
commented *variant with a bug* are used by no specification: each is a
plausible mistake in the definition that follows it, and substituting it breaks
the property it was written for (`mutants` in `PROJECT.json`), which shows that
the property can see such a mistake.

Besides the properties, the model was compared with the program: for builds with
2×1, 2×2, 3×2 and 7×5 units × queue words, on networks of zero to four layers,
and with short, long and missing data, the signals in the VCD trace of the
simulator were replayed against the model edge by edge, and every trace is a
behaviour of it.

### The kernel

`SimContext` gives the kernel's own steps (`KernelStep`) and the calls of the
process that is running (`curr`). The four lists of runnable processes are
sequences, pushed and popped as the linked lists are, and toggled between push
and pop as `toggle_methods` does; the update list grows at its head;
`m_delta_events` is the vector it is in C++, with the swap of
`remove_delta_event`, and triggered from the last element to the first. The
timed queue is a set of entries, of which those whose event is cancelled stay
until their time comes; the order of entries of one time is left open, and that
the heap delivers the times in order is the subject of `EventQueue`. Times are
counted from the current one: advancing subtracts the step from all. So
simulated time is not bounded, and the state space is finite although a clock
runs for ever.

`OpenKernel` adds the most general program: a running process may notify (now,
in a delta cycle, after any delay up to `MAX_DELAY`) or cancel any event, write
any signal, call `sc_stop`, or wait, any number of times in any order. The events
a signal notifies itself are out of its reach, as they are for a program: they
are private, and `notify_next_delta` relies on that.

`KernelDispatch` is the composition that ties the two levels. `generate` is the
same module `Generator` that the accelerator is built of, with its ports bound
to values that the thread writes one call at a time; `add_to_queue`, `process`
and `reduce` are the processes of one unit and of the reducer; `posedge_action`
and `negedge_action` are the clock's; the controller is represented by a thread
that keeps its handshake. Its property `EdgeByEdge` says that what happens
between two advances of time, some sixty steps, amounts to one step of
`Dispatch`; it is the justification of what the other modules do in one step.

### The abstract specifications

`FeedForward` computes a whole layer in a step (`Compute`), prints the words of
the last one in order, each once (`PrintWord`), and stops; with files that cannot
be opened it aborts. `AcceleratorProperties` maps to it: the number of the
current layer is `ctrl_i + 1`, one more while the result is being copied; its
activations are the words of PREVIOUS_LAYER, except before the start (the
picture) and from the end of a cycle to the end of its copy (NEXT_LAYER).
`ImplementsFeedForward` is the whole of `FeedForward!Spec`, its fairness
included, so it says both that every printed value is right and that all are printed.

`TaskPool` starts a layer of some size, shows results of numbers not yet shown,
any set at a time, and reports the end when none is left. `Dispatch` maps the
numbers to be handed out, on the bus, queued and being computed to its `todo`.
In between, `ImplementsDispatch` maps the accelerator to `Dispatch`: a unit is
busy at every wait() but the idle one and the one that shows the result, and the
controller's thread is at rest outside the handshake. So a number is lost,
doubled or overtaken by the end neither in this accelerator nor in one whose
units are slower or faster or whose controller starts at other times.

`Scheduler` has for each event the time left until its notification, or none; a
set of ready processes; and for each signal its value, the one it takes next and
who wrote it. `ImplementsScheduler` maps the kernel to it: an event with a delta
notification is due now, a process is ready if it is in any of the four lists.
`PriorityQueue` is a bag of times.

## 3. What TLC checks

| Run | Constants (units, queue, memory) and files | Properties | Shows |
|---|---|---|---|
| `inference` | 2, 2, 3; all 120 networks of 1–4 layers of 1–3 neurons | `TypeOK`, `ImplementsFeedForward` | the right network is computed and printed, always |
| `odd_files` | 2, 2, 3; missing, empty, short, overlong files, layers of size 0, one layer | `EveryNeuronAccounted`, `ImplementsFeedForward` | defaults of the stores are used as coded and the run still ends |
| `saturation` | 2, 1, 9; layers of up to 9 neurons | `NoNeuronLost`, `EveryNeuronAccounted`, `NoPrematureEnd`, `EveryNeuronCounted`, `Terminates`, `ImplementsDispatch` | the generator is held back by full queues and nothing is lost, done twice or reported early; the statistics of the units add up to the network; the dispatch stays within the open model |
| `balance` | 3, 3, 12; layers of 12 neurons with 0 to 9 inputs | `Balanced`, `InputsStable` | queues stay balanced to within two; nothing changes under a working unit |
| `handshakes` | as `inference` | `PulsesHeard`, `CopyAligned`, `ChangesExclusive`, `ReadsSettled`, `BusOneDriver`, `StartFindsAllLoaded`, `MemoryInBounds`, `WeightAddressInRange`, `ResultsNotObeyed` | the protocol between the modules; units read only weights that were sent; results are not taken for commands |
| `dispatch` | 3 units, queues of 2, layers of 0, 1, 2, 4 and 11 numbers | `ImplementsTaskPool` | the dispatch is right in any environment that keeps the handshake, whatever the speed of the units |
| `kernel_dispatch` | 2 units, queues of 2, layers of 0, 2 and 8 numbers, in the kernel | `EdgeByEdge`, `ClockRuns` | between two advances of time the processes do one edge of the model; the clock does not stop |
| `kernel_events` | 2 methods, 2 threads, 3 events, delays up to 2 | `NotificationsAgree`, `ImplementsScheduler`, `QueuedRuns` | the records of notifications; the scheduling semantics; no starvation |
| `kernel_signals` | 2 methods, 1 thread, a signal of one writer with edge events, one of many writers, an event | `ListsSound`, `ImplementsScheduler` | updates; writers; the linked lists |
| `event_queue` | 4 times, up to 8 entries, constructed with size 1 | `InAllocation`, `ImplementsPriorityQueue` | the heap, over several growths |

Deadlock is checked in all of them; a simulation that has ended stutters
(`Over`).

Bounds. The behaviour of the modules depends on sizes only through a few
comparisons: a queue is full or not, a number is the last or not, a word is the
last or not, a layer is the last or not, a result is ready while others are
queued or not. Two units and queues of two cover them with three neurons in a
layer; four layers give a first, a middle and a last pass of the controller's
loop, so that the state one layer leaves behind (cursors, flags, weight base) is
met by the next. `saturation` uses queues of one so that they are full most of
the time; with one-input layers results come in as fast as numbers go out, with
three inputs they do not. `balance` needs layers long enough to fill three
queues of three. No counter is cut off: the state space of a network is finite.
The nondeterminism is the choice of the files and the orders of methods; in a
correct design the latter has almost no effect, which is why the state spaces
are small and deep (150 to 270 edges).

The bounds of the kernel's runs: `MAX_DELAY` bounds the delay of one
notification, not time; delays of 0, 1 and 2 give notifications that are earlier
than, as early as and later than one that is pending. Three events make the list
of delta notifications long enough for the element moved by a cancellation to be
another than the cancelled one, with a third between them. `kernel_events` has
no signals and `kernel_signals` only one event of the program's, since the two
meet only in the list of delta notifications. Values are boolean: a signal
compares values, nothing more. The heap holds up to eight entries, so that the
last parent has one child or two, on up to four levels. In `dispatch` eleven numbers
are more than three units hold (queues of two and one in hand each), so all
queues fill; sizes 0, 1 and 2 leave units without work. In `kernel_dispatch` the
same holds for eight numbers and two units.

Fairness. `WF_vars(Edge \/ Abort)`: the clock keeps ticking, which `sc_start()`
without a duration guarantees until `sc_stop()`. Nothing is assumed of the
modules: within an edge each runs because the kernel runs every sensitive process.
Without it `inference` and `saturation` fail, since the clock could stop.
`Dispatch` adds `SF(Finishes(p))` for each unit: no unit computes one neuron for
ever. The loop of `PROCESSOR::process` has `prevmem_size_i` turns of two edges,
so it ends; the open model does not count them, and as the step is taken
together with those of all others on an edge, strong fairness is what says so.
`OpenKernel` assumes WF of `KernelStep`, the loops of `crunch` and `simulate`,
which nothing but a process can hold up, and of `Wait`: no process runs for ever
without waiting (each `while(true)` of the program has a wait() on every path).
`KernelDispatch` assumes WF of its next-state relation, for the same reasons.

`Balanced` says two, not one: with queues of two or more a unit that empties its
queue in the same edge in which another receives a number can be two behind.

## 4. What is proved

For every `COUNT_PC_UNIT`, `QUEUE_SIZE`, `MEM_SIZE` and set of files that satisfy
the named assumptions: `ConfigAssumption` (the three are positive) and
`InputsAssumption` (files hold numbers, no infinities, since the stream
extraction of `loadData` reads none; the number of layers is not negative). The
open dispatch adds `SizesAssumption` (sizes are integers, of any sign: the port is
an `int`), the heap `QueueAssumption` (times are not negative). The kernel has
`KernelAssumption`: among others that processes are finitely many, that a process
is a method or a thread, and that it is registered with an event once, as
`sc_process.cpp:61` sees to. TLC evaluates all of them on the instances of the runs.

`RecursionProofs` holds what they share: `Induction`, for sets of numbers, from
well-foundedness; `Recursion`, that a first value and a step define a function on
the naturals, and `WalkExists`, the same along a walk in a finite set; and the
sum of a function over a finite set (`Sums`), with the lemmas that it adds up,
and grows by one when one summand does. The models define such functions by
recursion or a fold; that these have a value at all must be proved for each.

`AcceleratorProofs`:

* `TypeCorrect`: `Spec => []TypeOK`. One lemma per module about what its edge
  does to its own variables; `BeatsType` about the bus program of IO. The types
  say a little more than the declarations of the code: what the stores of
  activations hold is a `Number`, a float that is not one of the two infinities
  IO uses as commands.
* `DispatchInvariant`: `Spec => []DispatchInv`, the inductive invariant. Neither
  `NoNeuronLost` nor `NoPrematureEnd` is inductive: the generator decides on
  reported lengths, so it takes that a report is never below the length the queue
  has on the same edge (`Len(pu_queue[p]) <= gen_size[p]`), and that no number is
  on the bus when it chooses (`gen_write => gen_pc = "written"`), for the reports
  not to be overtaken. The end of a cycle takes that `is_working` mirrors the
  thread's position, that a unit that says it is empty is (the method that says so
  runs before the thread could take a number, hence with an empty queue), and
  that the generator's end line is up only when its thread rests, with its bus
  released.
* `NeuronsNotLost`: `Spec => []NoNeuronLost`, and `EndsNotPremature`:
  `Spec => []NoPrematureEnd`, from it.
* `PhaseInvariant`: `Spec => []PhaseInv`. `PhaseInv` ties every module to the
  position of the controller's thread, in six parts that need one another:
  each command line is up at one `wait()` (`LineInv`); generator and units rest
  outside a cycle (`RestInv`, from `cycle_ended` being the AND of all reports, and
  from `QuietStays`: rest lasts until the next start pulse); the copy runs only
  while the controller awaits its end (`CloneInv`); the sizes settle before they
  are used (`SizeInv`); the bus carries the last beat IO sent, and after the last one
  nothing but results (`BusInv`); the controller starts only after IO has sent
  everything, and, once it shows the result, never again (`StartInv`). The last
  rests on `BeatsShape`: the start command is the last beat of
  `write_data_to_system` and no other beat looks like it.
* From it: `InputsDoNotChange` (`InputsStable`), `PulsesAreHeard`
  (`PulsesHeard`), `OneDriver` (`BusOneDriver`), `ChangesAreExclusive`
  (`ChangesExclusive`), `ReadsAreSettled` (`ReadsSettled`) and `ResultsAreIgnored`
  (`ResultsNotObeyed`). For `ReadsAreSettled`, `SizeInv` says that the size of the
  layer is unsettled only on the edge after the next layer is selected, and
  `WordsInv` that the words at a unit's ports were issued on an edge of a cycle,
  on which no store changes. `ResultsAreIgnored`
  takes that what PREVIOUS_LAYER drives onto the bus is a `Number` and that the
  controller, once it shows the result, is back at its first wait().
* `QueuesBalanced`: `Spec => []Balanced`. The generator compares reports that are
  an edge old, and may choose a queue that is no longer the shortest; the question is by
  how much. `BalanceInvariant` has the two facts that bound it. A report is the length of
  the queue plus what the unit took from it on the edge (`UnitBalance`), so it is one
  too high at most. And all units take the same time for a neuron of a layer
  (`Turn`), so one that is ahead of another by two, the number on the bus
  included, has been at work for at least as long and takes its next number no
  later (`PairBalance`): the difference cannot grow before it shrinks.

`MemoryProofs`, on top of `PhaseInv`:

* `LoadInvariant`: `Spec => []LoadInv`: after each beat of
  `write_data_to_system` every store holds the prefix, of what is addressed to
  it, that the beats seen so far have brought; so after the last it holds all.
  From it `StartFindsLoaded`: `Spec => []StartFindsAllLoaded`.
* `CopyInvariant`: `Spec => []CopyInv`. The three stages of the copy are tied to
  its counter (`PipelineInv`): with `plc_i` words asked for, NEXT_LAYER shows the
  last of them and PREVIOUS_LAYER holds the others. That the copy starts with
  NEXT_LAYER's cursor at 0 is not obvious, as nothing resets it when a copy
  ends: it is rewound by any result that is stored, and the generator hands out at least
  one number per cycle, for a layer of no neurons too (`CursorInv`, with
  `WorkGoesOn`: what is underway stays so until the cursor is rewound).
  `NumbersInv` bounds every number on its way by the size of the layer.
* `CopyIsAligned`: `Spec => [](data_layer <= MEM_SIZE => CopyAligned)`. The
  hypothesis is needed: the program has reserved `MEM_SIZE` words and reads beyond
  them in a wider layer. `MemoryIsInBounds`: `Spec => []MemoryInBounds`, which
  has that hypothesis in itself.

`NetworkProofs`, on top of both:

* `SelectInvariant`: `Spec => []SelectInv`: the size, the input size and the
  weight base the controller shows in a cycle are those of layer `ctrl_i + 1`. The base
  is a sum over all layers before, which `FeedForward` defines by a recursive function;
  `Recursion` gives its defining equations, and those of the partial sums of a neuron.
* `NetworkInvariant`: `Spec => []NetworkInv`, for networks that fit (`Fitting`: no
  size is negative, and no layer but the first is wider than `MEM_SIZE`; the
  program has no meaning for the others). `PartialInv` says, for each wait() of
  `PROCESSOR::process`, which of the sums of its neuron the unit has in
  its accumulator. `AccountInv` has three parts. The numbers that a unit holds
  (`Held`: in hand, queued, and on the bus to it) differ from those of all others (`Distinct`);
  each number handed out is held, or its value is in NEXT_LAYER (`Stored`), which
  needs that two units that show results on one edge have different ones; and the
  generator has handed out all numbers of the layer when it ends (`CountInv`).
* From it: `NeuronsAccounted` (`EveryNeuronAccounted`) and `WeightAddresses`
  (`WeightAddressInRange`), both for `Fitting` networks.
* `NeuronsCounted`: `Spec => [](NoneEmpty => EveryNeuronCounted)`, a law of
  conservation over the whole run. `CountedInv` says that the sum, over the units, of what
  each has counted and what it holds (`Share`) is the number of neurons of all
  layers completed plus the numbers handed out of this one; that a layer
  contributes its size when its cycle ends is `CountInv`. An edge moves a number
  from the bus into a queue, from the queue into the hand, from the hand into the count,
  none of which changes a share; only the generator changes one, by one (`SumOneMore`). The
  places of `EveryNeuronCounted` are as many as the numbers held (`PlacesCounted`). The
  hypothesis says that every layer to be computed has a neuron: a layer of none
  is handed the number 0 all the same (`generator.cpp:61`), and it is counted.
  It needs no `Fitting`.

`RefinementProofs`:

* `NetworkImplemented`: `Spec => (Fitting => feed_forward!Safety)`, under the
  refinement mapping that TLC checks. The edge at which a cycle ends is
  `Compute`: nothing is underway and the last number has been handed out, so by `AccountInv`
  NEXT_LAYER holds all neurons of the layer. The edges of a copy and of a start are
  stutters, as the activations are only moved between memories (`ActsKept`). After
  the last layer `PrintInv`, a second invariant (`PrintInvariant`), says how many
  words have been printed and which is on the bus; each edge is `PrintWord` or `Finish`. Only
  safety is proved: that all of this happens is in TLC's `ImplementsFeedForward`.
* `DispatchImplemented`: `Spec => ImplementsDispatch`, a step simulation. Generator
  and reducer are the same modules on both sides; the steps of a unit map to
  taking a number, computing on, or showing the result, and the controller's to
  rest or to the handshake. That the size does not change between the start and
  the end, which `Dispatch` demands of its environment, is where `PhaseInv` is
  needed.

`DispatchProofs`:

* `TaskInvariant`: `Safety => []TaskInv` of `Dispatch`. As in the accelerator,
  reports are never below the queues and the write line is down when the
  generator chooses, so the number on the bus has room where it goes (`BusInv`).
  No two units have a number in common (`Apart`), and all have smaller ones than
  the generator: a number that comes in is new, and a unit has its numbers in
  order (`OrderInv`), so that the one in hand is not queued as well.
* `PoolImplemented`: `Safety => pool!Safety`, for any units, sizes, speeds and
  starts. Before the end, what an edge takes from the numbers to be done is exactly what the
  units then show (`PoolWorks`: the generator passes on what is on the bus,
  `GeneratorMoves`, and the unit addressed gets it, `Accepted`); at the end nothing is
  left (`NothingLeft`), and nothing comes until the controller starts again.
  With `DispatchImplemented` it holds in the accelerator as well. That the end does
  come is the liveness half of `ImplementsTaskPool` and left to TLC.

`KernelProofs`:

* `RecordsAgree`: `Spec => []NotificationsAgree` of `OpenKernel`, for any
  processes, events, signals and delays. The invariant adds to the property the
  types of the records and the bounds of the loop over the list; the core is
  `RemoveKeeps`: moving the last element of the list into the place of the
  cancelled one keeps list and indices inverse to each other. During the
  notification phase only the part of the list that is still to be triggered is
  in agreement (`Pending`), which is why `crunch` may clear the list after the
  loop instead of popping it.
* `KernelInvariant`: `Spec => []KernelInv`, which adds the queues (`QueueInv`: a
  process runs, or is in one of the four queues, once, or neither), the updates
  (`SignalInv`) and the phases (`StageInv`: nothing is ready when values change, no delta
  notification is left when time advances). A trigger queues those of the processes registered
  that are neither queued nor running (`Those`, whose elements and order are found by
  `Recursion`), so it takes that each is registered once.
* From it: `ListsAreSound` (`ListsSound`).
* `SchedulerImplemented`: `Spec => ImplementsScheduler`, a step simulation with
  one lemma per action: the passes over the queues and the steps through a list are
  stutters or one notification, update or resumption of `Scheduler`; the order
  of the queues, the indices and the buried entries are forgotten. The earliest-notification rule
  (`NotifySemantics`) and the advance to the first live entry (`AdvanceStep`) are
  where the records must agree, the update phase (a signal that is in the list twice, or
  not at all, would be a wrong update) where the lists must be sound.

`EventQueueProofs`:

* `StaysInAllocation`: `Spec => []InAllocation` of `EventQueue`, for any initial
  size. It takes that the allocation is never less than two, which the
  constructor sees to: growth by half, rounded down, would not grow one word.
* `QueueImplemented`: `Spec => ImplementsPriorityQueue`, for any number of entries. The
  loops of `insert` and `heapify` move entries along one way of the tree; that there is
  such a way from any place is `WalkExists` along `parent` (`UpExists`), or along the
  smaller child (`DownExists`). Shifting the entries on the way is a permutation of places, so
  the bag of times has one more or one less (`InsertAdds`, `ExtractRemoves`, from `Moved`: a
  permutation keeps the bag, and `OneMore`); and the order of parents and
  children is kept, as the place found is where the new entry belongs (`InsertOrders`,
  `ExtractOrders`). The root of an ordered heap is the earliest (`RootIsEarliest`, by
  induction over places).

The proof that the controller starts only once depends on results never being
`-inf` (a `sigmoid`, a `Number` by construction of the terms), and on an unwritten
word of NEXT_LAYER not being `-inf` either, which C++ does not promise. The
model has it from the type of memory, where `Uninit` is a `Number`, so it is an
assumption of all theorems that rest on `PhaseInv`. `NetworkImplemented` shows
that, given it, no such word is ever printed.

Only model-checked: the liveness half of `ImplementsFeedForward` and of
`ImplementsTaskPool`, `Terminates`, `ClockRuns` and `QueuedRuns` (liveness is out of
the prover's reach); and `EdgeByEdge`, whose invariant would have to say what has been
done and called at each of the steps of an edge, in any order of the processes.

## 5. Not modelled

* Formatting of results, time stamps, the output file, debug output, the VCD
  trace, the command line and the printing of the statistics: no effect on the
  simulation. (The statistics themselves are modelled, `count_neurons_calc`.)
* A negative number of layers (`layers.resize` throws), and text in the files
  that is not a number.
* `int` overflow of weight addresses (`WeightAddressInRange` bounds them by the
  number of weights, which are held in memory) and rounding of sizes above 2^24 by the
  float bus: no network that fits the memories comes near.
* Layers wider than `MEM_SIZE`: the program then writes outside its allocation,
  which has no meaning; the model drops such a write, and `MemoryInBounds` says
  that no smaller layer causes one.
* Of the SystemC kernel, what no process of the program uses: dynamic sensitivity
  (`wait(e)`, `wait(t)`, `next_trigger`), `wait(n)`, event lists, suspending,
  disabling, killing and resetting processes, pausing, a limit to `sc_start`,
  phase callbacks, updates from other OS threads, the immediate stop mode,
  signals with the policy `SC_UNCHECKED_WRITERS`, suppressed errors. Also the
  coroutine packages (a process is an action), the overflow of absolute time at
  2^64 ticks, and the number of cancelled entries of one time in the timed queue
  (they are one in the set).
* The rest of the library: data types, FIFOs and other channels, tracing, TLM.
  None of it acts on the accelerator.

## 6. Plan

Done: all clocked modules, their composition, the abstract network; the dispatch
in an open environment and its task pool; the kernel, its scheduling semantics,
the heap, and the composition of kernel and dispatch; the theorems of section 4.
The order was that of importance: first dispatch (where numbers can be lost),
then the controller's sequence and the copy, then the ends (files, bus,
printing), then what the edge-by-edge model takes for granted.

Next, in this order:
1. The copy alone (PREVIOUS_LAYER_CONTROLLER, NEXT_LAYER, PREVIOUS_LAYER)
   implementing an atomic copy, as processes of the kernel like the dispatch.
2. `EdgeByEdge` for any number of units: the processes of a delta cycle do not
   see one another's writes, so that their order does not matter.
