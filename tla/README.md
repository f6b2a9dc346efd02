# A formal model of the RISC-V out-of-order simulator

The program is a cycle-stepped simulator of an out-of-order RV32 processor
(`src/src`).  It runs the user's program through fetch, decode, dispatch, issue,
execute, writeback and commit, with register renaming, reservation stations, a
load/store queue with store-to-load forwarding, branch prediction and a vector
unit.  Its central promise is that none of that machinery shows: registers,
memory and the counts that `main` reports are those of a machine executing one
instruction at a time.  This directory states that promise in TLA+, models the
code that has to keep it, checks the one against the other with TLC on small
instances, and proves with TLAPS, for all instances, the invariants of renaming, of
the load/store queue, of the pipeline composed of them, of the loader and of the
interface, and the promise itself, under hypotheses that name where it is broken
(section 4, *The refinement*).

## 1. The system

### Parts, state and operations

| part (file under `src/src/cpu`) | state | operations that change it |
|---|---|---|
| re-order buffer `rob.hpp` | `entries` (deque, oldest first), `next_tag`, `max_size` | `allocate`, `update`, `pop_head`, `flush`; `ctrl_handled` and mispredictions from `CPU::writeback` |
| register alias tables `rat.hpp` (integer, float, vector), `VectorState::tag` | a tag or -1U for each register; the tag of the youngest vset | written by `CPU::dispatch`, cleared by `CPU::commit`, `rebuild` and reset in `CPU::flush` |
| execution paths `exec_path.hpp`, `exec.hpp` (LOGIC, MULDIV, CTRL, LOADSTORE, FLOAT, VECTOR) | reservation stations, units with `cycles_remaining`, finished results | `dispatch`, `issue`, `execute`, `take_finished`, `wake`, `flush` |
| load/store queue `lsq.hpp` and units `lsu.hpp` | `LSQEntry` deque (address or its tag, data or its tag, issued, done); the tag and cycles of each unit | `allocate`, `update`, `issue`, `complete`, `wake`, `commit`, `flush` |
| memory `memory.hpp` | bytes | `loadb/h/w`, `storeb/h/w`, bounds checks that throw |
| branch predictor `branch.hpp` | target buffer; history of one or two bits | `predict`, `update` |
| register files `regfile.hpp` | integer, float, vector registers | `write` at commit |
| execution units `alu.hpp`, `mul.hpp`, `ctrl.hpp`, `vec.hpp`, `fpu.hpp` | the entry in progress | `compute` when it finishes |
| CPU `cpu.cpp` | `pc`, `fetch_q`, `decode_q`, `fetch_stopped`, `halted`, counters | `step()`: commit, writeback, execute, issue, dispatch, decode, fetch, check_halt, in this order |
| decoder `decode.hpp`, tables `utils/isa.hpp`, `utils/helpers.hpp` | none | words to `DecodeEntry`; operand and destination kinds, latencies |
| loader `utils/loader.cpp` | none; it reads three files | `Loader::ELF` (program to memory image), `ASM` (disassembly to text by address), `config` (JSON to `Config`) |
| TUI `tui/tui.cpp` and `main.cpp` | the tab, three focuses, the event queue, the file of results | event handler, step callback, renderer; `main` appends a row of results |
| commit log `utils/trace.hpp` | what the last step wrote | filled by writes, read by the step callback |

### How the parts interact

There is one thread.  All the concurrency is inside the simulated machine: in
every `step()` the stages run from the back of the pipeline to the front, each
on the state the previous ones left, and instructions in flight finish in an
order that depends on operands, latencies, free units and predictions.

Tags tie the parts together.  Dispatch allocates a tag in the re-order buffer
and hands it to a reservation station, the alias table and, for a load or store,
the load/store queue.  An operand that is not there yet is the tag of its
producer.  Writeback broadcasts `(tag, value)` to all stations and the queue.
Commit pops the re-order buffer and the load/store queue together, and throws
when their heads differ.  A misprediction calls `flush(tag)`: *every* structure
has to drop exactly what is younger.  Tags are compared as integers, `-1U` is
"no tag".

### What is hard

* **Order.** Results come back in any order; branches must take effect, train the
  predictor and be counted in program order; commit runs before writeback in a
  step, so a branch with a result may sit at the head with its prediction
  unchecked until the next one.
* **Stale state.** An operand is looked up in the alias table, then in the
  re-order buffer, then in the register file, and the instruction that brings it
  moves along those three in between.  A flush must make the tables name older
  producers again; `vec_state.tag` must follow.
* **Loads passing stores.** A load may start while older stores are unfinished
  and takes bytes from several of them, of other sizes or vector lanes, and from
  a memory that older stores are committed to meanwhile.
* **Limits and waiting.** Stations, units, queue and re-order buffer fill up
  independently, and instructions wait for each other's tags: nothing may be lost,
  duplicated or wait for ever.
* **Halting.** `fetch_stopped`, `halted` and an undecodable word interact with
  prediction: the end of the program may be reached speculatively.

* **Numbers.** The floating-point unit computes in double and repairs what
  rounding twice and the host's rounding mode leave; the ELF loader cuts 64-bit
  fields to 32 bits; `addr + 3` wraps.
* **Around the machine.** The loop of `r` runs inside an event handler; the stack
  panel shrinks behind its focus; many runs append to one file; reading a field of
  the configuration may throw when others have been read.

`PROJECT.json` lists these one by one under `hazards`, with the line where each
bites and the properties that cover it.

## 2. The modules

| module | models | state and actions |
|---|---|---|
| `Isa` | `utils/isa.hpp`, `utils/helpers.hpp` | sets of operations, execution path, operand and destination files, latency |
| `TagQueue` | the deques ordered by tag | `FlushAfter`, `TagsGrow` |
| `Rename` | `rob.hpp`, `rat.hpp`, `VectorState::tag` and the code of `cpu.cpp` that touches them | `rob`, `next_tag`, `rat`, `vec_tag`; `Dispatch`, `Writeback`, `Resolve`, `Mispredict`, `Commit` |
| `Memory`, `MemAccess` | `memory.hpp`; what one load or store does to it | operators: little-endian `load`, `store`, bounds; `Loaded`, `Stored` |
| `LoadStoreQueue` | `lsq.hpp`, `lsu.hpp` | `lsq`, `lsus`, `mem`; `Dispatch`, `GenerateAddress`, `Wake`, `Issue`, `Complete`, `Commit`, `Flush` |
| `ExecPath` | `exec_path.hpp`, `exec.hpp` | a path as a record of stations, units and results, and its operations |
| `Fpu` | `fpu.hpp` | what each floating-point operation computes, bit for bit, for floats of any format |
| `ExecUnits` | `alu.hpp`, `mul.hpp`, `ctrl.hpp`, the AGU of `lsu.hpp`, `vec.hpp` | what each operation computes, in words of bounded width; which vector operations throw |
| `BranchPredictor` | `branch.hpp` | a predictor as a record; `predict`, `Updated` |
| `Registers` | `regfile.hpp` | `Written`, `InitialRegs` |
| `Machine` | the abstract specification | one action per instruction, in program order |
| `Cpu` | `cpu.cpp`, composing all of the above | one action per stage, or per round of a stage's loop |
| `Decoder` | `decode.hpp` | operators: a word, as its fields, to an instruction |
| `Loader` | `Loader::ELF` | `file`, `mem_size`, `code_end`, `memory`; one action per round of its three loops |
| `Listing`, `ConfigFile` | `Loader::ASM`; `Loader::config` and the checks of `CPU::CPU` | one action per line; one per field |
| `TagQueue_proofs`, `Rename_proofs`, `LoadStoreQueue_proofs`, `Simulator_proofs` | theorems about the module each is named after | section 4 |
| `Loader_proofs` | theorems about `Loader`, `Listing` and `ConfigFile` | section 4 |
| `Cpu_proofs` | what `ExecUnits` returns; the structural invariant of `Cpu` | section 4, *The pipeline* |
| `Dataflow_proofs` | what is in flight and what it is given; where the CPU halts | section 4, *What is in flight* |
| `Refinement_proofs` | `Cpu` implements `Machine` | section 4, *The refinement* |
| `Simulator` | `main.cpp`, `tui.cpp` | the events, the focuses, the screen, the results; one action per kind of event, per step of `r`, per drawing, and the end of `main` |

`Rename` and `LoadStoreQueue` are specifications in their own right, with an
environment wider than the pipeline (any results in any order, a flush behind any
tag at any time).  `Cpu` instantiates them and uses *the same operators and actions*:
`R!Allocate`, `R!Update`, `R!Resolve`, `R!Mispredict`, `R!Retire`, `L!Woken`,
`L!Completed` and so on; there is one definition of each piece of code.

**`Cpu` and `step()`.** The variable `stage` says how far the current step has
come, so the sequential order of the code is kept, and each round of a handler's
loop is one action: `CommitOne`, `WritebackOne`, `ResolveOne`, `DispatchOne`.  Stages
that have no order within them (all units step; all stations are scanned) are
one action.  A throw out of `step()` is the stage `"crashed"`.  `WritebackOne`
takes the completed results lowest tag first, where the code goes path by path:
they carry different tags and touch different entries.  A decoded instruction
travels from `DecodeAndFetch` to `DispatchOne`; fetch and decode are joined
because nothing happens in between.

**`Machine`** executes the instruction at `apc` with the operand values of the
registers.  It shares `ExecUnits`, `MemAccess` and `Registers` with `Cpu`, on
purpose: what is under test is not whether `MUL` multiplies but whether the
pipeline gives it the right operands, at the right time, once.

**`Simulator`** sees of the CPU what the TUI sees of it: a *course* of frames, one
per `step()`, that ends in a halt, an exception or never.  Keys are posted at any
moment; the handlers take them one by one, on the thread that steps the CPU, and
the screen is drawn in between.  `Loader`, `Listing` and `ConfigFile` are called by
`main` one after the other and share nothing; `MCLoader` checks them side by side.

**Refinement mapping** (end of `Cpu`): registers, memory, `vl` and `sew` are the
committed ones; `apc` is the address of the oldest instruction anywhere in the
pipeline (re-order buffer, else decode queue, else fetch queue, else `pc`);
`branch_count` is counted at resolution, so branches resolved and still in flight
are subtracted.  A commit is a step of `Machine`, every other step a stutter.

### Abstractions

* A byte has `ByteBase` values (4, or 2 for the queue alone) instead of 256, so a
  32-bit word is 8 bits wide; arithmetic, sign extension, carries, shifts and
  address wrap-around are those of that width.
* A float has `ExpBits` and `FracBits` bits instead of 8 and 23, a double
  `DoubleBits` instead of 53, which is more than twice the float's precision plus two,
  as in the code.  The exponent of a double is not bounded.  `fenv` and `<cmath>`
  are modelled by what IEEE 754 requires of them.
* The program is a sequence of decoded instructions, apart from data memory.
  A program that overwrites its own code is not modelled.
* Busy units are a set: which of identical units runs an instruction makes no
  difference.  Reservation stations keep their slots, because slots decide the
  order of issue.
* A tag is a natural number; `NoTag` is -1.  Tags do not wrap around (2^32).
* The three register files share one set of register numbers `Reg`.
* Cycle counters, log messages and the text of the interface are left out.

## 3. The runs

Every bound is a constant of a `.cfg`, or a set of inputs in the `MC` module.

| run | instance | question and answer |
|---|---|---|
| `rename` | 2 registers, one instruction of each kind renaming tells apart, 3 entries, 4 tags | in every interleaving of dispatch, results, resolution, flush and commit: tables name exactly the youngest writers, the vset tag is the youngest vset, a vset in flight is forgotten only by the flush of a younger one, control is resolved in order. Holds |
| `load_store_queue` | 3 accesses, 2 units, 2 addresses; two mixes: byte and halfword loads and stores; vectors of 1- and 2-byte lanes under `vl` 1 and 2 with byte stores | loads have the values sequential memory would give, no load gets ahead of a store it depends on, units never serve a flushed entry, every access leaves the queue. Holds |
| `cpu` | five workloads, below | the pipeline implements `Machine`; queue and buffer hold the same accesses, both in the order of their tags; every instruction is in one place; waiting is only for older results still to come; every step of the pipeline is a step of `Rename` or leaves its state alone (`KeepsToRename`). Holds |
| `cpu_live` | a counted loop and a subroutine called twice, under 60 configurations (1 to 3 wide, 1 or 2 stations and units, the five predictors); all 6^4 programs of words that decode, 1 wide | `Machine`; the pipeline is never stuck and the loops end; one wide, it does not halt early. Holds |
| `decoder` | words whose fields take every value the decoder looks for and some it does not; every operation with the ends of every immediate and three registers | decoding inverts encoding; only words an assembler emits are accepted; an instruction has a register exactly where the tables that drive renaming look for one. Holds |
| `fpu` | all floats of 1 + 4 + 2 bits in all rounding modes, doubles of 8 bits; second operands of arithmetic are positive (the operations and the first operand bring the other signs), fused operations have two modes and three addends | rounding, NaN, conversions, order and classes, below. Holds |
| `loader` | ELF files of up to two segments or sections with sizes and addresses around the end of memory and beyond that of the address space; disassemblies of a few lines; configuration files of up to three fields of good or bad type | no copy out of bounds, the image is the overlay of the segments; every line of code, and nothing else, is listed; a CPU that is built has the file's fields up to the first bad one, and there is a warning if one is not used. Holds |
| `simulator` | 2 command lines, headless or not, of programs of three frames that halt, throw or begin again, with at most 2 keys waiting | one header in the results, the focus on a line, `q` quits unless `r` runs a program that never halts, a headless run that halts leaves its row. Holds |
| `halts_early`, `halts_on_wrong_path`, `vset_lost`, `vset_keeps_vl` | one small program each | disagreements, section 5 |

**The workloads of `cpu`** are: all 7^4 programs over seven scalar instructions,
under two configurations; loads and stores for which the check of the bounds wraps;
all 6^4 programs over six vector instructions; all 8^4 over eight words that decode to
floating-point instructions and a branch; and vector-float programs, also under an
element width that the vector unit refuses by throwing.

**Why the bounds are enough.** Four instructions in a buffer of four entries
hold a slow producer, a branch that waits for it, an instruction on the wrong path
and one behind it; that is enough for every pair and triple of instructions that
share a register, an address or a branch.  The pools are chosen to get in each
other's way: `MUL` is slow and feeds the base address and the branch, `SW` and
`LBU` overlap, a jump to the last instruction makes the buffer's target wrong
or right, and a store may leave memory, which ends the simulation.  With two
stations and a queue of one or two every structure fills up.  `TagLimit` 40 is
never reached by the programs that end; where a program loops for ever, behaviours
are followed up to it.  In `rename` four tags in a buffer of three
entries let an entry commit, one be flushed and a register be renamed twice.  In
`load_store_queue` three accesses are a load with two stores before it, or one that
commits while the load is in its unit; words of two-valued bytes let two stores
leave different values in each byte.  A float of seven bits has subnormals, ties,
carries into the exponent and overflow, and conversions have integers on both sides
of the limits.  In `simulator` the stack pointer moves to the end of memory while
either tab is shown.

`fpu` states what rounding twice can and can not spoil: `NearestIsCorrect` (to nearest
the basic operations are correctly rounded), `DirectedIsCorrect` (so is every mode and
fused operation where the exact result fits a double), `Faithful` (the result is
never further off than a neighbouring float), `InvalidIsNan`, `ConversionSaturates`,
`OrderIsOne` (minimum, maximum and comparisons tell one order) and `ClassAgrees`.

`CHECK_DEADLOCK FALSE` stands in every configuration since every instance really
stops: the CPU halts or crashes, the components run out of tags, a file has been
read, the last command line has ended.

**Fairness.** `CpuFairSpec` and `LiveSpec` are weak fairness of `CpuNext`: `main` and
the TUI's `r` call `step()` for as long as the CPU runs, and `step()` is sequential code
whose loops end.  `Cpu` is deterministic once a program and a configuration are
chosen, so nothing finer can matter.  `LsqFairSpec`, and `MixSpec`, are weak fairness of
`Progress`, some step of the units, of a broadcast or of commit: `step()` runs all
of them in every cycle.  `SimFairSpec` is weak fairness of `SystemNext`: the process
is scheduled.  None assumes that a flush or a dispatch happens, or that anybody
presses a key.

## 4. The proofs

`TagQueue_proofs` and `Rename_proofs` are checked by TLAPS from
`RenameAssumption` alone (register numbers, addresses, buffer size and tag bound
are naturals; decoded instructions and results have their types): any number
of registers, any size of buffer, any program.

`RenameInv` is the conjunction of `RenameTypeOK`, `TagsOrdered`,
`RatYoungest`, `VecTagYoungest` and `ResolvedInOrder`.  The last three are not
inductive without `TagsOrdered`: that `flush(tag)`, written with the predicate
`entry.tag > tag`, keeps exactly the entries up to the branch, and that `commit`
clears an alias exactly when no younger entry renamed the register, both need
the tags to grow along the queue and to be distinct.

The argument goes operation by operation, one lemma each:

1. `AllocateInv`: the new tag is above all others, so its entry is the youngest
   writer of its destination and leaves the other registers as they were.
2. `UpdateInv` and `ResolveInv` change no tag, no destination, no order.
3. `MispredictInv`: the flush leaves a prefix; `Rebuilt` names the youngest
   writers of any queue; a vset tag above the branch's was younger, one below it is
   still in the prefix and still the youngest vset there.
4. `RetireInv`: the tail keeps its order; the head was a register's youngest
   writer only if no entry of the tail writes it.

The theorems: `RenameInvariant`; `RenameTypes`; `AliasTablesNameYoungest`;
`VecTagIsYoungest`; `ControlInOrder`; and `VsetsAreForgottenByFlush`, an action
property.  `VecTagYoungest` is silent when no tag is set; the action property says when
that may be although a vset is in flight: after a misprediction that drops a younger one,
which is the disagreement `vset_lost` of section 5, and after no other step.  By
`MispredictLeaves` the queue keeps a prefix, so where no vset is dropped the tag stays;
a commit clears the tag of the youngest vset only, and that is the head only if no other
is in flight, because no two entries share a tag.

That an instruction behind a misprediction cannot commit, although commit runs before
writeback in a step, is not a theorem of `Rename`, which assumes it (the guard
`Settled`).  `KeepsToRename` says it: the stages of `Cpu`, in the order of `step()`, only
take steps of `Rename`, that guard included; `CpuKeepsToRename` below proves it.

`Loader_proofs` is checked from `LoaderAssumption` (memory is not empty and ends
below the modulus of a word) and `FilesAssumption` (the files are ELF files, of any
number of segments and sections, with any 64-bit fields).  `LoaderInv` adds three
conjuncts to the types: `RoundsInside` (the counter of each loop), `SeenInside` (the
segments a loop has *seen* end at or before `mem_size`; the check and the copy are
different loops, and this is what the first leaves for the second) and
`CopiedSoFar` (each byte is that of the last segment copied so far that covers it).
The theorems: `LoaderInvariant`, `LoaderTypes`, `LoaderCopiesInBounds`,
`LoaderImage`.

The same module is about the other two functions of the loader.
`ListsEveryInstruction`, from `ListingAssumption`: lines are as objdump writes them
(`Written`: an instruction has an address, its bytes and a name, and nothing is behind
the colon of a section or a label).  `ListsCode` is inductive, as an instruction is always
entered, and only an instruction or the title is (`EntryKind`); a line entered is the
last at its address.  `ConfigIsOfFile`, from `ConfigAssumption`, for any fields in any order:
`ConfigInv` says that what has been read so far is the file's, the rest the default's
(`ReadSoFar`), and that reading ends before the last field only at one that has the
wrong type, or with a file that cannot be read, and then with a warning
(`ReadWhileUsable`).

`LoadStoreQueue_proofs` is checked from `LsqAssumption` and `MemoryAssumption`: any size of
the queue and of memory, any number of units and lanes, any base of a byte, any
vector lengths up to the lanes, and any addresses whose word lies in the address
space.  `LsqInv` is `LsqTypeOK`, `UnitsServeQueue` and `NoLoadPassesUnknown` with
`LsqTagsOrdered` and `EntryOK` (the element width of an entry is that of its
operation).  Three things carry the proof:

1. `ForwardedIsValue`: bytes joined from memory and from any stores of the queue are
   a word (`JoinBelow`), and every lane and byte index of `byte_from` is one the
   store has (`ByteFromIsByte`).
2. `EvolvedInv`: in every step but dispatch, commit and flush, entries stay where they
   are and what they have found out, an address, a length, the presence of data, stays
   true; so what `can_issue` saw of the older stores when a load was started still
   holds.  `GenerateAddressInv` needs `UnitsServeQueue`: an access that gets its
   address is in no unit.
3. `FlushInv` needs the order of the tags, by `FlushAfterKeeps`: for any tag, what
   `remove_if` leaves is the prefix `FlushAfter` returns.  `ToIssueFits`: the loop of
   `issue` starts no more accesses than there are units idle.

The theorems: `LsqInvariant`, `LsqTypes`, `UnitsServe`, `NoLoadPasses`.

The second part of the module goes on to the values themselves: `LoadsSeeStores` is
`LoadsSeeOlderStores` for every instance, under one more assumption, that memory ends
at least a word before the address space does (`MemSize + 4 <= WordMod`; the code has
64 KiB of memory in a space of 32 bits).  The invariant is `LsqInv` with `LoadsSee`: a load that is
done and in range has what it would read from memory as it *sees* it (`Seen`: each
byte from `byte_forward`).

1. `ForwardedIsLoaded`: what a unit brings back is that, because bytes cut from a
   word and joined again are the same bytes (`JoinBytes`), whether the load reads
   words (scalar) or bytes (vector).
2. `ForwardKept`: in a step of `Evolved`, the older stores that cover a byte of a load
   that was started have address and data already (`can_issue_load`), so the byte
   stays.  Without `NoLoadPassesUnknown` this is where the proof fails.
3. `CommitSees`: the head's bytes move from the queue to memory (`StoredByte`,
   `ForwardShift`).  `PassesInRange`: a store that commits without an exception lies in
   memory.  This is what the assumption is for, as the bounds check of `memory.hpp` is
   made on a sum that wraps.
4. `AfterOlderSeen`: memory after the older stores, one after the other, is memory as
   the load sees it; the recursive function of `AfterOlder` is unfolded by the least
   index at which the two would differ.

### The pipeline

`Cpu_proofs` is about the whole of `step()`.  It is checked from the assumptions of
the modules `Cpu` is composed of and `CpuAssumption`:

* sizes, register numbers and the bound of tags are naturals, and the predictor has
  at least one entry; a configuration has a width, sizes and numbers of units, any of
  which may be zero, and one of the five predictors;
* memory holds at least a word and ends in the address space, and so does a program;
* an instruction has the fields of `Instruction`; one that sets `vl` has an element
  width (`decode.hpp:195` rejects the others), and the immediate length of
  `vsetivli`, a register field of the word, is not negative;
* `WordAssumption`: a vector register has at least 32 bits, and its bytes fit the lanes
  of a value (128 to 512 bits and 64 lanes in the code); a double has more than twice
  the precision of a float, plus two.

The invariant is `CpuInv`:

| conjunct | what it says | what it is needed for |
|---|---|---|
| `FrontOK`, `CountersOK`, `ArchOK` | types of the front, the predictor, the architectural state; what is fetched lies before `end` | fetch never indexes the program outside; decode finds an instruction |
| `RenameInv` | the five invariants of `Rename` | tags are distinct and grow; a table names a writer that is there |
| `ResultsOK` | a result that is ready is one that its operation can have | operands are values; a vset leaves a `vl` in range and a width |
| `SettledOutside` | outside of writeback there is nothing to resolve | commit and dispatch are steps of `Rename`, whose guards ask for that |
| `PathOK`, for each path | within its sizes; no tag twice in it; what it holds waits for its result and is of its type | results come back once, so a broadcast is a `Writeback` |
| `AllHeld` | what waits for its result and is no access is in its path | nothing is lost |
| `QueueOK`, `Mirrors` | the queue is in order, and has the accesses of the re-order buffer | the heads agree at commit |
| `Homes` | an access is in its path until it has an address, then in the queue until it is done, then in its path again until its result is collected | an access has one home although two structures own it |
| `UnitsOK` | each load/store unit works for one access, issued and with all it waits for | a unit that finishes finds its access; no access finishes twice |
| `Waits` | each tag waited for is that of an older entry, not ready, that writes a register | no operand is missed between the table and the broadcast |

The last six are one predicate, `Serving`, of a configuration, a re-order buffer,
paths, a queue and units, and they hold each other up.  That a path holds an
instruction once needs results to come back only for what waits; for accesses that
needs the units to work for entries of the queue; and that needs the flush to take the
same entries from the queue, the units and the re-order buffer.

The argument goes bottom up:

1. *Queues and paths.*  `WokenPath`, `ExecutedPath`, `IssuedPath`, `DispatchedPath`,
   `FlushedPath` and their counterparts for the queue say, of one structure, what an
   operation moves and that it stays in order.
2. *Stages.*  `ServingRetire`, `ServingFlush`, `ServingWriteback`, `ServingExecute`,
   `ServingIssue` and `ServingDispatch` say that a stage takes what serves to what
   serves, whatever the re-order buffer.
3. *Actions.*  One lemma for each disjunct of `CpuNext`, from the lemma of its stage and
   that of `Rename`, which is proved in `Rename_proofs` and reaches here through
   an instance (`RP`); the loads' bytes are `LoadStoreQueue_proofs`', through `LP`.
   An instance has its own copy of the operators it is made of: the first lemmas of the
   module (`OperationsAgree` and the like) say that the copies agree.
4. `ComputeTyped`, the first part of the module, closes the circle between operands and results:
   from operands that are values, every operation of every unit makes a result that is
   a word or lanes of words, a `vl` that fits, and a jump only from a control
   instruction.  It goes through the whole of `Fpu`.

The theorems: `CpuInvariant`; `CpuTypes`; `LsqMirrors`; `OneHomeAlways`;
`WaitsForOlderAlways`; and `CpuKeepsToRename`, an action property, by which everything
proved of `Rename` in its wider environment holds of the pipeline.  The conjuncts of
`CpuInv` were checked with TLC on the instance of `cpu` before they were proved.

`LsqMirrorsRob` says that queue and buffer have the same tags and operations and that tags
grow along both, which is that they have the same accesses in the same order: commit
cannot throw "LSQ head tag does not match commit tag".

What it does not say is that results are the *right* ones; the next two modules do.

### What is in flight

`Dataflow_proofs` has the assumptions of `Cpu_proofs` and no other.  `ChainOK` says
that from the head of the re-order buffer through the decode queue and the fetch queue
to `pc` each instruction is the program's at its address, and where the one before it
*leads* (`Successor`): by its result if it is control that has been resolved, by its
prediction if it has not, else at the next word.  When a misprediction is resolved, what
`flush` keeps ends with that instruction, and the chain goes on from its target, which is
the new `pc`; `ResolvedInOrder` says that no instruction before it is left that may still
turn out to be mispredicted.

* `FlightInOrder`: `CpuInv /\ ChainOK` is invariant.
* `OnlyCommitShows`, an action property: `NextPc` and `CommittedBranches`, the two
  parts of the refinement mapping that are computed from what is in flight, change only
  when an instruction commits, whatever is fetched, predicted, resolved or flushed.
* `NarrowHaltsAtEnd`: `HaltsAtEndWhenNarrow`, for every program.  One instruction wide, a
  fetch that brings nothing starts behind the program with an empty fetch queue
  (`StopsAtEnd`), which is where the finding `halts_early` needs a group of two; a CPU that
  halts has nothing in flight (`HaltedEmpty`), and by `ChainOK` the next instruction is then
  at `pc`.

The module then defines what the values in flight should be.  With `E` the entries of
the re-order buffer, `Given` is the value an instruction must find in a register: the
result of the youngest older writer in `E`, once it is ready, else what the register file
has; `Awaited` is that writer as long as it is not ready; `GivenConfig` and
`AwaitedConfig` are the same for `vl` and the element width.  `DataInv` says that every
operand of a station or of the queue is the one given, or names the one awaited; that
every result, in a unit, on its way or in the re-order buffer, is what the operation makes of
the operands given; and that an access has the address, the length and the data that follow
from them.

It is preserved because a handler changes only *who stands behind a tag*.  `Stays` says
that an instruction is given, after a step, what it was given before; then data stay
what they were (`DataStays`) but for what the handler moves.  Commit moves the oldest
result into the register file, which is the same value to everything behind it; a flush
drops only younger entries, which give nothing to an older one; and dispatch is where
`RatYoungest` and `VecTagYoungest` are used.

### The refinement

`Refinement_proofs` is about `ImplementsMachine`: every behaviour of `CpuSpec`, seen through the
refinement mapping of section 2, is one of `Machine`.  The invariant is

    RefinementInv == CpuInv /\ ChainOK /\ DataInv /\ (stage # "crashed" => Sees(lsq, mem))

where `Sees` is the conclusion of `LoadStoreQueue_proofs` for the queue of the pipeline: a load
that is done has what it would read once the stores before it were written.  Each
conjunct is needed: `ChainOK` for the address a commit goes to, `DataInv` for the operands,
`Sees` for what loads return, `CpuInv` for all of them.  `Sees` crosses from the
queue's own specification by `Grows`, which describes what each handler of the pipeline
does to the queue in the terms of `Evolved`.

The argument: a commit takes the head of the buffer, which by `ChainOK` is the
instruction at `apc`, whose result by `DataInv` is `Compute` of the values in the
registers, as nothing older is in flight, and which for a load is by `Sees` what memory
holds; so the step is `ExecuteOther`, `ExecuteLoad` or `ExecuteStore` of `Machine`, and a
store whose check of the bounds throws is `FaultingStore`.  By `OnlyCommitShows` and
the frame of each action any other step is a stutter.

| theorem | hypotheses |
|---|---|
| `RefinementInvariant`, `PipelineImplementsMachine` | `[]Tame`, and `VsetsSetVl` |
| `ScalarsImplementMachine` | no program has a vector instruction; no access passes memory or the address space |
| `VectorsImplementMachine` | no program has a control instruction or `vsetvli x0, x0`; no access passes memory or the address space; no unsupported width |
| `ComputationsImplementMachine` | no program has a vector instruction, a load or a store; nothing about the behaviour |

All of them also suppose that memory ends a word before the address space does, as
`LoadsSeeStores` does.

`Tame` and `VsetsSetVl` are not there for the proof's convenience; each part excludes
something that the code does and a machine in program order does not:

| hypothesis | what happens without it |
|---|---|
| `VsetKnown` (part of `Tame`): when the vector state names no vset, none is in flight | `vset_lost`: after a flush, vector instructions run under an old `vl` (`cpu.cpp:137`) |
| `VsetsSetVl`: no program has `vsetvli x0, x0` | `vset_keeps_vl`: it keeps the `vl` of the wrong moment (`vec.hpp:28`) |
| no vector unit finishes an operation on an unsupported width | the throw of `vec.hpp:192` comes before older instructions have committed, also on a mispredicted path |
| `Fits`: the word at each address of the queue lies in the address space | so does a wild read (`memory.hpp:46`); a vector load that wraps reads from address 0, but does not look there for older stores (`lsq.hpp:253`) |
| `HeadInRange`: a load about to commit lies in memory | a load that straddles the end forwards bytes over the zeros it reads (`lsq.hpp:266`) |

`Tame` is about the states of the pipeline, so it also leaves out the behaviours in which
such an exception is due and `Machine` has it too (`FaultingVector`, `FaultingLoad`); the run
`cpu` has some of these.  `HeadInRange` asks nothing of loads on a mispredicted path, and
stores may leave memory wherever they are.

The hypotheses are satisfied, and interesting, on the instances TLC explores: with `Tame`
as a constraint, 1 330 437 of the 1 331 425 states of the run `cpu` are still reached,
`ChainOK /\ DataInv /\ Sees` holds in all of them, and `ChainOK` in the others too.
That is also how the invariants were found to be the right ones before they were proved.  In that run `ImplementsMachine` is
checked without `Tame`: on those programs it holds beyond the theorem.

### The interface

`Simulator_proofs` is checked from `SimulatorAssumption`: any courses, listings, numbers
of runs and events, and files of results that earlier runs have left (empty, or one
header and rows).  `SimInv` is the conjunction of its theorems `SimTypes`, `OneHeader`
and `FocusOnScreen`, with `SimInvariant`.  For the last, drawing clamps the focus to
`stack_line_count`, and the proof is that the loop of the renderer draws as many lines, for
every stack pointer, also one behind memory; between two drawings the focus may be
anywhere, which is why `FocusOnALine` is about the screen.

### The prover

The SMT encoding of tlapm 1.4.5 takes the domain of every function for `1..Len(f)`, of
memory too, so an obligation about both a queue and memory could go through for the wrong
reason.  No proof here rests on that: with the axiom restricted to sequences, every SMT
obligation of all modules still holds.

Only model-checked:

* `ImplementsMachine` outside `Tame`, where it is false of some programs (section 5): the run
  shows it for accesses and widths of the workloads that throw on the right path;
* the properties of `MCDecoder` and `MCFpu`: they quantify over words and floats, and what
  they compute is recursive over data (rounding, square roots, encodings digit by digit),
  or a finite table that TLC goes through completely;
* `NeverStuck` and the other liveness properties, for which the prover has no rule.

## 5. What the code does that it should not

Each is a run that ends with a violation, on a program of a few lines.

* `halts_early` (`cpu.cpp:183`).  A fetch group that holds a taken branch and also
  runs into the end of the program sets `fetch_stopped`.  Decode then redirects `pc`
  to the predicted target, but `fetch_stopped` stays set; nothing more is fetched,
  and if the prediction is right no flush resets it: the CPU halts in the middle of
  a loop that ends the program.
* `halts_on_wrong_path` (`cpu.cpp:200`).  An undecodable word halts the CPU when it
  is *dispatched*, even if a branch still in flight jumps over it, and before older
  instructions have committed.
* `vset_lost` (`cpu.cpp:137`).  `flush` drops `vec_state.tag` when the youngest vset
  was on the wrong path, although an older vset may still be in flight; the alias
  tables are rebuilt at the same place.  What follows runs under an old `vl`.
  `VecTagYoungest` is therefore an implication: a tag that is *set* is right.  That only
  such a flush loses a vset is `VsetsForgottenByFlush`.
* `vset_keeps_vl` (`vec.hpp:28`).  `vsetvli x0, x0` keeps the `vl` committed at the
  moment it executes, and does not wait for a vset before it.

The passing runs use programs outside these four: there is no branch among the
vector instructions, and no `vsetvli x0, x0`; halting early does not break
`ImplementsMachine`, which is a safety property, and `HaltsAtEndWhenNarrow` is about
one instruction at a time and words that decode.

These were met while modelling and have no run of their own; the models do what the
code does, and the properties of the passing runs say where they hold:

* Directed rounding (`fpu.hpp:173`).  A sum or product is rounded to a double to
  nearest, and that is then rounded in the direction asked for; when the double is a
  float, the direction is lost.  `DirectedIsCorrect` asks that the exact result fit
  a double.
* Fused operations (`fpu.hpp:36`) are `std::fma` on doubles and round twice: to
  nearest they may be off by one float.  `Faithful` holds.
* Ties away from zero (`fpu.hpp:193`): a result beyond the largest float gives the
  largest float, where IEEE 754 gives infinity.
* An exact sum of zero rounding down is +0, where IEEE 754 gives -0.
* The vector unit throws for an unsupported element width when the instruction
  *executes* (`vec.hpp:192`), and a load for which `addr + 3` wraps reads behind memory
  (`memory.hpp:46`): both also on a mispredicted path, where a machine that executes
  one instruction at a time does nothing.  `cpu` has such instructions on the right
  path only.
* `Loader::config` (`loader.cpp:110`) says "Using default config." when a field has
  the wrong type, and keeps the fields it read before that one.  `ConfigOfFile` says
  which fields a CPU gets then.
* While `r` runs a program that does not halt, no key is handled (`tui.cpp:98`), also
  not the `q` of `src/README.md:39`.  `simulator` has such a program, and `QuitQuits`
  excepts `r` on it, and nothing else.
* The title line of a disassembly may begin like a number: that of `build/dot.elf` is
  listed as the text for address 0xb (`loader.cpp:67`).

## 6. What is not modelled

* `CommitLog`: the old and new values it stores, which nothing reads; only which
  registers and addresses a step wrote.  That the logs of the float and vector files
  are never cleared costs memory and is not part of any state here.
* The layout, colours and text of the TUI; the parsing of ELF and JSON, which
  libraries do.
* `bench` and `experiments`: programs run on the simulator, and scripts around it.
* Programs that overwrite their own code.
* Tags after 2^32 dispatches; instruction addresses that are not multiples of four.
* What a load that straddles the end of memory should read: the code reads zeros and
  forwards over them, `LoadsSeeOlderStores` is about accesses in range.
* Configurations with no unit, station or queue entry of a kind a program uses: the
  constructor accepts them and the program stalls.

## 7. Plan

1. All components, their runs, their invariants and the refinement of `Machine` as
   theorems *(this state)*.
2. What straddling loads should do, once it is decided: then `HeadInRange` can go, and
   with a repair of `cpu.cpp:137` and `vec.hpp:28` so can `VsetKnown` and `VsetsSetVl`.
3. `ExecPath` as a specification of its own (the order of issue, starvation of late slots),
   with an open environment.
4. Narrow tags that wrap.
