# A verification project for the integer Java virtual machine

This directory holds TLA+ specifications of the IJVM implementation in this
repository, configurations that check them with TLC on small instances, and
proofs that TLAPS checks. Paths below are relative to the repository.

## 1. The system

A program (code bytes, constants) is loaded into the memory of one global CPU
(`g_cpu`) and interpreted, one instruction after the other, by a single thread.
Everything a program can reach is a 32-bit word. What makes the machine hard to
get right is that its parts share that one stack of words without any types:

* the stack holds operands, local variables and, for each method in progress, a
  *link area* of four words (the caller's `lv`, `nv`, `fp` and the return
  address) that INVOKEVIRTUAL writes and IRETURN believes;
* a reference to an array or to a connection is a word with a bit pattern, and
  any arithmetic can produce such a word;
* the collector decides what is garbage by reading the words of the stack and of
  the arrays, and it runs inside other operations: when an allocation is
  refused, and at every 101st claim of an index in a table, a claim by a
  connection included.

| Component | State | Operations | What must hold |
|---|---|---|---|
| Mapped array (`marr.c`) | `map`, `values`, `size`; one counter `element_creations` for all tables | claim the lowest free index, grow, check, remove | an index is never claimed twice; growth keeps every element; collections on the way lose nothing that is in use |
| Arrays and collector (`array.c`) | `arr_mem`, `marked_arrays` | create, read, write, mark, sweep | an array in use keeps its index and its elements; what is not in use goes; no two arrays share a reference |
| CPU and stack (`cpu.c`) | `pc sp fp lv nv`, stack memory, flags | push with growth by 8, pop, local variables, constants, jump | registers stay inside the memory; growth keeps every word |
| Instructions (`interpreter.c`) | the flag of WIDE | 33 instructions, the loop `run` | a return gives the caller back its frame; a method stays in its frame; a run ends |
| Connections (`net.c`) | `net_conn`, a socket per slot | open, receive, send, close | no two connections share a reference, only open connections are used |
| Initialisation (`init.c`) | first frame, first stack size | scan of main for its variables | the first frame holds every variable of main |
| Termination (`terminate.c`, `main.c`) | the pointers that are freed | `destroy_ijvm`, `destroy_ijvm_now`, SIGINT | nothing is freed twice, nothing that the machine's pointers lead to is left |
| Loader (`loader.c`) | constant and code memory | read a file | a load that fails half way can be cleaned up |
| Debugger (`ijdb.c`) | program state, breakpoints, call history | commands, stepping, restart | the history matches the calls in progress, steps stay in the code and the history, a command comes back |
| Debug data (`debug_data_loader.c`) | symbol tables | parse blocks | nothing is lost or freed twice over loads and restarts |
| Utilities (`util.c`) | | `power`, byte order, printing | |

Interaction: `run` calls `step`, which calls one `exec_op_*`; these call the CPU
(push, pop), the arrays and the connections; tables and the stack call the
collector back when memory is short; the collector reads the CPU's stack; every
component calls `destroy_ijvm_now` on an error, which frees everything and
leaves the process. The debugger calls `step` in loops of its own, looks at the
instruction before each step to keep its call history, and destroys and
initialises the machine in one process as often as it is told to; `main` does so
once, but SIGINT may end it between any two statements.

Hard behaviours, each with its line and its properties in `PROJECT.json`
(`hazards`): collections in the middle of an operation (which words protect an
array at that moment?), the order of creations and its effect on a one-pass
mark, numbers that look like references, a stack that moves while a frame is
being built, registers restored from memory, limits of tables and of reference
patterns, the end of the code; a history that is written before the step it
tells of; pointers that are freed without being reset, when loads fail, programs
are restarted, or a signal strikes.

## 2. The modules

| Module | Models |
|---|---|
| `Words` | words, bytes, conversions and wrap-around (`types.h`); the width is the constant `WordMax` |
| `ArrayOps` | `array.c` on `marr.c`, as operators on values |
| `ArrayHeap` | the collector under any mutator that stays in main: a state machine on `ArrayOps` |
| `Collection` | one collection as a single step (abstract) |
| `MarkSweep` | one collection as the loops of `mark_arrays` and `sweep_arrays`; implements `Collection` |
| `NetOps` | `net.c` on `marr.c`, as operators |
| `Bytecode` | the opcodes, AND and OR of words |
| `MainScan` | `get_num_local_vars_main` of `init.c`, round by round, and the code read as the machine reads it, to compare |
| `Interpreter` | the whole machine: `cpu.c`, `interpreter.c`, `init_ijvm`, `run`, on `ArrayOps`, `NetOps` and `MainScan` |
| `CallStack` | calls between methods that share nothing (abstract) |
| `Calls` | `Interpreter` next to a record of the calls in progress; implements `CallStack` |
| `Debugger` | `ijdb.c` around `Calls` |
| `Session` | what the pointers and descriptors of a process own, over its whole life: `main.c`, `terminate.c`, the loaders, the commands of `ijdb.c` that load, restart and quit |
| `ArrayOpsProofs`, `ArrayHeapProofs` | lemmas about the operators of `ArrayOps`, theorems about `ArrayHeap` |
| `MarkSweepProofs` | theorems about `MarkSweep`, that it implements `Collection` among them |
| `InterpreterProofs` | theorems about `Interpreter`: types, registers, references, and the collector inside the machine (`DeepArraysSurvive`) |
| `CallsProofs` | theorems about `Calls`, that it implements `CallStack` among them |
| `MainScanProofs` | the scan of main and the frame it makes (`MainVariablesFit`) |
| `DebuggerProofs` | theorems about `Debugger`: backtrace, prompt, bounds |
| `SessionProofs` | theorems about `Session`: what is freed twice, lost, or left |
| `ArrayHeapMC`, `MarkSweepMC`, `InterpreterMC`, `CallsMC`, `AnyProgramsMC`, `DebuggerMC` | instances: constants, an assembler of a few lines, families of programs, heaps |

**ArrayOps.** A table is a record `[size, values]`; the map flag and the value of
a slot are always written together, so `values[i] = <<>>` stands for an
unclaimed slot. `RefsIn` is the test with the mask `0xFF00000F` and the
extraction of the index. The two loops of `mark_arrays` are given by what they
compute: `Roots` is the first loop, `Scanned` is the set of arrays the ascending
second loop looks into (the least set that holds the roots and is closed under
links to *higher* indexes), `Marked` adds what those arrays link to.
`MarkAborts` is the exit in `marr_check_marked`. The operations that may collect
(`CountCreation` = the counter in `get_free_index`, `Allocate` = an allocation
with its retries, `marr_resize`, `MakeRoom`, `arr_create`) pass a *result*
`[ok, mem, creations]` along; `ok` is FALSE once `destroy_ijvm_now` was called.
How often the allocator refuses is chosen from `Refusals`: 0, 1 and 2 are all
the cases there are, since a second refusal follows a collection that found
nothing more to free. A slot is claimed before `Encodes` tests whether a
reference can encode its index, as in `arr_store`; the test is the one of the
code, a mask, and lets pass indexes whose high bits are bits of the pattern
(`HiddenBits`): index 2^21, say, whose reference is that of array 0.

**NetOps.** The same for connections: `NetEncodes` is `net_check_ref`, and comes
after the claim. When it fails, `destroy_ijvm_now` runs `net_close` on the
reference that has just failed, which calls `destroy_ijvm_now` again:
`DestroyRecursively` of `Interpreter` closes what lies below and leaves the
machine in the status `"recursing"`, which has no next step: only the end of the
C stack ends it.

**ArrayHeap.** One action per instruction that touches the stack or the arrays;
which one comes next is free. The stack is `stack[0 .. sp]` as a sequence.

**MarkSweep.** Extends `ArrayHeap` by the loop variables of a collection: `at`
(the index of the running loop), `el_i`, `marked_arrays`. One action reads one
word of the stack, one element, or one slot. The refinement mapping into
`Collection` shows the heap as it was until the sweep is over; that the least
sets of `ArrayOps` are what the loops compute, and that the process is ended by
exactly the words `MarkAborts` names, is thereby checked and not assumed.

**MainScan.** The loop of `init.c:30-119` as a function from round to state
(`ScanRound` is its switch). The flag of WIDE is kept until the next variable,
as in the code. `Layout`, `MethodAddresses` and `InPlainMain` read the same bytes
the way the machine does; they are the reference the scan is compared with. A
place of the layout is a position together with the flag of WIDE the machine has
there, so that an argument byte that happens to be the opcode of WIDE is no
prefix.

**Interpreter.** One action per `exec_op_*`, together with the `step` around it
(`Fetch`): the state changes between two calls of `step`. Only WIDE calls `step`
from inside, so its inner step is an action of its own, the one that starts with
`next_op_wide = TRUE`; `run` does not ask `finished` in between, nor does the
model. A machine value (`Machine`) is threaded through the pushes and
allocations of an instruction, and `Become` makes it the next state, or ends the
run if it failed. Memory that was never written holds words from `Junk`, memory
behind the code holds `JunkBytes`. A system call of the network may fail at any
time. A write outside the stack would be undefined behaviour and ends the
behaviour in the status `"undefined"`. `init_ijvm(p)` is the set of machines that
initialisation may leave behind: how large the first frame and the stack are is
what the scan makes of the program.

**Calls.** The machine with one auxiliary variable, `frames`, that records at
each call what the caller had: its registers, and which method it called with
which arguments. Nothing reads it but the properties (and `Misuse`). The
behaviours are those of programs that take only what is theirs: an instruction
pops words its own method pushed, main does not return, the code does not end in
WIDE. A call or a return is a step of `run` like any other: it asks `finished`
first, unless WIDE is in between. Where a program is about to do otherwise than
said the behaviour stands still (`Misuse`); what the machine does then is part of `Interpreter` and of its runs.
The refinement mapping into `CallStack` cuts the one stack into the local
variables and operands of each method in progress (`Method`).

**Debugger.** `dbg_state` is `g_dbg_state`; `mode` says where in a command the
debugger is. A command that runs the machine is one action per `step`
(`dbg_step`), which first does what `create_call_history` does on the state
before the step, as the code has it; `prefixed_step` is the step inside the step
of WIDE, which the debugger does not see. The history is the sequence of words
up to `call_history_top`; `call_history_size` and `allocated` differ after a
refused `realloc`. `Backtrace` reads the history from its top as
`print_func_calls` does, and stops where a count would lead below the history:
what the code prints of the memory in front of it is left out. Loads and
restarts are `LoadFile`; `memory` remembers whether another `destroy_ijvm` would
free twice. A step that reads or writes outside the code or the history, before
it (`CanLook`, `InItsMemory`), in it, or in the look that `dbg_step` takes at a
breakpoint after it (`ReadsBehind`), ends the behaviour in the mode `"broken"`;
the mode `"gone"` is a process that has ended. `quit_flag` keeps the loop of
`continue` going, as in the code, so a refused allocation leads there as well.

**Session.** Every operation is a *script*: the sequence of its calls of
`malloc`, `free`, `fopen`, `close` and assignments of pointers, in the order of
the code. A script is run one step at a time, and `interrupt_handler` may replace
it between any two of them. `owner` knows of each pointer whether it is NULL, owns
memory, or is stale. The pointers include the locals of functions (`Locals`): a
new array is in `new_array` from its `calloc` on, and in the table only when
`store_array` has assigned it; in between the table is made or grows
(`make_room`), is refused its map, its values or both (`marr_resize_refusals`),
and the collector runs (`Collecting`), each as a script of its own that leads from
one stage of the creation (`arr_store`, `arr_full`, `arr_again`) to the next.
While a table grows, the old map and values are in locals, and so is what only the
old map leads to. Connections are stored in the same way, and only then bound or
connected (`connections`). Where an operation may fail, it begins with any of the
scripts it could come to (`load_bin_failures`, `load_debug_data_failures`,
`init_ijvm_exits`, `save_last_prog_refused`, the refusals in `reallocate` and
`grow_stack`). `array` stands for all arrays that are stored, and one connection
for all of them: the loops that free them treat each alike. A process ends in
`"exited"` by `destroy_ijvm`, or is `"given_up"` without it: `main` when a stream
cannot be opened, and the debugger when an allocation is refused and the loop of
its `main` ends on `quit_flag`.

A definition marked `Wrong:` repeats the next one with a slip in it (an
off-by-one, a dropped check, a swapped order). No specification uses it; it
documents which property notices that slip (`PROJECT.json`, `mutants`).

## 3. What is checked

| Run | Question | Bounds |
|---|---|---|
| `ArrayHeap` | Do collections by GC, by the counter and by a refusing allocator keep what they must and remove what they can? | two references, tables of 1, 2 and 4 slots, a number that looks like a reference beyond the first table, stack of 5, collection at every third claim, 0 or 1 refusals |
| `MarkSweep` | Do the loops compute what `ArrayOps` says, and end? | every heap of three slots whose arrays hold up to two references (one to no slot), seven stacks of up to three words |
| `Calls` | Does the one stack behave like methods that share nothing, does main find its variables, and do arrays survive whatever the methods do? | every method of up to 4 instructions out of 10; programs as a compiler writes them, with every instruction; stack of 8 words growing to 64, two array references, two connections, 0 or 1 refusals |
| `AnyPrograms` | Do types and registers survive any bytes? | all programs of up to 3 bytes out of 14 and of 4 bytes out of 10 about frames, if their main has at most 4 variables; the compiled programs; two values for what lies behind the code |
| `RunEnds` | Does a run without backward branches end, and why? | methods of up to 2 instructions, compiled programs, recursions, one of them endless |
| `Debugger` | Does the debugger know what the machine does, and do its commands come back? | eleven programs (nested calls, recursion, a HALT in a call, prefixes, a loop, running off the end, no header, no constant, no code), one breakpoint out of four, one of them the end of a program, two loads or restarts |
| `Session` | What is freed twice, what gets lost, what is left at the end? | none but the abstraction: any number of operations, loads and restarts (a million states) |

Why these bounds are enough to be interesting: with two references the table
passes through empty, full, doubled, larger than there are references, and the
test that fails behind a claim; with three
arrays there is a root, a link, and a link from a linked array, in either
direction, and a link of an array to itself; the period of the collector is 1 or
2 so that it strikes within a creation or in its retry; a stack of 8 words is
outgrown inside a link area at each of its four pushes, depending on the depth;
64 words are exhausted by the recursions. Two loads are a load and a restart, or
a failed load and the next one. `WordMax` is small so that the sets are finite;
it is the program's in the proofs.

The properties:

* `RootedKeepContents` (ArrayHeap): no instruction loses or changes an array that
  is referenced two words below the top of the stack, or by an element of such
  an array. Two, because NEWARRAY pops its count before it allocates and the
  collector does not read the word at `sp`.
* `CollectorLeavesNoGarbage`: what GC leaves was reachable, cycles included.
* `AscendingHeapsAreExact` (MarkSweep): the one pass is exact if links lead upwards.
* `ImplementsCollection`, `LoopsOnTrack`, `HeldWhileSweeping`, `CollectionEnds`
  (MarkSweep): the loops are the one step; between any two reads the marks are
  those of the words and elements read so far, and the heap is the old one
  without the slots swept so far; at no moment of a sweep is an array missing that a word
  of the stack, or an element of such an array, refers to; the loops end.
* `RefsLeadBack` (ArrayHeap, Interpreter): each array and each open connection is
  reached by its own reference, so no two share one. The table may be larger than
  there are references, the slot is claimed before the test, and the test alone
  would let two indexes share one; what saves it is that the lowest free slot is
  taken, and that the first index without a reference is one the test refuses. A
  run that opens one connection too many ends in the recursion of
  `destroy_ijvm_now`, with just that one open.
* `DeepArraysSurvive` (Interpreter): an array referenced under the top survives
  any instruction, also those that collect for a connection or for the stack.
* `RegistersInStack`: `sp`, `lv`, `fp` stay in the stack for any program.
* `ImplementsCallStack` (Calls): locals and operands of a waiting method are not
  changed, arguments arrive in order, the other locals are 0 in whatever memory
  they lie, and a return puts one word in the place of the arguments.
* `LinksIntact`, `FramesNest`, `ReturnsSucceed`, `NeverCorrupts` (Calls): what
  that rests on: link areas that nobody overwrites, frames that do not overlap,
  returns that are not refused, writes that stay in the stack.
* `MainVariablesFit`: in code that has main first and WIDE only before variables,
  the scan has counted the variable that the next instruction of main uses. Both
  conditions are needed: the scan keeps the flag of a WIDE that precedes another
  instruction until the next variable, and it stops at the first method address
  it has met, be it inside main.
* `RunEnds`: a run ends if no branch leads back. `NeverGoesBack` is why: each
  instruction starts at one of finitely many places (a resume address in the code
  for each method in progress, and no more methods than the stack has room for),
  and every step of the run, calls and returns included, moves it on in the order
  that compares the outermost method first.
* `BacktraceShowsCalls` (Debugger): the backtrace begins with the calls in
  progress and their arguments, and ends with main; on the first run it shows
  nothing else.
* `PromptKnowsFinished`: a finished machine is never resumed.
* `StepsStayInBounds`: a step of the debugger, the looks before and after it
  included, stays in the code and in the memory of the history, if all is
  `InOrder`: the program has code and prefixes no calls, the methods called are
  there (`CalledWell`; the debugger reads the number of arguments as a signed
  number and the machine as an unsigned one, so a method with 2^15 arguments or
  more is not among them), the breakpoints are in the code, and no allocation was
  refused. With a breakpoint at the end of the code, for one, a program that runs
  to its end is read behind it (`src/ijdb.c:363`).
* `CommandsReturn`: a command comes back to the prompt, or ends the process, if
  every branch back of the program leads to a breakpoint
  (`BackwardBranchesBreak`), at whatever depth of calls it is taken. A read out of
  bounds does not count as an end. After a refused allocation it would be false:
  `quit_flag` keeps the loop of `ijdb.c:385-389` going until it reads behind the
  code. That is not `InOrder`. A breakpoint on an instruction behind WIDE does not
  stop a run: the debugger looks only when the step of WIDE is over.
* `IjvmFreesOnce`, `DebuggerFreesOnce`, `OnlyFilesAreLost`, `ExitFreesAll`
  (Session): `ijvm` frees nothing twice unless SIGINT strikes inside one of five
  operations that free before they reset; the debugger does so only to pointers
  of the machine and only after a failed load or a collection; while no memory is
  refused, only files, idle sockets, accepted connections and the names of
  symbols that were looked up get lost, and when some was, half of a new table,
  the breakpoints and the copy of a path as well; an exit by `destroy_ijvm` frees
  all that the machine's own pointers lead to. It does not free what only a local
  leads to, when SIGINT strikes or a table is refused inside a creation or a
  growth (`src/array.c:85-97`, `src/net.c:41-50`, `src/marr.c:70-94`); the second
  part of `ExitFreesAll` says that locals hold nothing outside of these.

Fairness. `FairCSpec` has weak fairness of `Proceed`: the loop in `run` does
nothing but call `step` until `finished`. `DSpec` has weak fairness of the steps
inside a command, and none of the commands: nobody is asked for anything before
the command is over, but a user may never type the next. `GcSpec` has weak
fairness of the steps of a collection, which nothing interrupts. The programs of
these runs do not read input or use the network, so that no instruction waits
for somebody else.

Five runs end in a violation: the code does not do what a document says.

| Run | What happens | Where it is said otherwise |
|---|---|---|
| `StackRefs` | GC frees an array whose reference is the top word of the stack (`src/array.c:197`) | `docs/isa.md:28`, `docs/isa_extensions.md:44` |
| `LinkedRefs` | GC frees an array behind a link to a lower index (`src/array.c:214`) | `docs/isa_extensions.md:49` |
| `LookAlikeAborts` | a number that looks like a reference beyond the table makes GC end the program (`src/marr.c:100`) | `docs/isa_extensions.md:28`, `:59` |
| `Reinit` | the debugger frees the memory of a machine twice (`src/cpu.c:137`, `src/array.c:178`) | `include/init.h:15`, `include/terminate.h:8` |
| `BacktraceAfterRestart` | a program restarted inside a call shows the calls of its first run as well (`src/ijdb.c:768`) | `docs/debugger.md:16` |

Three more disagreements are part of the model without a run of their own: WIDE
as the last byte makes `step` read an opcode behind the code
(`src/interpreter.c:318` against `include/interpreter.h:32`; `AnyPrograms` runs
through it with two values for that byte), a method that the last instruction of
the code calls is refused its return (`src/interpreter.c:241`; the exception in
`ReturnsSucceed`), and ISUB subtracts the top word from the second
(`src/interpreter.c:162` against `docs/isa.md:14`).

## 4. What is proved

Each theorem holds for every value of the constants that the assumptions allow;
they are listed in `PROJECT.json` (`theorems`), most of them next to the run
that checks the same property on a small instance.

| Module | Theorems |
|---|---|
| `ArrayHeapProofs` | `TypeCorrect`, `ReferencesLeadBack`, `RootedArraysAreKept`, `NoGarbageIsLeft`, `SinglePassIsExactUpward`: `TypeOK`, `RefsLeadBack`, `RootedKeepContents`, `CollectorLeavesNoGarbage`, `AscendingHeapsAreExact` |
| `MarkSweepProofs` | `GcTypeCorrect`, `LoopsStayOnTrack`, `NothingHeldIsSwept`, `LoopsImplementCollection`: `GcTypeOK`, `LoopsOnTrack`, `HeldWhileSweeping`, `ImplementsCollection` |
| `InterpreterProofs` | `MachineTypeCorrect`, `RegistersStayInStack`, `ReferencesStayDistinct`, `ArraysInTheStackSurvive`: `TypeOK`, `RegistersInStack`, `RefsLeadBack`, `DeepArraysSurvive`, for every program |
| `CallsProofs` | `LinksStayIntact`, `FramesStayNested`, `OwnWordsOnly`, `ReturnsAreAccepted`, `StackImplementsCalls`, `RunsMoveOn`: `LinksIntact`, `FramesNest`, `NeverCorrupts`, `ReturnsSucceed`, `ImplementsCallStack`, `NeverGoesBack` |
| `MainScanProofs` | `MainFindsItsVariables`: `MainVariablesFit`, for every program |
| `DebuggerProofs` | `BacktraceIsRight`, `PromptKnows`, `StepsInBounds`: `BacktraceShowsCalls`, `PromptKnowsFinished`, `StepsStayInBounds`, for every program without the bytes of NEWARRAY, GC, NETBIND, NETCONNECT |
| `SessionProofs` | `IjvmIsSafe`, `DebuggerIsSafe`, `LittleIsLost`, `ExitFreesWhatIsStored`: `IjvmFreesOnce`, `DebuggerFreesOnce`, `OnlyFilesAreLost`, `ExitFreesAll` |

Assumptions. `WordMaxAssumption`, `ArrayAssumption`, `HeapAssumption`,
`CollectionAssumption`, `NetAssumption`: the constants have their types, references
are words and 0 is none of them. `MachineAssumption`: a program is a sequence of
bytes and one of words, numbers of 16 bits and the sizes a stack starts with are
words, the margin above the variables of main is at least 4 words (it is 1024
bytes, `src/init.c:141`). `DebuggerAssumption`: no code that is
debugged holds the byte of NEWARRAY, GC, NETBIND or NETCONNECT, be it as an
instruction or as an argument, so the theorems about the debugger are about such
programs only; what the pointers of arrays and connections do over several lives
of a machine is told in `Session`. `Session` itself assumes nothing: a process that is neither program does
nothing. TLC evaluates the assumptions in every run.

**The collector as one step (`ArrayHeapProofs`).** `TypeOK` is inductive by
itself. Everything a creation does is a chain of four kinds of steps on results:
a collection, a count, an allocation, a growth. The lemmas of `ArrayOpsProofs`
show for each that it keeps the type and *keeps* (`Keeps`) every array that is
held by the words that protect it, where held means referenced by one of them or
by an element of an array that is; that `Keeps` is transitive as long as the
protecting words stay the same (`StepsCompose`); and that a claim takes a free
slot. A held array is marked (`HeldIsMarked`) because a root is scanned and what
a scanned array links to is marked. `RefsLeadBack` needs a
strengthening (`LowIndexes`): all claimed indexes are below `ARRAYS_MAX_NUM`. A
creation claims the lowest free index; if all that are claimed are below the
limit, it is at most the limit itself, and the test refuses that one. `NoGarbageIsLeft` uses
that the marked arrays are reachable on any heap (`MarkedIsReachable`), and
`SinglePassIsExactUpward` that on an ascending heap a set is closed exactly if it
is upward closed (`AscendingIsExact`).

**The loops (`MarkSweepProofs`).** The invariant is `GcTypeOK` with
`LoopsOnTrack`: the marks after some reads are the references among the words
read. For the second loop those words are the elements of the `Scanned` arrays
below the index of the loop; that the loop enters exactly the arrays of the least
set `Scanned` is the heart of it, and is shown by the closure of that set in one
direction, and by the least set being contained in every closed one in the
other. A process ends in a mark exactly at a word `MarkAborts` names. What is
marked at the end is `Marked`, so the last step of the sweep is the step of
`Collection`, and all others stutter.

**The machine (`InterpreterProofs`).** `IInv` is `TypeOK`, `RegistersInStack`,
`LowIndexes` (as above, for connections too; a run that recurses has just the
connection `NET_REFS` left), and that the program is one of `Programs`. It is shown on the
machines that instructions compute with (`Good`): a pop, a push with its growths
and the collections in them, a jump, a creation lead from a good machine to a
good one. The start is the difficult part: the first frame lies inside the first
stack because the scan of main never counts more than 2^15 variables. The scan is
a recursive function; that there is such a function, and that each of its rounds
has the shape (`IsScan`), is shown by taking a least round for which it fails.

**Arrays of the program (`InterpreterProofs`, last part).** `DeepIn` follows one machine
through an instruction: the words up to some index are still where they were, and
the arrays they hold are still there. `ArraysInTheStackSurvive` then says of
every instruction, whatever it makes room for, what `RootedArraysAreKept` says of
the arrays alone.

**Calls (`CallsProofs`).** The invariant `CInv` adds to `IInv` that the frames
are *apart*: the first operand of a method lies at or under the first local
variable of every later one; and that the links are intact. It needs that
addition: links stay intact only if nobody writes there. An instruction that is
no call works on its own words (`OwnIn`: all words below its locals and in its
link area stay what they were); all 31 of them do, because `TakesItsOwn` counts
what they pop (`Needs`) and because a local variable of an index below `nv` lies
below `fp`. The words of a link area are foreign to the method above it
(`LinksAreForeign`), so an instruction keeps them; a call writes above all that
waits, and a return reads what the call wrote. For the refinement, a method is
the picture of a segment of the stack (`Method`); an instruction changes the
picture of the running method only (`WaitingStays`), a call cuts the arguments
off one picture and begins another, a return takes one away and puts a word on
the one below.

**A run moves on (`CallsProofs`, `RunsMoveOn`).** `OwnIn` also says that an
instruction of a program that never branches back leads behind itself (`Onward`).
A call starts a method, and its caller will resume behind the call
(`CallResumes`); an intact link means that a return resumes there
(`ReturnResumes`). Every frame takes the four words of its link area, so there
are at most as many as fit (`DepthFitsStack`). Therefore the resume addresses,
outermost method first, grow in the order of words with every step: the ranking
function of a run. That the run then ends is one temporal step more, with weak
fairness of `Proceed`, whose ENABLED is out of the prover's reach.

**The variables of main (`MainScanProofs`).** Two functions walk through the
code: the rounds of the scan and the places of the layout. Up to an instruction
of main they go in lockstep (`Lockstep`): round *n* stands at place *n* and has
the flag of WIDE the machine has there, because a WIDE is followed by the variable
that takes the flag away (`WideBeforeVariable`), and the scan is not over, because
every method address it may have met lies behind that instruction. So one round
more counts the variable, and what is counted is not forgotten (`CountsStay`). The
rest is about the machine: `MainCounted` says that the first method in progress
has as many variables as a scan of its code counted. An instruction keeps the
frame it runs in, a call leaves the registers of main in the record of frames,
and a return to main restores them (`MainKept`, from `CInv`).

**The debugger (`DebuggerProofs`).** `DInv` says that while the debugger is
there, `CInv` holds; what its state of the program, `mode` and `finished` have
to do with each other (`KnowsFinished`); that a prefixed instruction has its
prefix in front of it (so that in a program without prefixed calls none is
missed); and that the history is the records of a list of calls, one behind the
other, that ends with the calls in progress (`HistoryHoldsCalls`) and fits its
memory (`HistoryFits`). A record tells its own length, so what a return cuts off
is the last record (`RecordsShrink`), whatever calls of an earlier run lie under
it. That `Backtrace` prints this list is shown like the scan of main: the
recursive function exists (`PrintedExists`), and there is no least record that it
would print as something else (`BacktraceReads`).

**Sessions (`SessionProofs`).** The scripts call for Hoare's argument:
`Leads(L, M, A, s, B)` says that the script *s*, begun with pointers as in *A*,
frees no pointer of *M* twice, loses nothing but files and what is in *L*, and
ends with pointers as in *B*. It carries an annotation between any two calls, so
whatever a signal interrupts is covered. Scripts compose (`LeadsOn`). A set of
pointer states is a `Box`: which pointers are surely null, surely not live, surely
not stale; each operation has one lemma that says how it changes the box, proved
from the lemmas of the operations it calls, as the code is written. `SInv` says
that the rest of the script in progress leads to what its end promises (`After`):
between two operations nothing in `Safe` is stale and the locals in `Kept` are
NULL, all of them but the one that is yet to be stored; at the end nothing of the
machine is live. `Safe` is all pointers; the debugger's own once a load has failed
or the program has collected; and none once SIGINT struck inside an operation that
frees before it resets. `Losable` is empty until memory was refused. The other
operations of `ijvm` consist of calls that free no pointer (`Harmless`) and leave
none stale, so `destroy_ijvm` may take over in the middle of them. The run of
`Session` visits every state of the module, so here the proof does not extend what
is known by larger instances; it says why each operation is safe, in which states,
and which of them break the promise.

Every invariant and every action property of a passing run has a theorem. Only
model-checked are the liveness properties `CollectionEnds`, `RunEnds` and
`CommandsReturn`: fairness needs ENABLED, which the provers do not handle.

## 5. What is left out

* What is printed, apart from the backtrace: `arr_print`, `net_print`, the
  printers and `op_decode` of `util.c`, `info` and `help` of the debugger.
* The contents of files: the loaders are modelled by what they allocate and where
  they fail. Signature, byte order, the constants and the code appear as the
  program they leave behind; symbols, their lookup by address or by name, and the
  text of a command do not appear (three entries of `hazards` say what that
  leaves open).
* The bytes that are sent; the time a system call takes.
* A signal in the debugger: it installs no handler.
* What a process does after a double free, or after a write out of bounds: the
  behaviour ends there.
* Calls behind WIDE in the debugger: such a program is run, but the properties of
  the history exclude it (`NoPrefixedCalls`), since the debugger misses the call.
* `malloc` of a socket (`src/net.c:41-42`) and of the call history
  (`src/ijdb.c:752`) is not checked by the code and is taken to succeed. So are the
  `calloc` of `marked_arrays` (`src/array.c:275`), whose refusal ends the process
  inside the collection, and, in `Interpreter`, the `malloc` of the first stack
  (`Session` has its refusal, `init_ijvm_exits`). `calloc(0)` is taken to return a
  pointer, as the C library in use does.
* SIGINT between a refused map and its restoration: `destroy_ijvm` then reads
  `map[0]` through NULL (`src/marr.c:70-75`, `:105`). In `Session` it finds nothing
  to free there.
* The FILE that `load_bin` opens for itself; it closes it on every way out.
* The stack is 2^30 words at most (`STACK_MAX_SIZE`); a branch or an index that
  would overflow an `int` is not reachable below that.
* `build_afl.sh` and `docs/fuzzing.md`: no code of the machine.

## 6. Plan

1. The calls behind WIDE in the debugger: what its history is then.
