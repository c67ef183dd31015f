------------------------------- MODULE Debugger -------------------------------
(***************************************************************************)
(* The debugger (src/ijdb.c) around the machine of Calls: the state of the *)
(* program, breakpoints, commands, and the call history it keeps for       *)
(* backtraces by looking at the instruction before each step.              *)
(*                                                                         *)
(* A command that runs the machine is a series of actions, one for each    *)
(* step(), between two prompts; nothing else happens in between.  The      *)
(* commands that only print (info, backtrace, help) change no state: what  *)
(* backtrace prints is the operator Backtrace.  The streams of input and   *)
(* start, and the memory behind the pointers, are the subject of Session;  *)
(* here memory only tells whether destroy_ijvm may free it once more.      *)
(***************************************************************************)
EXTENDS Calls

CONSTANTS
    HISTORY_MARGIN,   \* ijdb.c:284: spare words of a call history that grows
    Addresses,        \* what a user may give as the address of a breakpoint
    MaxBreakpoints,   \* bound: breakpoints
    MaxLoads          \* bound: programs loaded or restarted

(* No code holds the byte of an instruction that makes an array or a       *)
(* connection, or collects: the second life of the pointers of the         *)
(* collector is told in Session.                                           *)
ASSUME DebuggerAssumption ==
    /\ HISTORY_MARGIN \in Nat
    /\ MaxBreakpoints \in Nat /\ MaxLoads \in Nat
    /\ \A p \in Programs : \A i \in 1 .. Len(p.code) :
          p.code[i] \notin {OP_NEWARRAY, OP_GC, OP_NETBIND, OP_NETCONNECT}

VARIABLES
    dbg_state,   \* g_dbg_state; allocated counts the words that really lie
                 \* behind call_history, brkpts is the array and its number
    mode,        \* "prompt", "stepping", "resumed" (before the first step of
                 \* continue or run), "continuing", "gone" (the process has
                 \* ended) or "broken" (it has left its memory: the language
                 \* gives the rest no meaning)
    memory,      \* the pointers of the machine: "none" (NULL), "live", or
                 \* "freed", but still set
    restarted,   \* the program was restarted since it was loaded
    loads        \* attempts to load or to restart so far

dvars == <<cvars, dbg_state, mode, memory, restarted, loads>>
machine_vars == <<vars, frames>>

init_debugger ==
    [quit_flag |-> FALSE, prog_state |-> "EMPTY", brkpts |-> <<>>,
     call_history |-> <<0, 0>>, call_history_size |-> 2, allocated |-> 2]

DInit ==
    /\ CInit /\ status = "running"
    /\ dbg_state = init_debugger
    /\ mode = "prompt" /\ memory = "none" /\ restarted = FALSE /\ loads = 0

-----------------------------------------------------------------------------
(* Loading                                                                 *)

(* Something is freed twice, or used out of its bounds. *)
Breaks ==
    /\ Corrupt
    /\ mode' = "broken"
    /\ UNCHANGED <<program, next_op_wide, frames, dbg_state, memory, restarted>>

(* destroy_ijvm_now ends the debugger, too. *)
Exits ==
    /\ DestroyNow
    /\ mode' = "gone"
    /\ UNCHANGED <<program, next_op_wide, frames, dbg_state, memory, restarted>>

(* load_bin fails before it allocates, and the machine is destroyed once   *)
(* more; or the symbols cannot be read, and only then it is destroyed.     *)
LoadFails ==
    /\ dbg_state' = init_debugger
    /\ mode' = "prompt"
    /\ memory' \in IF memory = "none" THEN {"none", "freed"} ELSE {"freed"}
    /\ UNCHANGED <<machine_vars, restarted>>

(* The machine is what init_ijvm leaves behind; element_creations is the   *)
(* one static variable of the machine that nothing resets.                 *)
LoadWorks(p, dbg, next_mode) ==
    /\ \E r \in init_ijvm(p) :
          r.status = "running" /\ cpu' = r.cpu /\ status' = r.status
    /\ program' = p
    /\ next_op_wide' = FALSE
    /\ arr_mem' = NoArrays /\ net_conn' = NoConns
    /\ frames' = <<>>
    /\ dbg_state' = dbg /\ mode' = next_mode
    /\ memory' = "live"
    /\ restarted' = (dbg.prog_state = "STARTED")
    /\ UNCHANGED element_creations

(* The scan for the variables of main ends the process. *)
ScanExits(p) == memory = "none" /\ (\E r \in init_ijvm(p) : r.status # "running") /\ Exits

(* destroy_ijvm, init_ijvm and load_debug_data.  A second destroy_ijvm     *)
(* with no init_ijvm in between frees the same memory twice: before a load,*)
(* or after one that fails when a part of the memory was allocated.        *)
LoadFile(p, dbg, next_mode) ==
    /\ loads < MaxLoads /\ loads' = loads + 1
    /\ \/ memory # "freed" /\ (LoadWorks(p, dbg, next_mode) \/ LoadFails)
       \/ ScanExits(p)
       \/ Breaks

exec_file ==
    /\ mode = "prompt"
    /\ \E p \in Programs :
          LoadFile(p, [init_debugger EXCEPT !.prog_state = "LOADED"], "prompt")

-----------------------------------------------------------------------------
(* Commands                                                                *)

Stopped == dbg_state.prog_state \in {"STARTED", "FINISHED"}

(* restart_debugger keeps what the debugger knows, the history included.   *)
Restarted == [dbg_state EXCEPT !.prog_state = "STARTED"]

Start(next_mode) ==
    /\ mode = "prompt"
    /\ \/ Stopped /\ LoadFile(program, Restarted, next_mode)
       \/ /\ dbg_state.prog_state = "LOADED"
          /\ dbg_state' = Restarted
          /\ mode' = next_mode
          /\ UNCHANGED <<machine_vars, memory, restarted, loads>>

exec_start == Start("prompt")

(* run starts, and resumes a program that could be started. *)
exec_run == Start("resumed")

Resume(next_mode) ==
    /\ mode = "prompt" /\ dbg_state.prog_state = "STARTED"
    /\ mode' = next_mode
    /\ UNCHANGED <<machine_vars, dbg_state, memory, restarted, loads>>

exec_step == Resume("stepping")
exec_continue == Resume("resumed")

(* The array of breakpoints grows by one; if it cannot, the loop of main   *)
(* ends after the command.                                                 *)
exec_break ==
    /\ mode = "prompt" /\ dbg_state.prog_state # "EMPTY"
    /\ Len(dbg_state.brkpts) < MaxBreakpoints
    /\ \/ \E a \in Addresses :
             dbg_state' = [dbg_state EXCEPT !.brkpts = Append(@, a)] /\ UNCHANGED mode
       \/ dbg_state' = [dbg_state EXCEPT !.quit_flag = TRUE] /\ mode' = "gone"
    /\ UNCHANGED <<machine_vars, memory, restarted, loads>>

exec_quit ==
    /\ mode = "prompt"
    /\ IF memory = "freed"
       THEN Breaks /\ UNCHANGED loads
       ELSE /\ dbg_state' = [dbg_state EXCEPT !.quit_flag = TRUE]
            /\ mode' = "gone"
            /\ UNCHANGED <<machine_vars, memory, restarted, loads>>

-----------------------------------------------------------------------------
(* The call history                                                        *)

Reversed(s) == [k \in 1 .. Len(s) |-> s[Len(s) - k + 1]]

(* The arguments from the top of the stack down, their number, the method. *)
CallRecord(args, entry) == Reversed(args) \o <<Len(args), entry>>

(* Wrong: the address and the number of arguments are not counted. *)
RecordSizeShort(n) == n

RecordSize(n) == n + 2

(* The size after a call of n arguments; realloc may refuse a larger one,  *)
(* and the size says otherwise from then on.                               *)
store_func_call(refused) ==
    LET needed == Len(dbg_state.call_history) + RecordSize(Arguments)
        grows  == needed > dbg_state.call_history_size
        size   == IF grows THEN needed + HISTORY_MARGIN ELSE dbg_state.call_history_size
        stored == [dbg_state EXCEPT
                      !.call_history = dbg_state.call_history
                                         \o CallRecord(TopWords(Arguments),
                                                       get_constant(arg_short(1))),
                      !.call_history_size = size,
                      !.allocated = IF grows THEN size ELSE dbg_state.allocated]
    IN  IF grows /\ refused
        THEN [dbg_state EXCEPT !.quit_flag = TRUE, !.call_history_size = size]
        ELSE stored

(* Wrong: the arguments of the call stay behind. *)
remove_func_and_count ==
    LET h == dbg_state.call_history
    IN  [dbg_state EXCEPT !.call_history = SubSeq(h, 1, Len(h) - 2)]

remove_last_func_call ==
    LET h == dbg_state.call_history
    IN  [dbg_state EXCEPT !.call_history = SubSeq(h, 1, Len(h) - 2 - h[Len(h) - 1])]

Op == CodeByte(cpu.pc)

(* store_func_call looks the method up before the instruction does, and    *)
(* asks only whether there is the constant.                                *)
HasHeader ==
    /\ HasArgs(2)
    /\ get_constant(arg_short(1)) \in 0 .. CodeSize - 2
    /\ CodeShort(get_constant(arg_short(1))) >= 0

(* The byte at the pc, the method of a call and the history are there. *)
CanLook ==
    /\ cpu.pc < CodeSize
    /\ Op = OP_INVOKEVIRTUAL => HasArgs(2) /\ (IsConstant(arg_short(1)) => HasHeader)
    /\ Op = OP_IRETURN => Len(dbg_state.call_history) >= 2

CallsNothing == Op = OP_INVOKEVIRTUAL /\ ~IsConstant(arg_short(1))

Recorded(refused) ==
    CASE Op = OP_INVOKEVIRTUAL -> store_func_call(refused)
      [] Op = OP_IRETURN       -> remove_last_func_call
      [] OTHER                 -> dbg_state

InItsMemory(dbg) == Len(dbg.call_history) <= dbg.allocated

-----------------------------------------------------------------------------
(* Steps                                                                   *)

(* step(), which does not ask whether the machine has finished. *)
step ==
    \/ Call
    \/ Return
    \/ Step /\ Op \notin {OP_INVOKEVIRTUAL, OP_IRETURN} /\ UNCHANGED frames

at_breakpoint(dbg, pc) == pc \in {dbg.brkpts[k] : k \in 1 .. Len(dbg.brkpts)}

(* Wrong: the loop of continue looks at the end of the program only. *)
LoopEndsLate(dbg, pc, fin) == fin /\ ~dbg.quit_flag

(* When the loop of dbg_run ends; quit_flag keeps it going. *)
LoopEnds(dbg, pc, fin) == (at_breakpoint(dbg, pc) \/ fin) /\ ~dbg.quit_flag

(* Wrong: only a command that steps notices that the program has ended. *)
EndStateOfStep(dbg, fin) ==
    IF fin /\ mode = "stepping" THEN [dbg EXCEPT !.prog_state = "FINISHED"] ELSE dbg

EndState(dbg, fin) == IF fin THEN [dbg EXCEPT !.prog_state = "FINISHED"] ELSE dbg

(* At a breakpoint dbg_step reads the next byte once more, to name it.     *)
ReadsBehind(dbg) == at_breakpoint(dbg, cpu'.pc) /\ cpu'.pc >= CodeSize

(* The rest of dbg_step and dbg_run, behind a step.  The step of a WIDE is *)
(* over when the one of the instruction behind it is.                      *)
AfterStep(dbg) ==
    LET over == mode = "stepping" \/ LoopEnds(dbg, cpu'.pc, finished')
        back == IF dbg.quit_flag THEN "gone" ELSE "prompt"
    IN  IF status' = "undefined" THEN dbg_state' = dbg /\ mode' = "broken"
        ELSE IF status' # "running" THEN dbg_state' = dbg /\ mode' = "gone"
        ELSE IF next_op_wide' THEN dbg_state' = dbg /\ UNCHANGED mode
        ELSE IF ReadsBehind(dbg) THEN dbg_state' = dbg /\ mode' = "broken"
        ELSE IF over THEN dbg_state' = EndState(dbg, finished') /\ mode' = back
        ELSE dbg_state' = dbg /\ mode' = "continuing"

Commanded == mode \in {"stepping", "resumed", "continuing"}

(* The step of the next instruction, after a look at it. *)
dbg_step ==
    /\ Commanded /\ Disciplined /\ ~next_op_wide
    /\ IF ~CanLook THEN Breaks
       ELSE IF CallsNothing THEN Exits
       ELSE \E refused \in BOOLEAN :
               IF InItsMemory(Recorded(refused))
               THEN step /\ AfterStep(Recorded(refused)) /\ UNCHANGED <<memory, restarted>>
               ELSE Breaks
    /\ UNCHANGED loads

(* The step inside the step of WIDE: the debugger does not see it. *)
prefixed_step ==
    /\ Commanded /\ Disciplined /\ next_op_wide
    /\ step /\ AfterStep(dbg_state)
    /\ UNCHANGED <<memory, restarted, loads>>

Command ==
    \/ exec_file \/ exec_start \/ exec_run \/ exec_step \/ exec_continue
    \/ exec_break \/ exec_quit

(* The debugger has left, or the program does what Calls does not follow. *)
Rests ==
    (mode \in {"gone", "broken"} \/ (Commanded /\ ~Disciplined)) /\ UNCHANGED dvars

DNext == Command \/ dbg_step \/ prefixed_step \/ Rests

(* Nobody is asked for input inside a command that runs the machine. *)
DSpec == DInit /\ [][DNext]_dvars /\ WF_dvars(dbg_step \/ prefixed_step)

-----------------------------------------------------------------------------
(* What backtrace prints: print_func_calls reads the history from its top. *)
(* What it prints behind a number of arguments that is larger than the     *)
(* history, from memory outside of it, is left out.                        *)
Backtrace(h) ==
    LET shown[n \in 0 .. Len(h)] ==
            IF n = 0 THEN <<>>
            ELSE IF n = 1 THEN <<[entry |-> h[1], args |-> <<>>]>>
            ELSE <<[entry |-> h[n], args |-> [k \in 1 .. h[n - 1] |-> h[n - 1 - k]]]>>
                     \o (IF h[n - 1] \in 0 .. n - 2 THEN shown[n - 2 - h[n - 1]] ELSE <<>>)
    IN  shown[Len(h)]

Shown == Backtrace(dbg_state.call_history)

(* The calls in progress, the latest one first. *)
CallsInProgress ==
    Reversed([k \in 1 .. Len(frames) |->
                 [entry |-> frames[k].entry, args |-> frames[k].args]])
OfMain == [entry |-> 0, args |-> <<>>]

(* The debugger sees every call and return of the program. *)
NoPrefixedCalls ==
    \A i \in 1 .. CodeSize - 1 :
        program.code[i] = OP_WIDE =>
            program.code[i + 1] \notin {OP_INVOKEVIRTUAL, OP_IRETURN}

Traced ==
    /\ dbg_state.prog_state \in {"STARTED", "FINISHED"}
    /\ mode \notin {"gone", "broken"}
    /\ ~dbg_state.quit_flag /\ NoPrefixedCalls

(* The history, written before each step and trimmed by what it holds      *)
(* itself, shows the calls in progress, which arguments they were given    *)
(* and in which order, and main at its end (ijdb.c:246-326); on the first  *)
(* run of a program nothing else.                                          *)
BacktraceShowsCalls ==
    Traced =>
        /\ SubSeq(Shown, 1, Len(frames)) = CallsInProgress
        /\ Last(Shown) = OfMain
        /\ ~restarted => Len(Shown) = Len(frames) + 1

(* At the prompt the debugger knows whether the program can be resumed: a  *)
(* finished machine is never stepped.  (A program without code is started  *)
(* all the same, ijdb.c:437-474.)                                          *)
PromptKnowsFinished ==
    mode = "prompt" /\ program.code # <<>> =>
        /\ dbg_state.prog_state = "STARTED" => ~finished
        /\ dbg_state.prog_state = "FINISHED" => finished

(* What a step relies on: the program has code, calls methods that are     *)
(* there and have fewer than 2^15 arguments (the debugger reads their      *)
(* number as a signed one, ijdb.c:276, the instruction as an unsigned one) *)
(* and does not prefix calls; the breakpoints are in the code; and no      *)
(* allocation was refused.                                                 *)
CalledWell ==
    cpu.pc < CodeSize /\ Op = OP_INVOKEVIRTUAL =>
        IsCall /\ CodeShort(get_constant(arg_short(1))) >= 0

BreakpointsInCode ==
    \A k \in 1 .. Len(dbg_state.brkpts) : dbg_state.brkpts[k] < CodeSize

InOrder ==
    /\ program.code # <<>> /\ NoPrefixedCalls /\ CalledWell
    /\ BreakpointsInCode /\ ~dbg_state.quit_flag

(* Then a step never takes the debugger out of the code or of the memory   *)
(* of its history: not the look before the step, nor the record, nor the   *)
(* look after it (ijdb.c:246-326, 350-365).                                *)
StepsStayInBounds == [][Commanded /\ InOrder => mode' # "broken"]_dvars

(* And a command comes back to the prompt, or the process ends, if every   *)
(* branch back leads to a breakpoint, wherever in its calls the program    *)
(* takes it: breakpoints are seen however they are reached, and what lies  *)
(* between them comes to an end (ijdb.c:368-396).                          *)
BackwardBranchesBreak ==
    \A i \in 0 .. CodeSize - 3 :
        CodeByte(i) \in {OP_GOTO, OP_IFEQ, OP_IFLT, OP_ICMPEQ} =>
            CodeShort(i + 1) > 2 \/ at_breakpoint(dbg_state, i + CodeShort(i + 1))

CommandsReturn ==
    (Commanded /\ BackwardBranchesBreak)
        ~> (mode \in {"prompt", "gone"} \/ ~InOrder \/ ~Disciplined)

-----------------------------------------------------------------------------
(* docs/debugger.md:16: "backtrace -- Shows a call-stack of all frames     *)
(* including arguments": of the frames, and of nothing else.               *)
BacktraceShowsFrames == Traced => Shown = Append(CallsInProgress, OfMain)
=============================================================================
