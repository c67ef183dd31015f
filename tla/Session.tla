------------------------------- MODULE Session --------------------------------
(***************************************************************************)
(* What the pointers and descriptors of a process own, from its start to   *)
(* its end: ijvm (src/main.c) with its SIGINT handler, and the debugger    *)
(* (src/ijdb.c), which initialises the machine again and again.  It spans  *)
(* init.c, terminate.c, loader.c, debug_data_loader.c, and what array.c,   *)
(* cpu.c, net.c and marr.c allocate.                                       *)
(*                                                                         *)
(* An operation is a script: the calls of malloc, free, fopen, close, and  *)
(* the assignments of pointers it comes to, in their order.  One action is *)
(* one of them ("p = malloc()" is one), so a signal may strike between any *)
(* two.  Which way a script goes (which file is cut short, which           *)
(* allocation is refused) is chosen where it begins.  "array" stands for   *)
(* all the arrays that are stored, "sock" and its descriptors for one      *)
(* connection of any number.                                               *)
(***************************************************************************)
EXTENDS SequencesExt

CONSTANT Processes   \* the programs that may run: "ijvm", "ijdb"

(* free never resets these, *)
CpuPointers == {"stack", "code_mem", "const_mem"}

(* these it resets when it has freed them, for each mapped array its map,  *)
(* its values, and what they lead to,                                      *)
TablePointers == {"arr_map", "arr_values", "array", "net_map", "net_values", "sock"}

MachinePointers == CpuPointers \cup {"marked_arrays"} \cup TablePointers
DebuggerPointers ==
    {"func_label", "sec_label", "call_history", "last_prog", "brkpts"}

(* these are locals of functions, out of reach of everybody else: an array *)
(* and a connection before they are stored, what a table or the stack was  *)
(* before it grew, the copy of a path, the name of a symbol,               *)
Locals ==
    {"new_array", "new_sock", "old_map", "old_values", "old_elements", "old_stack",
     "path_copy", "name"}

(* and these are files and sockets: one that is just opened, of a          *)
(* connection that is not made, or could not be, of a client, of a server, *)
(* and of what the server accepted.                                        *)
Descriptors ==
    {"in_file", "out_file", "symbols_file",
     "new_fd", "idle_fd", "client_fd", "server_fd", "accepted_fd"}

Resources == MachinePointers \cup DebuggerPointers \cup Locals \cup Descriptors

(* A mapped array: its pointers, and what arr_store (socket_store) is at:  *)
(* it has something to store; the growth of the table was refused; it has  *)
(* collected, to try again.                                                *)
arr_mem ==
    [map |-> "arr_map", values |-> "arr_values", elements |-> "array",
     store |-> "arr_store", full |-> "arr_full", again |-> "arr_again"]
net_conn ==
    [map |-> "net_map", values |-> "net_values", elements |-> "sock",
     store |-> "socket_store", full |-> "socket_full", again |-> "socket_again"]

VARIABLES
    process,      \* which of the programs runs
    owner,        \* what each pointer is: "null", "live", or "stale": it was
                  \* freed, and still points there
    operation,    \* the operation in progress, or the last one
    todo,         \* the rest of its script
    next_state,   \* prog_state behind the script
    prog_state,   \* "EMPTY", "LOADED", "STARTED", what a creation is at, or
                  \* "exited" by destroy_ijvm, "given_up" without it
    twice,        \* the pointer that was freed twice, or "none"
    lost,         \* what the last step left without a pointer that leads to it
    struck,       \* the operation that SIGINT struck, or "none"
    load_failed,  \* some load has failed
    collected,    \* the collector has run
    refused       \* memory was refused to a table, a path, or breakpoints

svars == <<process, owner, operation, todo, next_state, prog_state, twice, lost,
           struck, load_failed, collected, refused>>

-----------------------------------------------------------------------------
(* Scripts                                                                 *)

(* One step for each of the resources. *)
Each(verb, names) == [k \in 1 .. Len(names) |-> <<verb, names[k]>>]
Free(names)  == Each("free", names)
Alloc(names) == Each("alloc", names)
Clear(names) == Each("clear", names)

(* A descriptor is closed; what a local holds is freed, and nobody uses    *)
(* the local any more.                                                     *)
Release(names) == Each("release", names)

(* Pointers take what others had, or a new block, all at once.             *)
Assign(f) == <<<<"assign", f>>>>
Shift(new, from, to) == [r \in {from, to} |-> IF r = to THEN from ELSE new]
Together(f, g) ==
    [r \in DOMAIN f \cup DOMAIN g |-> IF r \in DOMAIN f THEN f[r] ELSE g[r]]

(* The pointer is freed and reset. *)
FreeAndClear(name) == Free(<<name>>) \o Clear(<<name>>)

(* Wrong: the slot of the array stays claimed. *)
arr_remove_claimed == Free(<<"array">>)

arr_remove == FreeAndClear("array")

(* A server closes the socket it listens with, and no connection; a socket *)
(* that is neither client nor server is not closed.                        *)
net_close ==
    Release(<<"client_fd", "server_fd">>) \o Clear(<<"idle_fd", "accepted_fd">>)
        \o FreeAndClear("sock")

socket_store ==
    Assign(Together(Shift("null", "new_sock", "sock"), Shift("null", "new_fd", "idle_fd")))

(* net_connect and net_bind: they fail, are a client, or a server. *)
connections ==
    {<<>>, Assign(Shift("null", "idle_fd", "client_fd")),
     Alloc(<<"accepted_fd">>) \o Assign(Shift("null", "idle_fd", "server_fd"))}

(* Wrong: only the stack is freed. *)
cpu_destroy_stack == Free(<<"stack">>)

cpu_destroy == Free(<<"stack", "code_mem", "const_mem">>)

marr_destroy(t) == Free(<<t.map, t.values>>) \o Clear(<<t.map, t.values>>)

arr_destroy == arr_remove \o marr_destroy(arr_mem) \o Free(<<"marked_arrays">>)

net_destroy == net_close \o marr_destroy(net_conn)

destroy_ijvm == net_destroy \o arr_destroy \o cpu_destroy

arr_gc(sweeps) ==
    Free(<<"marked_arrays">>) \o Alloc(<<"marked_arrays">>)
        \o (IF sweeps THEN arr_remove ELSE <<>>)

(* The map is new, and what the old one led to is out of reach, until map  *)
(* and values are copied.                                                  *)
new_map(t, new) ==
    Together(Shift(new, t.map, "old_map"), Shift("null", t.elements, "old_elements"))
new_values(t, new) == Shift(new, t.values, "old_values")
copied(t) == Shift("null", "old_elements", t.elements)

put_back(t) ==
    Together(copied(t), Together(Shift("null", "old_map", t.map),
                                 Shift("null", "old_values", t.values)))

(* Wrong: the old table is forgotten. *)
marr_resize_without_destroy(t) ==
    Assign(new_map(t, "live")) \o Assign(new_values(t, "live")) \o Assign(copied(t))

marr_resize(t) ==
    Assign(new_map(t, "live")) \o Assign(new_values(t, "live")) \o Assign(copied(t))
        \o Release(<<"old_map", "old_values">>)

(* The map is refused, the values are, or both. *)
marr_resize_refusals(t) ==
    {Assign(new_map(t, new[1])) \o Assign(new_values(t, new[2])) \o Assign(put_back(t)) :
        new \in {<<"null", "live">>, <<"live", "null">>, <<"null", "null">>}}

(* realloc frees the old stack before the pointer is the new one. *)
octuple_stack_size == Free(<<"stack">>) \o Alloc(<<"stack">>)

octuple_stack_size_refused ==
    Assign(Shift("null", "stack", "old_stack")) \o Assign(Shift("null", "old_stack", "stack"))

destroy_debug_data == Free(<<"func_label", "sec_label">>)

(* Wrong: the symbols of sections are forgotten. *)
init_debug_data_functions == Clear(<<"func_label">>)

init_debug_data == Clear(<<"func_label", "sec_label">>)

destroy_debugger == Free(<<"call_history", "last_prog", "brkpts">>)

init_debugger == Alloc(<<"call_history">>) \o Clear(<<"last_prog", "brkpts">>)

(* The ways load_bin may fail: before the constants, at their malloc, in   *)
(* them, at the malloc of the code, and in the code.                       *)
load_bin_failures ==
    {<<>>, Clear(<<"const_mem">>), Alloc(<<"const_mem">>),
     Alloc(<<"const_mem">>) \o Clear(<<"code_mem">>),
     Alloc(<<"const_mem", "code_mem">>)}

load_bin == Alloc(<<"const_mem", "code_mem">>)

(* init_ijvm when all goes well: standard input and output replace what    *)
(* they were set to.                                                       *)
init_ijvm == load_bin \o Alloc(<<"stack">>) \o Clear(<<"out_file", "in_file">>)

(* The scan of main finds a call without a constant, or the stack is       *)
(* refused: destroy_ijvm_now.                                              *)
init_ijvm_exits ==
    {load_bin \o destroy_ijvm, load_bin \o Clear(<<"stack">>) \o destroy_ijvm}

init_ijvm_failures == {failure \o destroy_ijvm : failure \in load_bin_failures}

(* Which symbols a binary has, as far as they can be read. *)
Symbols ==
    {<<>>, <<"func_label">>, <<"sec_label">>, <<"func_label", "sec_label">>}

load_debug_data ==
    {Alloc(<<"symbols_file">> \o s) \o Release(<<"symbols_file">>) : s \in Symbols}

(* The file cannot be opened, or is cut short; then it is not closed.      *)
load_debug_data_failures ==
    {<<>>} \cup {Alloc(<<"symbols_file">> \o s) \o destroy_debug_data \o init_debug_data
                     \o Clear(<<"symbols_file">>) : s \in Symbols}

renew_debug_data == destroy_debug_data \o init_debug_data
renew_debugger == destroy_debugger \o init_debugger

save_last_prog ==
    Alloc(<<"path_copy">>) \o FreeAndClear("last_prog") \o Alloc(<<"last_prog">>)
        \o Release(<<"path_copy">>)

(* str_dup collects before it gives up; then the copy is forgotten. *)
save_last_prog_refused ==
    Alloc(<<"path_copy">>) \o FreeAndClear("last_prog") \o arr_gc(FALSE)
        \o Clear(<<"path_copy">>)

-----------------------------------------------------------------------------
SInit ==
    /\ process \in Processes
    /\ owner = [r \in Resources |-> "null"]
    /\ operation = "start"
    /\ todo = IF process = "ijdb" THEN init_debug_data \o init_debugger ELSE <<>>
    /\ prog_state = "EMPTY" /\ next_state = "EMPTY"
    /\ twice = "none" /\ lost = {} /\ struck = "none"
    /\ load_failed = FALSE /\ collected = FALSE /\ refused = FALSE

(* A new operation begins. *)
Begin(name, script, state) ==
    /\ operation' = name /\ todo' = script /\ next_state' = state /\ lost' = {}
    /\ UNCHANGED <<process, owner, prog_state, twice, struck>>

Works == UNCHANGED <<load_failed, collected, refused>>
Fails == load_failed' = TRUE /\ UNCHANGED <<collected, refused>>
Collects == collected' = TRUE /\ UNCHANGED <<load_failed, refused>>
Refuses == refused' = TRUE /\ UNCHANGED <<load_failed, collected>>

Idle == twice = "none" /\ todo = <<>> /\ prog_state = next_state

(* One step of the script. *)
Do(verb) == twice = "none" /\ todo # <<>> /\ Head(todo)[1] = verb
Subject == Head(todo)[2]

Goes ==
    /\ todo' = Tail(todo)
    /\ UNCHANGED <<process, operation, next_state, prog_state, struck, load_failed,
                   collected, refused>>
Become(state) == Goes /\ owner' = [owner EXCEPT ![Subject] = state]

LostIfLive == lost' = IF owner[Subject] = "live" THEN {Subject} ELSE {}

DoAlloc == Do("alloc") /\ Become("live") /\ LostIfLive /\ UNCHANGED twice
DoClear == Do("clear") /\ Become("null") /\ LostIfLive /\ UNCHANGED twice
DoRelease == Do("release") /\ Become("null") /\ lost' = {} /\ UNCHANGED twice

(* free(NULL) does nothing; freeing twice has no defined effect. *)
DoFree ==
    /\ Do("free")
    /\ Become(IF owner[Subject] = "null" THEN "null" ELSE "stale")
    /\ twice' = IF owner[Subject] = "stale" THEN Subject ELSE "none"
    /\ lost' = {}

(* Another array joins those that are stored. *)
DoAssign ==
    /\ Do("assign") /\ Goes
    /\ owner' = [r \in Resources |->
                    IF r \notin DOMAIN Subject THEN owner[r]
                    ELSE IF Subject[r] \in Resources THEN owner[Subject[r]]
                    ELSE Subject[r]]
    /\ lost' = {r \in DOMAIN Subject \ {"array"} :
                    owner[r] = "live" /\ \A q \in DOMAIN Subject : Subject[q] # r}
    /\ UNCHANGED twice

(* The script is over. *)
Arrive ==
    /\ twice = "none" /\ todo = <<>> /\ prog_state # next_state
    /\ prog_state' = next_state /\ lost' = {}
    /\ UNCHANGED <<process, owner, operation, todo, next_state, twice, struck,
                   load_failed, collected, refused>>

-----------------------------------------------------------------------------
(* The machine at work, in either process.                                 *)

At(state) == Idle /\ prog_state = state

create_array ==
    At("STARTED") /\ Begin("arr_create", Alloc(<<"new_array">>), "arr_store") /\ Works

open_connection ==
    /\ At("STARTED") /\ owner["sock"] = "null"
    /\ Begin("socket_create", Alloc(<<"new_sock", "new_fd">>), "socket_store")
    /\ Works

(* There is no table yet, or no place in it. *)
make_room ==
    \E t \in {arr_mem, net_conn} :
        /\ At(t.store) \/ At(t.again)
        /\ \/ Begin("marr_resize", marr_resize(t), t.store) /\ Works
           \/ \E script \in marr_resize_refusals(t) :
                 Begin("marr_resize", script, t.full) /\ Refuses

(* The new array, or connection, gets a place in its table; a connection   *)
(* is then made, and may fail.                                             *)
store_array ==
    /\ At("arr_store") /\ owner["arr_map"] = "live"
    /\ Begin("arr_store", Assign(Shift("null", "new_array", "array")), "STARTED")
    /\ Works

store_connection ==
    /\ At("socket_store") /\ owner["net_map"] = "live"
    /\ \E script \in connections : Begin("socket_store", socket_store \o script, "STARTED")
    /\ Works

(* The collector runs at work, before an element is stored, and whenever   *)
(* memory was refused.                                                     *)
Collecting ==
    [STARTED |-> "STARTED", arr_store |-> "arr_store", socket_store |-> "socket_store",
     arr_full |-> "arr_again", socket_full |-> "socket_again", stack_full |-> "stack_again"]

collect ==
    /\ Idle /\ prog_state \in DOMAIN Collecting
    /\ \E sweeps \in BOOLEAN : Begin("arr_gc", arr_gc(sweeps), Collecting[prog_state])
    /\ Collects

grow_stack ==
    /\ At("STARTED") \/ At("stack_again")
    /\ \/ Begin("octuple_stack_size", octuple_stack_size, "STARTED")
       \/ Begin("octuple_stack_size", octuple_stack_size_refused, "stack_full")
    /\ Works

close_connection ==
    /\ At("STARTED") /\ owner["sock"] = "live"
    /\ Begin("net_close", net_close, "STARTED")
    /\ Works

(* An error ends the process, and so does, in ijvm, the end of the run.    *)
destroy_ijvm_now ==
    /\ Idle
    /\ prog_state \in {"STARTED", "arr_store", "socket_store",
                       "arr_again", "socket_again", "stack_again"}
    /\ Begin("destroy_ijvm", destroy_ijvm, "exited")
    /\ Works

-----------------------------------------------------------------------------
(* main of ijvm: it gives up without destroy_ijvm when a file for the      *)
(* input or the output cannot be opened.                                   *)
In(p) == process = p

main_loads ==
    /\ In("ijvm") /\ At("EMPTY")
    /\ \/ \E files \in {<<>>, <<"in_file">>, <<"in_file", "out_file">>} :
             Begin("init_ijvm", init_ijvm \o Alloc(files), "STARTED") /\ Works
       \/ \E script \in init_ijvm_failures \cup init_ijvm_exits :
             Begin("init_ijvm", script, "exited") /\ Fails

main_gives_up ==
    /\ In("ijvm") /\ At("EMPTY")
    /\ Begin("init_ijvm", init_ijvm, "given_up")
    /\ Works

(* The handler strikes anywhere, once, and does not come back. *)
interrupt_handler ==
    /\ In("ijvm") /\ struck = "none" /\ twice = "none"
    /\ prog_state \notin {"exited", "given_up"}
    /\ struck' = operation
    /\ operation' = "interrupt_handler" /\ todo' = destroy_ijvm /\ next_state' = "exited"
    /\ lost' = {}
    /\ UNCHANGED <<process, owner, prog_state, twice, load_failed, collected, refused>>

-----------------------------------------------------------------------------
(* The commands of the debugger that own something.                        *)

(* init_ijvm and load_debug_data succeed, one fails, or the process ends.  *)
Loading(name, before, after, cleanup, state) ==
    \/ \E symbols \in load_debug_data :
          Begin(name, before \o init_ijvm \o symbols \o after, state) /\ Works
    \/ \E failure \in init_ijvm_failures
                        \cup {init_ijvm \o f : f \in load_debug_data_failures} :
          Begin(name, before \o failure \o cleanup, "EMPTY") /\ Fails
    \/ \E script \in init_ijvm_exits :
          Begin(name, before \o script, "exited") /\ Fails

Renewal == destroy_ijvm \o renew_debug_data \o renew_debugger

Prompts == In("ijdb") /\ Idle /\ prog_state \in {"EMPTY", "LOADED", "STARTED"}

exec_file ==
    /\ Prompts
    /\ \/ Loading("exec_file", Renewal, save_last_prog, Renewal, "LOADED")
       \/ \E symbols \in load_debug_data :
             /\ Begin("exec_file", Renewal \o init_ijvm \o symbols \o save_last_prog_refused,
                      "LOADED")
             /\ collected' = TRUE /\ refused' = TRUE /\ UNCHANGED load_failed

(* restart_debugger, then the file for the output. *)
exec_start ==
    /\ In("ijdb")
    /\ \/ At("LOADED") /\ Begin("exec_start", Alloc(<<"out_file">>), "STARTED") /\ Works
       \/ At("STARTED") /\ Loading("exec_start", destroy_ijvm \o renew_debug_data,
                                   Alloc(<<"out_file">>), Renewal, "STARTED")

exec_input ==
    /\ Prompts /\ prog_state # "EMPTY"
    /\ Begin("exec_input", Alloc(<<"in_file">>), prog_state)
    /\ Works

(* realloc of the breakpoints, and of the history in store_func_call.      *)
(* Either sets quit_flag when it is refused; the breakpoints are gone.     *)
reallocate ==
    /\ Prompts /\ prog_state # "EMPTY"
    /\ \/ /\ Begin("exec_break", Free(<<"brkpts">>) \o Alloc(<<"brkpts">>), prog_state)
          /\ Works
       \/ Begin("exec_break", Clear(<<"brkpts">>), "given_up") /\ Refuses
       \/ /\ prog_state = "STARTED" /\ Works
          /\ \/ Begin("store_func_call",
                      Free(<<"call_history">>) \o Alloc(<<"call_history">>), prog_state)
             \/ Begin("store_func_call", <<>>, "given_up")

(* A name is looked up, and its copy forgotten; or str_dup, there or for a *)
(* command that is repeated, is refused, and collects.                     *)
str_dup ==
    /\ Prompts
    /\ \/ /\ prog_state # "EMPTY"
          /\ Begin("get_func_name", Alloc(<<"name">>) \o Clear(<<"name">>), prog_state)
          /\ Works
       \/ /\ \E sweeps \in BOOLEAN : Begin("arr_gc", arr_gc(sweeps), prog_state)
          /\ Collects

exec_quit ==
    /\ Prompts
    /\ Begin("exec_quit", destroy_ijvm \o destroy_debug_data \o destroy_debugger, "exited")
    /\ Works

Ended ==
    /\ twice # "none" \/ (todo = <<>> /\ prog_state \in {"exited", "given_up"})
    /\ UNCHANGED svars

SNext ==
    \/ DoAlloc \/ DoFree \/ DoClear \/ DoRelease \/ DoAssign \/ Arrive
    \/ create_array \/ open_connection \/ make_room \/ store_array \/ store_connection
    \/ collect \/ grow_stack \/ close_connection \/ destroy_ijvm_now
    \/ main_loads \/ main_gives_up \/ interrupt_handler
    \/ exec_file \/ exec_start \/ exec_input \/ reallocate \/ str_dup \/ exec_quit
    \/ Ended

SSpec == SInit /\ [][SNext]_svars

-----------------------------------------------------------------------------
(* ijvm frees nothing twice, whichever part of a load fails and whatever   *)
(* the program did, unless SIGINT strikes inside one of the operations     *)
(* that free before they reset (main.c:23-27).                             *)
IjvmFreesOnce ==
    In("ijvm") /\ twice # "none" =>
        struck \in {"arr_gc", "octuple_stack_size", "net_close", "destroy_ijvm", "init_ijvm"}

(* The debugger frees what is its own once; and a machine twice only after *)
(* a load that failed or a program that collected.  A restart as such does *)
(* no harm (ijdb.c:593-622, 768-795).                                      *)
DebuggerFreesOnce ==
    In("ijdb") /\ twice # "none" =>
        twice \in MachinePointers /\ (load_failed \/ collected)

(* However often programs are loaded and restarted, all that gets lost are *)
(* files that were never closed, of the sockets the idle ones and the      *)
(* connections of servers (net.c:216-240, debug_data_loader.c:154-159),    *)
(* and the names of symbols that were looked up (ijdb.c:149-224).  When    *)
(* memory was refused, so may half of a new table (marr.c:70-75), the      *)
(* breakpoints (ijdb.c:531-537) and the copy of a path (ijdb.c:334-342).   *)
OnlyFilesAreLost ==
    lost \subseteq
        {"in_file", "out_file", "symbols_file", "idle_fd", "accepted_fd", "name"}
            \cup (IF refused
                  THEN {"arr_map", "arr_values", "net_map", "net_values", "brkpts", "path_copy"}
                  ELSE {})

(* A process that ends by destroy_ijvm has freed all that the pointers of  *)
(* the machine lead to, wherever it was struck (terminate.c:4-18).  What   *)
(* it may leave is what only a local leads to: an array or a connection    *)
(* before marr.c:117-118 stores it, a table or a stack that grows          *)
(* (marr.c:70-94); and no local holds anything between two instructions.   *)
ExitFreesAll ==
    /\ prog_state = "exited" /\ twice = "none" =>
           \A p \in MachinePointers : owner[p] # "live"
    /\ Idle /\ prog_state \in {"EMPTY", "LOADED", "STARTED"} =>
           \A l \in Locals : owner[l] # "live"

=============================================================================
