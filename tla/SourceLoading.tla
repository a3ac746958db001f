----------------------------- MODULE SourceLoading -----------------------------
(***************************************************************************)
(* The loading of sources during semantic analysis: Context::lookupSourceID*)
(* (Panther/src/Context.cpp), which `@import` runs in the worker that      *)
(* analyses the importing symbol.  The first importer of a file that is    *)
(* not a Source yet loads it and queues its global symbols; others that    *)
(* come meanwhile spin until it is ready or has failed.                    *)
(*                                                                         *)
(* A global symbol runs its imports one after the other; a `when`          *)
(* conditional then releases the symbols under it.  Waits of symbols for   *)
(* each other, and the work manager's threads, are in SymbolProcs.tla and  *)
(* ThreadQueue.tla.  Looking a special name up finds an initial source and *)
(* is as LookUp is for a path.                                             *)
(*                                                                         *)
(* A definition whose comment begins with "Mistake" is no part of the      *)
(* specification: it is what a plausible mistake would make of the one     *)
(* that follows it, and shows that a property can be broken.               *)
(***************************************************************************)
EXTENDS Integers, Sequences, FiniteSetsExt

CONSTANTS
    Worker,      \* the threads of the work manager
    Path,        \* normalized paths
    EmptyPath,   \* an empty path, and what std::move leaves of one
    File,        \* File[p]: what is at p
    Initial,     \* the paths of the sources loaded before, a sequence
    Globals      \* Globals[p]: the global symbols of the source at p

FileKind == {"ok", "broken", "unreadable", "missing"}
Error    == {"EMPTY_PATH", "SAME_AS_CALLER", "NOT_ONE_OF_SOURCES", "DOESNT_EXIST",
             "FAILED_DURING_ANALYSIS_OF_NEWLY_LOADED"}

(***************************************************************************)
(* "under" is the `when` conditional a symbol is under, or 0.              *)
(***************************************************************************)
Global == [imports : Seq(Path \cup {EmptyPath}), under : Nat]

ASSUME PathAssumption    == EmptyPath \notin Path
ASSUME FileAssumption    == File \in [Path -> FileKind]
ASSUME GlobalsAssumption == Globals \in [Path -> Seq(Global)]
\* A conditional is numbered before what is under it.
ASSUME UnderAssumption ==
    \A p \in Path : \A i \in DOMAIN Globals[p] : Globals[p][i].under < i
ASSUME InitialAssumption ==
    /\ Initial \in Seq(Path)
    /\ \A i, j \in DOMAIN Initial : Initial[i] = Initial[j] => i = j

VARIABLES
    compile_mode,                         \* compilerMode == COMPILE
    sources,                              \* source_manager: the path of each Source
    is_ready_for_sema,                    \* per Source
    symbols,                              \* per Source: its global_symbol_procs
    current_dynamic_file_load,
    current_dynamic_file_load_failed,     \* a map from paths to errors
    pc, job, inst,                        \* per worker: where it is, its symbol
    source,                               \* per worker: the Source it found or loads
    left, target,                         \* per worker: the globals still to queue, and the next
    answers                               \* history: what each import returned

queueing == <<left, target>>
loads    == <<current_dynamic_file_load, current_dynamic_file_load_failed>>
manager  == <<sources, is_ready_for_sema>>
locals   == <<job, inst, source, queueing>>
vars     == <<compile_mode, manager, symbols, loads, pc, locals, answers>>

Status   == {"WAITING", "IN_QUEUE", "WORKING", "DONE", "ERRORED"}
WorkerPC == {"idle", "run", "claim", "wait_failed", "wait_lookup", "wait_ready", "exists",
             "load", "build", "erase", "erase_failed", "record_failed", "queue",
             "set_in_queue"}

Source   == DOMAIN sources
NoSource == 0
NoJob    == <<0, 0>>

(***************************************************************************)
(* The state of a global symbol: its status, the edges it waits for, and   *)
(* how many times it is in the work manager.                               *)
(***************************************************************************)
Built(p) ==
    [i \in DOMAIN Globals[p] |->
        [status |-> "WAITING", waits |-> Globals[p][i].under # 0, queued |-> 0]]

AddTask(s)   == [s EXCEPT !.status = "IN_QUEUE", !.queued = @ + 1]
isWaiting(s) == s.waits

Init ==
    /\ compile_mode \in BOOLEAN
    /\ sources = Initial
    /\ is_ready_for_sema = [id \in DOMAIN Initial |-> TRUE]
    /\ symbols = [id \in DOMAIN Initial |->
                    [i \in DOMAIN Built(Initial[id]) |->
                        LET s == Built(Initial[id])[i] IN IF isWaiting(s) THEN s ELSE AddTask(s)]]
    /\ current_dynamic_file_load = {}
    /\ current_dynamic_file_load_failed = [p \in {} |-> "DOESNT_EXIST"]
    /\ pc = [w \in Worker |-> "idle"]
    /\ job = [w \in Worker |-> NoJob]
    /\ inst = [w \in Worker |-> 1]
    /\ source = [w \in Worker |-> NoSource]
    /\ left = [w \in Worker |-> {}]
    /\ target = [w \in Worker |-> 0]
    /\ answers = {}

-----------------------------------------------------------------------------
(* The symbol a worker analyses. *)

Caller(w)  == sources[job[w][1]]
Imports(w) == Globals[Caller(w)][job[w][2]].imports
Symbol(w)  == symbols[job[w][1]][job[w][2]]
file_path(w) == Imports(w)[inst[w]]

Goto(w, label)      == pc' = [pc EXCEPT ![w] = label]
SetStatus(w, value) == symbols' = [symbols EXCEPT ![job[w][1]][job[w][2]].status = value]
Leave(w)            == Goto(w, "idle") /\ job' = [job EXCEPT ![w] = NoJob]

Take(w, id, i) ==
    /\ pc[w] = "idle"
    /\ symbols[id][i].queued > 0
    /\ symbols' = [symbols EXCEPT ![id][i].queued = @ - 1, ![id][i].status = "WORKING"]
    /\ job' = [job EXCEPT ![w] = <<id, i>>]
    /\ inst' = [inst EXCEPT ![w] = 1]
    /\ Goto(w, "run")
    /\ UNCHANGED <<compile_mode, manager, loads, source, queueing, answers>>

\* Mistake: the symbols under a `when` are not looked for.
FinishReleasesNone(w) ==
    /\ pc[w] = "run" /\ inst[w] > Len(Imports(w))
    /\ SetStatus(w, "DONE")
    /\ Leave(w)
    /\ UNCHANGED <<compile_mode, manager, loads, inst, source, queueing, answers>>

(***************************************************************************)
(* The symbol is done; set_waiting_for_is_done for each one under it, each *)
(* under its own lock, queues it if it is WAITING.                         *)
(***************************************************************************)
Finish(w) ==
    LET id == job[w][1] IN
    /\ pc[w] = "run" /\ inst[w] > Len(Imports(w))
    /\ symbols' = [symbols EXCEPT ![id] = [i \in DOMAIN @ |->
          LET s == @[i]
              freed == [s EXCEPT !.waits = FALSE] IN
          IF i = job[w][2] THEN [s EXCEPT !.status = "DONE"]
          ELSE IF Globals[Caller(w)][i].under # job[w][2] THEN s
          ELSE IF s.status = "WAITING" THEN AddTask(freed)
          ELSE freed]]
    /\ Leave(w)
    /\ UNCHANGED <<compile_mode, manager, loads, inst, source, queueing, answers>>

(***************************************************************************)
(* lookupSourceID() returns: an error ends the symbol with Result::ERROR.  *)
(***************************************************************************)
ReturnSource(w, id) ==
    /\ answers' = answers \cup {<<file_path(w), sources[id]>>}
    /\ inst' = [inst EXCEPT ![w] = @ + 1]
    /\ Goto(w, "run")
    /\ UNCHANGED <<symbols, job>>

ReturnError(w, error) ==
    /\ answers' = answers \cup {<<file_path(w), error>>}
    /\ SetStatus(w, "ERRORED")
    /\ Leave(w)
    /\ UNCHANGED inst

-----------------------------------------------------------------------------
(* lookupSourceID(). *)

Importing(w) == pc[w] = "run" /\ inst[w] <= Len(Imports(w))

EmptyImport(w) ==
    /\ Importing(w)
    /\ file_path(w) = EmptyPath
    /\ ReturnError(w, "EMPTY_PATH")
    /\ UNCHANGED <<compile_mode, manager, loads, source, queueing>>

SelfImport(w) ==
    /\ Importing(w)
    /\ file_path(w) = Caller(w)
    /\ ReturnError(w, "SAME_AS_CALLER")
    /\ UNCHANGED <<compile_mode, manager, loads, source, queueing>>

\* The first Source with this path, in the order of their IDs.
Found(p) == Min({id \in Source : sources[id] = p})
IsSource(p) == \E id \in Source : sources[id] = p

(***************************************************************************)
(* A Source that is there is returned whether it is ready or not.          *)
(***************************************************************************)
LookUp(w) ==
    /\ Importing(w)
    /\ file_path(w) \notin {EmptyPath, Caller(w)}
    /\ \/ /\ IsSource(file_path(w))
          /\ ReturnSource(w, Found(file_path(w)))
       \/ /\ ~IsSource(file_path(w))
          /\ Goto(w, "claim")
          /\ UNCHANGED <<symbols, job, inst, answers>>
    /\ UNCHANGED <<compile_mode, manager, loads, source, queueing>>

(***************************************************************************)
(* One critical section looks whether the file is being loaded and says    *)
(* that it is.                                                             *)
(***************************************************************************)
Claim(w) ==
    /\ pc[w] = "claim"
    /\ Goto(w, IF file_path(w) \in current_dynamic_file_load THEN "wait_failed" ELSE "exists")
    /\ current_dynamic_file_load' = current_dynamic_file_load \cup {file_path(w)}
    /\ UNCHANGED <<compile_mode, manager, symbols, current_dynamic_file_load_failed, locals,
                   answers>>

\* Mistake: the loader's error is taken for granted.
WaitFailedAssumes(w) ==
    /\ pc[w] = "wait_failed"
    /\ IF file_path(w) \in DOMAIN current_dynamic_file_load_failed
         THEN ReturnError(w, "FAILED_DURING_ANALYSIS_OF_NEWLY_LOADED")
         ELSE Goto(w, "wait_lookup") /\ UNCHANGED <<symbols, job, inst, answers>>
    /\ UNCHANGED <<compile_mode, manager, loads, source, queueing>>

WaitFailed(w) ==
    /\ pc[w] = "wait_failed"
    /\ IF file_path(w) \in DOMAIN current_dynamic_file_load_failed
         THEN ReturnError(w, current_dynamic_file_load_failed[file_path(w)])
         ELSE Goto(w, "wait_lookup") /\ UNCHANGED <<symbols, job, inst, answers>>
    /\ UNCHANGED <<compile_mode, manager, loads, source, queueing>>

WaitLookUp(w) ==
    /\ pc[w] = "wait_lookup"
    /\ IF IsSource(file_path(w))
         THEN Goto(w, "wait_ready") /\ source' = [source EXCEPT ![w] = Found(file_path(w))]
         ELSE Goto(w, "wait_failed") /\ UNCHANGED source
    /\ UNCHANGED <<compile_mode, manager, symbols, loads, job, inst, queueing,
                   answers>>

WaitReady(w) ==
    /\ pc[w] = "wait_ready"
    /\ is_ready_for_sema[source[w]]
    /\ ReturnSource(w, source[w])
    /\ UNCHANGED <<compile_mode, manager, loads, source, queueing>>

-----------------------------------------------------------------------------
(* The one that loads the file. *)

\* current_dynamic_file_load_failed.emplace(): the first error stays.
RecordFailed(p, error) ==
    current_dynamic_file_load_failed' =
        [q \in DOMAIN current_dynamic_file_load_failed \cup {p} |->
            IF q \in DOMAIN current_dynamic_file_load_failed
            THEN current_dynamic_file_load_failed[q] ELSE error]

\* Mistake: the others are not told.
ExistsNotRecorded(w) ==
    /\ pc[w] = "exists"
    /\ IF File[file_path(w)] = "missing" THEN ReturnError(w, "DOESNT_EXIST")
       ELSE IF compile_mode THEN ReturnError(w, "NOT_ONE_OF_SOURCES")
       ELSE Goto(w, "load") /\ UNCHANGED <<symbols, job, inst, answers>>
    /\ UNCHANGED <<compile_mode, manager, loads, source, queueing>>

Exists(w) ==
    LET p == file_path(w)
        Fail(error) == RecordFailed(p, error) /\ ReturnError(w, error) IN
    /\ pc[w] = "exists"
    /\ \/ File[p] = "missing" /\ Fail("DOESNT_EXIST")
       \/ File[p] # "missing" /\ compile_mode /\ Fail("NOT_ONE_OF_SOURCES")
       \/ /\ File[p] # "missing" /\ ~compile_mode
          /\ Goto(w, "load")
          /\ UNCHANGED <<symbols, job, inst, answers, current_dynamic_file_load_failed>>
    /\ UNCHANGED <<compile_mode, manager, current_dynamic_file_load, source, queueing>>

\* Mistake: is_ready_for_sema of the new Source is not initialized.
LoadUninitialized(w) ==
    /\ pc[w] = "load"
    /\ IF File[file_path(w)] = "unreadable"
         THEN /\ source' = [source EXCEPT ![w] = NoSource]
              /\ Goto(w, "erase_failed")
              /\ UNCHANGED <<manager, symbols>>
         ELSE /\ source' = [source EXCEPT ![w] = Len(sources) + 1]
              /\ sources' = Append(sources, file_path(w))
              /\ symbols' = Append(symbols, <<>>)
              /\ Goto(w, "build")
              /\ UNCHANGED is_ready_for_sema
    /\ UNCHANGED <<compile_mode, loads, job, inst, queueing, answers>>

(***************************************************************************)
(* load_source(): from here on other importers find the Source.            *)
(***************************************************************************)
Load(w) ==
    /\ pc[w] = "load"
    /\ IF File[file_path(w)] = "unreadable"
         THEN /\ source' = [source EXCEPT ![w] = NoSource]
              /\ Goto(w, "erase_failed")
              /\ UNCHANGED <<manager, symbols>>
         ELSE /\ source' = [source EXCEPT ![w] = Len(sources) + 1]
              /\ sources' = Append(sources, file_path(w))
              /\ is_ready_for_sema' = Append(is_ready_for_sema, FALSE)
              /\ symbols' = Append(symbols, <<>>)
              /\ Goto(w, "build")
    /\ UNCHANGED <<compile_mode, loads, job, inst, queueing, answers>>

\* tokenize(), parse() and build_symbol_procs().
Build(w) ==
    /\ pc[w] = "build"
    /\ IF File[file_path(w)] = "broken"
         THEN Goto(w, "erase_failed") /\ UNCHANGED symbols
         ELSE /\ Goto(w, "erase")
              /\ symbols' = [symbols EXCEPT ![source[w]] = Built(file_path(w))]
    /\ UNCHANGED <<compile_mode, manager, loads, locals, answers>>

\* Mistake: the path that was meant.
path_after_move_kept(w) == file_path(w)

(***************************************************************************)
(* create_source() has moved the path away, so the loader goes on with an  *)
(* empty one; only a load_source() that fails leaves it alone.             *)
(***************************************************************************)
path_after_move(w) == IF source[w] = NoSource THEN file_path(w) ELSE EmptyPath

Erase(w) ==
    /\ pc[w] \in {"erase", "erase_failed"}
    /\ current_dynamic_file_load' = current_dynamic_file_load \ {path_after_move(w)}
    /\ IF pc[w] = "erase_failed"
         THEN Goto(w, "record_failed") /\ UNCHANGED left
         ELSE /\ Goto(w, "queue")
              /\ left' = [left EXCEPT ![w] = DOMAIN symbols[source[w]]]
    /\ UNCHANGED <<compile_mode, manager, symbols, current_dynamic_file_load_failed, job, inst,
                   source, target, answers>>

RecordFailedLoad(w) ==
    /\ pc[w] = "record_failed"
    /\ RecordFailed(path_after_move(w), "FAILED_DURING_ANALYSIS_OF_NEWLY_LOADED")
    /\ ReturnError(w, "FAILED_DURING_ANALYSIS_OF_NEWLY_LOADED")
    /\ UNCHANGED <<compile_mode, manager, current_dynamic_file_load, source, queueing>>

(***************************************************************************)
(* The loop over global_symbol_procs, an unordered_multimap.  A symbol     *)
(* that is not waiting is queued: first the look, then the status.         *)
(***************************************************************************)
Look(w, i) ==
    /\ pc[w] = "queue" /\ i \in left[w]
    /\ left' = [left EXCEPT ![w] = @ \ {i}]
    /\ IF isWaiting(symbols[source[w]][i])
         THEN UNCHANGED <<pc, target>>
         ELSE Goto(w, "set_in_queue") /\ target' = [target EXCEPT ![w] = i]
    /\ UNCHANGED <<compile_mode, manager, symbols, loads, job, inst, source, answers>>

SetInQueue(w) ==
    /\ pc[w] = "set_in_queue"
    /\ symbols' = [symbols EXCEPT ![source[w]][target[w]] = AddTask(@)]
    /\ Goto(w, "queue")
    /\ UNCHANGED <<compile_mode, manager, loads, locals, answers>>

Ready(w) ==
    /\ pc[w] = "queue" /\ left[w] = {}
    /\ is_ready_for_sema' = [is_ready_for_sema EXCEPT ![source[w]] = TRUE]
    /\ ReturnSource(w, source[w])
    /\ UNCHANGED <<compile_mode, sources, loads, source, queueing>>

-----------------------------------------------------------------------------
WorkerStep(w) ==
    \/ \E id \in Source : \E i \in DOMAIN symbols[id] : Take(w, id, i)
    \/ Finish(w) \/ EmptyImport(w) \/ SelfImport(w) \/ LookUp(w) \/ Claim(w)
    \/ WaitFailed(w) \/ WaitLookUp(w) \/ WaitReady(w)
    \/ Exists(w) \/ Load(w) \/ Build(w) \/ Erase(w) \/ RecordFailedLoad(w)
    \/ \E i \in left[w] : Look(w, i)
    \/ SetInQueue(w) \/ Ready(w)

Next == \E w \in Worker : WorkerStep(w)

Spec == Init /\ [][Next]_vars

\* Every thread keeps running.
LiveSpec == Spec /\ \A w \in Worker : WF_vars(WorkerStep(w))

-----------------------------------------------------------------------------
(* Properties *)

TypeOK ==
    /\ compile_mode \in BOOLEAN
    /\ sources \in Seq(Path)
    /\ is_ready_for_sema \in [Source -> BOOLEAN]
    /\ symbols \in [Source -> Seq([status : Status, waits : BOOLEAN, queued : Nat])]
    /\ current_dynamic_file_load \subseteq Path
    /\ current_dynamic_file_load_failed \in
           [DOMAIN current_dynamic_file_load_failed -> Error]
    /\ pc \in [Worker -> WorkerPC]
    /\ job \in [Worker -> (Source \cup {0}) \X Nat]
    /\ inst \in [Worker -> Nat \ {0}]
    /\ source \in [Worker -> Source \cup {NoSource}]
    /\ left \in [Worker -> SUBSET Nat] /\ target \in [Worker -> Nat]
    /\ answers \subseteq (Path \cup {EmptyPath}) \X (Path \cup Error)

(***************************************************************************)
(* A file is loaded once, however many workers import it at once: else its *)
(* symbols and types would exist twice.  It holds because the path of a    *)
(* loaded file is never erased from current_dynamic_file_load.             *)
(***************************************************************************)
LoadedOnce == \A i, j \in Source : sources[i] = sources[j] => i = j

(***************************************************************************)
(* Whoever imports a file gets the same answer, except the file itself: the*)
(* loader, those that wait for it and those that come later.  (For files   *)
(* that can be parsed if they can be read.)                                *)
(***************************************************************************)
OneAnswer ==
    \A a, b \in answers :
        a[1] = b[1] /\ "SAME_AS_CALLER" \notin {a[2], b[2]} => a[2] = b[2]

(***************************************************************************)
(* When the work is over every Source that could be parsed is ready and    *)
(* every global symbol of it has been analysed, unless an import in the    *)
(* `when` it is under failed, or that one was not analysed either.         *)
(***************************************************************************)
AtRest ==
    /\ \A w \in Worker : pc[w] = "idle"
    /\ \A id \in Source : \A i \in DOMAIN symbols[id] : symbols[id][i].queued = 0

AllAnalyzed ==
    AtRest => \A id \in Source :
        /\ is_ready_for_sema[id] \/ File[sources[id]] = "broken"
        /\ \A i \in DOMAIN symbols[id] :
               \/ symbols[id][i].status \in {"DONE", "ERRORED"}
               \/ LET when == Globals[sources[id]][i].under IN
                   when # 0 /\ symbols[id][when].status \in {"ERRORED", "WAITING"}

(***************************************************************************)
(* setStatusInQueue's assertion: "Can only set `IN_QUEUE` (with this       *)
(* method) if status is `WAITING` or `SUSPENDED`".  A symbol that has been *)
(* queued by another way is not queued again.                              *)
(***************************************************************************)
QueuedWhenWaiting ==
    \A w \in Worker : pc[w] = "set_in_queue" => symbols[source[w]][target[w]].status = "WAITING"

(***************************************************************************)
(* An import comes back.  "Fixed inifinite loop if multiple `@import` had  *)
(* the same path and there was an error" (CHANGELOG.md).                   *)
(***************************************************************************)
ImportReturns ==
    \A w \in Worker : pc[w] \notin {"idle", "run"} ~> pc[w] \in {"idle", "run"}

=============================================================================
