-------------------------- MODULE SourceLoadingProofs --------------------------
(***************************************************************************)
(* Proofs about SourceLoading: its type invariant, and that no file is     *)
(* loaded twice, for any number of workers, files and imports.             *)
(*                                                                         *)
(* A worker owns a path from Claim until its Source is there: the path is  *)
(* in current_dynamic_file_load and no other worker owns it.  Afterwards   *)
(* the path stays in current_dynamic_file_load, because the loader erases  *)
(* the path it has given away and not the one it loaded.                   *)
(***************************************************************************)
EXTENDS SourceLoading, SequenceTheorems, TLAPS

SymbolState == [status : Status, waits : BOOLEAN, queued : Nat]

-----------------------------------------------------------------------------
(* The inductive invariant *)

\* The sources loaded before stay, and a Source has no symbols but its own.
Prefix ==
    /\ \A id \in DOMAIN Initial : id \in Source /\ sources[id] = Initial[id]
    /\ \A id \in Source : DOMAIN symbols[id] \subseteq DOMAIN Globals[sources[id]]

\* A worker that does not idle has a symbol, and one that imports a path.
JobOK(w) ==
    /\ pc[w] # "idle" => job[w][1] \in Source /\ job[w][2] \in DOMAIN Globals[Caller(w)]
    /\ pc[w] \notin {"idle", "run"} => inst[w] \in DOMAIN Imports(w) /\ file_path(w) \in Path
    /\ pc[w] \in {"wait_ready", "build", "erase", "queue", "set_in_queue"} =>
           source[w] # NoSource
    /\ pc[w] = "build" => sources[source[w]] = file_path(w)
    /\ pc[w] = "claim" => \A id \in DOMAIN Initial : Initial[id] # file_path(w)

Jobs == \A w \in Worker : JobOK(w)

\* The worker has claimed its path, and there is no Source with it yet.
Owns(w) ==
    \/ pc[w] \in {"exists", "load"}
    \/ pc[w] = "erase_failed" /\ source[w] = NoSource

Owned ==
    /\ \A w \in Worker : Owns(w) =>
           file_path(w) \in current_dynamic_file_load /\ ~IsSource(file_path(w))
    /\ \A v, w \in Worker : Owns(v) /\ Owns(w) /\ file_path(v) = file_path(w) => v = w

\* What has been loaded stays in current_dynamic_file_load.
Kept == \A id \in Source \ DOMAIN Initial : sources[id] \in current_dynamic_file_load

IInv == TypeOK /\ Prefix /\ Jobs /\ Owned /\ Kept /\ LoadedOnce

-----------------------------------------------------------------------------
(* What a worker knows of its symbol *)

\* The IDs are those of a sequence, and each Source has its symbols.
LEMMA SourceIDs ==
    ASSUME TypeOK
    PROVE  /\ Len(sources) \in Nat /\ Source = 1 .. Len(sources)
           /\ \A id \in Source : sources[id] \in Path /\ id # NoSource
           /\ DOMAIN symbols = Source
           /\ \A id \in Source : symbols[id] \in Seq(SymbolState)
<1>1. sources \in Seq(Path) /\ symbols \in [Source -> Seq(SymbolState)]
  BY DEF TypeOK, SymbolState
<1>2. Len(sources) \in Nat /\ Source = 1 .. Len(sources)
  BY <1>1 DEF Source
<1>3. \A id \in Source : sources[id] \in Path
  BY <1>1, <1>2
<1> QED  BY <1>1, <1>2, <1>3 DEF NoSource

\* A symbol's imports, and the one it is at.
LEMMA ImportType ==
    ASSUME TypeOK, NEW w \in Worker, JobOK(w), pc[w] # "idle"
    PROVE  /\ job[w][1] \in Source /\ Caller(w) \in Path
           /\ Imports(w) \in Seq(Path \cup {EmptyPath})
           /\ inst[w] <= Len(Imports(w)) =>
                  inst[w] \in DOMAIN Imports(w) /\ file_path(w) \in Path \cup {EmptyPath}
<1>1. job[w][1] \in Source /\ Caller(w) \in Path
  BY SourceIDs DEF JobOK, Caller
<1>2. Globals[Caller(w)] \in Seq(Global) /\ job[w][2] \in DOMAIN Globals[Caller(w)]
  BY <1>1, GlobalsAssumption DEF JobOK
<1>3. Globals[Caller(w)][job[w][2]] \in Global
  BY <1>2
<1>4. Imports(w) \in Seq(Path \cup {EmptyPath})
  BY <1>3 DEF Global, Imports
<1>5. ASSUME inst[w] <= Len(Imports(w))
      PROVE  inst[w] \in DOMAIN Imports(w) /\ file_path(w) \in Path \cup {EmptyPath}
  <2>1. inst[w] \in Nat \ {0}
    BY DEF TypeOK
  <2>2. inst[w] \in 1 .. Len(Imports(w)) /\ DOMAIN Imports(w) = 1 .. Len(Imports(w))
    BY <1>4, <1>5, <2>1
  <2> QED  BY <1>4, <2>2 DEF file_path
<1> QED  BY <1>1, <1>4, <1>5

\* A symbol that is queued, done or released has a state.
LEMMA StateChange ==
    ASSUME NEW s \in SymbolState
    PROVE  /\ AddTask(s) \in SymbolState
           /\ [s EXCEPT !.status = "DONE"] \in SymbolState
           /\ [s EXCEPT !.waits = FALSE] \in SymbolState
<1>1. s.status \in Status /\ s.waits \in BOOLEAN /\ s.queued + 1 \in Nat
  BY DEF SymbolState
<1>2. \A n \in Nat : [s EXCEPT !.status = "IN_QUEUE", !.queued = n] \in SymbolState
  BY DEF SymbolState, Status
<1>3. AddTask(s) = [s EXCEPT !.status = "IN_QUEUE", !.queued = s.queued + 1]
  BY DEF AddTask, SymbolState
<1>4. AddTask(s) \in SymbolState
  BY <1>1, <1>2, <1>3
<1> QED  BY <1>4 DEF SymbolState, Status

\* The symbols of one Source change, and no symbol comes or goes.
LEMMA SymbolChange ==
    ASSUME TypeOK, NEW id \in Source, NEW t \in [DOMAIN symbols[id] -> SymbolState],
           symbols' = [symbols EXCEPT ![id] = t]
    PROVE  /\ symbols' \in [Source -> Seq(SymbolState)]
           /\ \A j \in Source : DOMAIN symbols'[j] = DOMAIN symbols[j]
<1>1. DOMAIN symbols[id] = 1 .. Len(symbols[id]) /\ Len(symbols[id]) \in Nat
  BY SourceIDs
<1>2. t \in Seq(SymbolState)
  BY <1>1
<1>3. symbols \in [Source -> Seq(SymbolState)]
  BY DEF TypeOK, SymbolState
<1> QED  BY <1>2, <1>3

LEMMA SetStatusChange ==
    ASSUME TypeOK, NEW w \in Worker, job[w][1] \in Source, NEW value \in Status,
           SetStatus(w, value)
    PROVE  /\ symbols' \in [Source -> Seq(SymbolState)]
           /\ \A j \in Source : DOMAIN symbols'[j] = DOMAIN symbols[j]
<1> DEFINE s == symbols[job[w][1]]
           t == [s EXCEPT ![job[w][2]].status = value]
<1>1. s \in [DOMAIN s -> SymbolState]
  BY SourceIDs
<1>2. t \in [DOMAIN s -> SymbolState]
  BY <1>1 DEF SymbolState
<1>3. symbols' = [symbols EXCEPT ![job[w][1]] = t]
  BY DEF SetStatus
<1> QED  BY <1>2, <1>3, SymbolChange

\* The new symbols of a Source are those of the file.
LEMMA BuiltType ==
    ASSUME NEW p \in Path
    PROVE  Built(p) \in [DOMAIN Globals[p] -> SymbolState] /\ Built(p) \in Seq(SymbolState)
<1>1. Globals[p] \in Seq(Global)
  BY GlobalsAssumption
<1>2. DOMAIN Globals[p] = 1 .. Len(Globals[p]) /\ Len(Globals[p]) \in Nat
  BY <1>1
<1>3. Built(p) \in [DOMAIN Globals[p] -> SymbolState]
  BY DEF Built, SymbolState, Status
<1> QED  BY <1>2, <1>3

\* What Append makes of a function on 1 .. n.
LEMMA AppendFunction ==
    ASSUME NEW S, NEW n \in Nat, NEW f \in [1 .. n -> S], NEW e \in S
    PROVE  Append(f, e) \in [1 .. n + 1 -> S]
<1>1. f \in Seq(S) /\ Len(f) = n
  OBVIOUS
<1>2. Append(f, e) \in Seq(S) /\ Len(Append(f, e)) = n + 1
  BY <1>1
<1> QED  BY <1>2, LenProperties

\* A Source is added at the end.
LEMMA Added ==
    ASSUME TypeOK, NEW p \in Path, NEW n, n = Len(sources) + 1,
           sources' = Append(sources, p),
           is_ready_for_sema' = Append(is_ready_for_sema, FALSE),
           symbols' = Append(symbols, <<>>)
    PROVE  /\ sources' \in Seq(Path) /\ n \notin Source /\ Source' = Source \cup {n}
           /\ sources'[n] = p /\ \A id \in Source : sources'[id] = sources[id]
           /\ is_ready_for_sema' \in [Source' -> BOOLEAN]
           /\ symbols' \in [Source' -> Seq(SymbolState)]
           /\ symbols'[n] = <<>> /\ \A id \in Source : symbols'[id] = symbols[id]
<1> DEFINE m == Len(sources)
<1>1. m \in Nat /\ Source = 1 .. m /\ sources \in Seq(Path)
  BY SourceIDs DEF TypeOK
<1>2. /\ symbols \in [Source -> Seq(SymbolState)]
      /\ is_ready_for_sema \in [Source -> BOOLEAN]
  BY DEF TypeOK, SymbolState
<1>3. /\ sources \in [1 .. m -> Path] /\ symbols \in [1 .. m -> Seq(SymbolState)]
      /\ is_ready_for_sema \in [1 .. m -> BOOLEAN]
  BY <1>1, <1>2
<1> HIDE DEF m
<1>4. <<>> \in Seq(SymbolState)
  OBVIOUS
<1>5. /\ DOMAIN sources' = 1 .. m + 1 /\ sources'[m + 1] = p
      /\ \A id \in 1 .. m : sources'[id] = sources[id]
  BY <1>1 DEF m
<1> DEFINE T == Seq(SymbolState)
<1>6. symbols \in [1 .. m -> T] /\ <<>> \in T
  BY <1>3, <1>4
<1> HIDE DEF T
<1>7. symbols \in Seq(T) /\ Len(symbols) = m
  BY <1>1, <1>6
<1>8. /\ symbols' \in [1 .. m + 1 -> T] /\ symbols'[m + 1] = <<>>
      /\ \A id \in 1 .. m : symbols'[id] = symbols[id]
  <2>1. symbols' \in [1 .. m + 1 -> T]
    BY <1>1, <1>6, AppendFunction
  <2> QED  BY <1>7, <2>1
<1>9. is_ready_for_sema' \in [1 .. m + 1 -> BOOLEAN]
  BY <1>1, <1>3, AppendFunction
<1>10. sources' \in Seq(Path)
  BY <1>1
<1>11. Source' = 1 .. m + 1
  BY <1>5 DEF Source
<1>12. n = m + 1 /\ n \notin Source /\ Source' = Source \cup {n}
  BY <1>1, <1>11 DEF m
<1> QED  BY <1>1, <1>5, <1>8, <1>9, <1>10, <1>11, <1>12 DEF T

\* With each path once, the first Source with a path is the only one.
LEMMA FoundType ==
    ASSUME TypeOK, LoadedOnce, NEW p, IsSource(p)
    PROVE  Found(p) \in Source /\ sources[Found(p)] = p
<1>1. PICK id \in Source : sources[id] = p
  BY DEF IsSource
<1>2. {j \in Source : sources[j] = p} = {id}
  BY <1>1 DEF LoadedOnce
<1>3. id \in Nat
  BY SourceIDs
<1>4. Found(p) = id
  BY <1>2, <1>3 DEF Found, Min
<1> QED  BY <1>1, <1>4

-----------------------------------------------------------------------------
(* The steps *)

\* A step leaves the other workers alone, and the sources and their symbols
\* only grow.
LEMMA Frame ==
    ASSUME TypeOK, Prefix, Jobs, NEW w \in Worker, WorkerStep(w)
    PROVE  /\ \A v \in Worker \ {w} : /\ pc'[v] = pc[v] /\ job'[v] = job[v]
                                     /\ inst'[v] = inst[v] /\ source'[v] = source[v]
           /\ \A id \in Source : id \in Source' /\ sources'[id] = sources[id]
<1>0. /\ pc \in [Worker -> WorkerPC] /\ DOMAIN job = Worker /\ DOMAIN inst = Worker
      /\ DOMAIN source = Worker
  BY DEF TypeOK
<1>1. \A v \in Worker \ {w} : /\ pc'[v] = pc[v] /\ job'[v] = job[v]
                              /\ inst'[v] = inst[v] /\ source'[v] = source[v]
  <2>1. /\ UNCHANGED pc \/ \E l : pc' = [pc EXCEPT ![w] = l]
        /\ UNCHANGED job \/ \E j : job' = [job EXCEPT ![w] = j]
        /\ UNCHANGED inst \/ \E n : inst' = [inst EXCEPT ![w] = n]
        /\ UNCHANGED source \/ \E n : source' = [source EXCEPT ![w] = n]
    BY DEF WorkerStep, Take, Finish, EmptyImport, SelfImport, LookUp, Claim, WaitFailed,
           WaitLookUp, WaitReady, Exists, Load, Build, Erase, RecordFailedLoad, Look, SetInQueue,
           Ready, ReturnSource, ReturnError, Goto, Leave, locals, queueing, manager
  <2> QED  BY <1>0, <2>1
<1>2. \A id \in Source : id \in Source' /\ sources'[id] = sources[id]
  <2>1. CASE UNCHANGED sources
    BY <2>1 DEF Source
  <2>2. CASE sources' = Append(sources, file_path(w))
    <3>1. sources \in Seq(Path) /\ Source = 1 .. Len(sources)
      BY SourceIDs DEF TypeOK
    <3>2. Len(sources) \in Nat /\ Source' = 1 .. Len(sources) + 1
      BY <2>2, <3>1 DEF Source
    <3> QED  BY <2>2, <3>1, <3>2
  <2> QED
    BY <2>1, <2>2 DEF WorkerStep, Take, Finish, EmptyImport, SelfImport, LookUp, Claim,
           WaitFailed, WaitLookUp, WaitReady, Exists, Load, Build, Erase, RecordFailedLoad, Look,
           SetInQueue, Ready, ReturnSource, ReturnError, manager, locals
<1> QED  BY <1>1, <1>2

\* The Sources and their symbols.
LEMMA ManagerStep ==
    ASSUME TypeOK, Prefix, Jobs, NEW w \in Worker, WorkerStep(w)
    PROVE  /\ sources' \in Seq(Path) /\ is_ready_for_sema' \in [Source' -> BOOLEAN]
           /\ symbols' \in [Source' -> Seq(SymbolState)]
           /\ Prefix'
<1> DEFINE Goal == /\ sources' \in Seq(Path) /\ is_ready_for_sema' \in [Source' -> BOOLEAN]
                   /\ symbols' \in [Source' -> Seq(SymbolState)]
                   /\ Prefix'
           Bounded == \A id \in Source : DOMAIN symbols'[id] \subseteq DOMAIN Globals[sources[id]]
           Grow == symbols' \in [Source -> Seq(SymbolState)] /\ Bounded
<1>0. /\ sources \in Seq(Path) /\ is_ready_for_sema \in [Source -> BOOLEAN]
      /\ symbols \in [Source -> Seq(SymbolState)] /\ JobOK(w)
  BY DEF TypeOK, SymbolState, Jobs
<1>1. ASSUME UNCHANGED manager, Grow PROVE Goal
  BY <1>0, <1>1 DEF manager, Source, Prefix
<1>2. ASSUME NEW id \in Source, NEW t \in [DOMAIN symbols[id] -> SymbolState],
             symbols' = [symbols EXCEPT ![id] = t]
      PROVE  Grow
  BY <1>2, SymbolChange DEF Prefix
<1>3. ASSUME NEW id \in Source, NEW i \in DOMAIN symbols[id]
      PROVE  symbols[id][i] \in SymbolState
  BY SourceIDs
<1>4. ASSUME NEW id \in Source, NEW i \in DOMAIN symbols[id], Take(w, id, i) PROVE Goal
  <2> DEFINE t == [symbols[id] EXCEPT ![i].queued = @ - 1, ![i].status = "WORKING"]
  <2>1. symbols[id] \in [DOMAIN symbols[id] -> SymbolState] /\ symbols[id][i].queued > 0
    BY <1>3, <1>4, SourceIDs DEF Take
  <2>2. t \in [DOMAIN symbols[id] -> SymbolState]
    BY <2>1 DEF SymbolState, Status
  <2>3. symbols' = [symbols EXCEPT ![id] = t] /\ UNCHANGED manager
    BY <1>4 DEF Take
  <2> QED  BY <1>1, <1>2, <2>2, <2>3
<1>5. CASE Finish(w)
  <2> DEFINE id == job[w][1]
             t == [i \in DOMAIN symbols[id] |->
                    LET s == symbols[id][i]
                        freed == [s EXCEPT !.waits = FALSE] IN
                    IF i = job[w][2] THEN [s EXCEPT !.status = "DONE"]
                    ELSE IF Globals[Caller(w)][i].under # job[w][2] THEN s
                    ELSE IF s.status = "WAITING" THEN AddTask(freed)
                    ELSE freed]
  <2>1. id \in Source
    BY <1>0, <1>5 DEF Finish, JobOK
  <2>2. t \in [DOMAIN symbols[id] -> SymbolState]
    <3> SUFFICES ASSUME NEW i \in DOMAIN symbols[id] PROVE t[i] \in SymbolState
      OBVIOUS
    <3> DEFINE s == symbols[id][i]
    <3>1. /\ s \in SymbolState /\ [s EXCEPT !.status = "DONE"] \in SymbolState
          /\ [s EXCEPT !.waits = FALSE] \in SymbolState
          /\ AddTask([s EXCEPT !.waits = FALSE]) \in SymbolState
      BY <1>3, <2>1, StateChange
    <3> QED  BY <3>1
  <2>3. symbols' = [symbols EXCEPT ![id] = t] /\ UNCHANGED manager
    BY <1>0, <1>5, <2>1 DEF Finish
  <2> QED  BY <1>1, <1>2, <2>1, <2>2, <2>3
<1>6. CASE EmptyImport(w) \/ SelfImport(w) \/ LookUp(w) \/ Claim(w) \/ WaitFailed(w)
           \/ WaitLookUp(w) \/ WaitReady(w) \/ Exists(w) \/ Erase(w) \/ RecordFailedLoad(w)
           \/ (\E i \in left[w] : Look(w, i))
  <2>1. UNCHANGED manager /\ (UNCHANGED symbols \/ SetStatus(w, "ERRORED"))
    BY <1>6 DEF EmptyImport, SelfImport, LookUp, Claim, WaitFailed, WaitLookUp, WaitReady, Exists,
                Erase, RecordFailedLoad, Look, ReturnSource, ReturnError, manager, locals
  <2>2. CASE UNCHANGED symbols
    BY <1>0, <1>1, <2>1, <2>2 DEF Prefix
  <2>3. CASE SetStatus(w, "ERRORED")
    <3>1. pc[w] # "idle"
      BY <1>6, <2>3 DEF EmptyImport, SelfImport, LookUp, Claim, WaitFailed, WaitLookUp, WaitReady,
                Exists, Erase, RecordFailedLoad, Look, Importing
    <3>2. job[w][1] \in Source
      BY <1>0, <3>1 DEF JobOK
    <3> QED  BY <1>1, <2>1, <2>3, <3>2, SetStatusChange DEF Status, Prefix
  <2> QED  BY <2>1, <2>2, <2>3
<1>7. CASE SetInQueue(w)
  <2> DEFINE id == source[w]
             t == [symbols[id] EXCEPT ![target[w]] = AddTask(@)]
  <2>1. id \in Source
    BY <1>0, <1>7 DEF SetInQueue, JobOK, TypeOK
  <2>2. t \in [DOMAIN symbols[id] -> SymbolState]
    <3>1. symbols[id] \in [DOMAIN symbols[id] -> SymbolState]
      BY <1>3, <2>1, SourceIDs
    <3>2. \A i \in DOMAIN symbols[id] : AddTask(symbols[id][i]) \in SymbolState
      BY <1>3, <2>1, StateChange
    <3> QED  BY <3>1, <3>2
  <2>3. symbols' = [symbols EXCEPT ![id] = t] /\ UNCHANGED manager
    BY <1>7 DEF SetInQueue
  <2> QED  BY <1>1, <1>2, <2>1, <2>2, <2>3
<1>8. CASE Build(w)
  <2>1. source[w] \in Source /\ sources[source[w]] = file_path(w) /\ file_path(w) \in Path
    BY <1>0, <1>8 DEF Build, JobOK, TypeOK
  <2>2. UNCHANGED symbols \/ symbols' = [symbols EXCEPT ![source[w]] = Built(file_path(w))]
    BY <1>8 DEF Build
  <2>3. Grow
    <3>1. CASE UNCHANGED symbols
      BY <1>0, <3>1 DEF Prefix
    <3>2. CASE symbols' = [symbols EXCEPT ![source[w]] = Built(file_path(w))]
      <4> DEFINE id == source[w]
                 b == Built(file_path(w))
      <4>1. b \in Seq(SymbolState) /\ DOMAIN b \subseteq DOMAIN Globals[sources[id]]
        BY <2>1, BuiltType
      <4> HIDE DEF b
      <4>2. symbols' = [symbols EXCEPT ![id] = b] /\ id \in Source
        BY <2>1, <3>2 DEF b
      <4>3. symbols' \in [Source -> Seq(SymbolState)]
        BY <1>0, <4>1, <4>2
      <4>4. ASSUME NEW i \in Source
            PROVE  DOMAIN symbols'[i] \subseteq DOMAIN Globals[sources[i]]
        <5>1. CASE i = id
          BY <1>0, <4>1, <4>2, <5>1
        <5>2. CASE i # id
          BY <1>0, <4>2, <5>2 DEF Prefix
        <5> QED  BY <5>1, <5>2
      <4> QED  BY <4>3, <4>4
    <3> QED  BY <2>2, <3>1, <3>2
  <2> QED  BY <1>1, <1>8, <2>3 DEF Build
<1>9. CASE Load(w)
  <2>1. CASE UNCHANGED <<manager, symbols>>
    BY <1>0, <1>1, <2>1 DEF Prefix
  <2>2. CASE sources' = Append(sources, file_path(w))
             /\ is_ready_for_sema' = Append(is_ready_for_sema, FALSE)
             /\ symbols' = Append(symbols, <<>>)
    <3>1. file_path(w) \in Path
      BY <1>0, <1>9 DEF Load, JobOK
    <3>2. PICK n : n = Len(sources) + 1
      OBVIOUS
    <3>3. /\ sources' \in Seq(Path) /\ Source' = Source \cup {n}
          /\ \A id \in Source : sources'[id] = sources[id] /\ symbols'[id] = symbols[id]
          /\ is_ready_for_sema' \in [Source' -> BOOLEAN]
          /\ symbols' \in [Source' -> Seq(SymbolState)] /\ symbols'[n] = <<>>
      BY <2>2, <3>1, <3>2, Added
    <3>4. DOMAIN symbols'[n] = {}
      BY <3>3
    <3> QED  BY <3>3, <3>4 DEF Prefix
  <2> QED  BY <1>9, <2>1, <2>2 DEF Load
<1>10. CASE Ready(w)
  BY <1>0, <1>10 DEF Ready, ReturnSource, Prefix, Source
<1> QED  BY <1>4, <1>5, <1>6, <1>7, <1>8, <1>9, <1>10 DEF WorkerStep

\* The sets of loads in progress and of failures.
LEMMA LoadsStep ==
    ASSUME TypeOK, Jobs, NEW w \in Worker, WorkerStep(w)
    PROVE  /\ current_dynamic_file_load' \subseteq Path
           /\ current_dynamic_file_load_failed' \in
                  [DOMAIN current_dynamic_file_load_failed' -> Error]
<1>0. /\ current_dynamic_file_load \subseteq Path /\ JobOK(w)
      /\ current_dynamic_file_load_failed \in [DOMAIN current_dynamic_file_load_failed -> Error]
  BY DEF TypeOK, Jobs
<1>1. current_dynamic_file_load' \subseteq Path
  <2>1. CASE Claim(w)
    BY <1>0, <2>1 DEF Claim, JobOK
  <2>2. CASE ~Claim(w)
    <3>1. current_dynamic_file_load' \subseteq current_dynamic_file_load
      BY <2>2 DEF WorkerStep, Take, Finish, EmptyImport, SelfImport, LookUp, WaitFailed, WaitLookUp,
             WaitReady, Exists, Load, Build, Erase, RecordFailedLoad, Look, SetInQueue, Ready,
             loads, locals, manager
    <3> QED  BY <1>0, <3>1
  <2> QED  BY <2>1, <2>2
<1>2. \/ UNCHANGED current_dynamic_file_load_failed
      \/ \E q : \E error \in Error : RecordFailed(q, error)
  BY DEF WorkerStep, Take, Finish, EmptyImport, SelfImport, LookUp, Claim, WaitFailed, WaitLookUp,
         WaitReady, Exists, Load, Build, Erase, RecordFailedLoad, Look, SetInQueue, Ready, loads,
         locals, manager, Error
<1>3. ASSUME NEW q, NEW error \in Error, RecordFailed(q, error)
      PROVE  current_dynamic_file_load_failed' \in
                 [DOMAIN current_dynamic_file_load_failed' -> Error]
  BY <1>0, <1>3 DEF RecordFailed
<1> QED  BY <1>0, <1>1, <1>2, <1>3

\* Whose symbol is the same imports the same.
LEMMA SamePlace ==
    ASSUME NEW v \in Worker, job'[v] = job[v], inst'[v] = inst[v],
           sources'[job[v][1]] = sources[job[v][1]]
    PROVE  Caller(v)' = Caller(v) /\ Imports(v)' = Imports(v) /\ file_path(v)' = file_path(v)
BY DEF Caller, Imports, file_path

\* The symbol, the instruction and the Source of a worker.
LEMMA LocalsStep ==
    ASSUME TypeOK, Prefix, Jobs, LoadedOnce, NEW w \in Worker, WorkerStep(w)
    PROVE  /\ pc' \in [Worker -> WorkerPC]
           /\ job' \in [Worker -> (Source' \cup {0}) \X Nat]
           /\ inst' \in [Worker -> Nat \ {0}]
           /\ source' \in [Worker -> Source' \cup {NoSource}]
<1>0. /\ pc \in [Worker -> WorkerPC] /\ job \in [Worker -> (Source \cup {0}) \X Nat]
      /\ inst \in [Worker -> Nat \ {0}] /\ source \in [Worker -> Source \cup {NoSource}]
      /\ JobOK(w)
  BY DEF TypeOK, Jobs
<1>1. Source \subseteq Source'
  BY Frame
<1>2. UNCHANGED pc \/ \E label \in WorkerPC : Goto(w, label)
  BY DEF WorkerStep, Take, Finish, EmptyImport, SelfImport, LookUp, Claim, WaitFailed, WaitLookUp,
         WaitReady, Exists, Load, Build, Erase, RecordFailedLoad, Look, SetInQueue, Ready,
         ReturnSource, ReturnError, Leave, WorkerPC
<1>3. job' \in [Worker -> (Source \cup {0}) \X Nat]
  <2>1. ASSUME NEW id \in Source, NEW i \in DOMAIN symbols[id], Take(w, id, i)
        PROVE  job' \in [Worker -> (Source \cup {0}) \X Nat]
    <3>1. i \in Nat
      BY SourceIDs
    <3> QED  BY <1>0, <2>1, <3>1 DEF Take
  <2>2. CASE UNCHANGED job \/ job' = [job EXCEPT ![w] = NoJob]
    BY <1>0, <2>2 DEF NoJob
  <2> QED
    BY <2>1, <2>2 DEF WorkerStep, Finish, EmptyImport, SelfImport, LookUp, Claim, WaitFailed,
         WaitLookUp, WaitReady, Exists, Load, Build, Erase, RecordFailedLoad, Look, SetInQueue,
         Ready, ReturnSource, ReturnError, Leave, locals
<1>4. UNCHANGED inst \/ inst' = [inst EXCEPT ![w] = 1] \/ inst' = [inst EXCEPT ![w] = @ + 1]
  BY DEF WorkerStep, Take, Finish, EmptyImport, SelfImport, LookUp, Claim, WaitFailed, WaitLookUp,
         WaitReady, Exists, Load, Build, Erase, RecordFailedLoad, Look, SetInQueue, Ready,
         ReturnSource, ReturnError, locals
<1>5. source' \in [Worker -> Source' \cup {NoSource}]
  <2>1. CASE WaitLookUp(w)
    BY <1>0, <1>1, <2>1, FoundType DEF WaitLookUp
  <2>2. CASE Load(w)
    <3>1. CASE source' = [source EXCEPT ![w] = NoSource]
      BY <1>0, <1>1, <3>1
    <3>2. CASE /\ source' = [source EXCEPT ![w] = Len(sources) + 1]
               /\ sources' = Append(sources, file_path(w))
               /\ is_ready_for_sema' = Append(is_ready_for_sema, FALSE)
               /\ symbols' = Append(symbols, <<>>)
      <4>1. file_path(w) \in Path
        BY <1>0, <2>2 DEF Load, JobOK
      <4>2. Len(sources) + 1 \in Source'
        BY <3>2, <4>1, Added
      <4> QED  BY <1>0, <1>1, <3>2, <4>2
    <3> QED  BY <2>2, <3>1, <3>2 DEF Load
  <2>3. CASE UNCHANGED source
    BY <1>0, <1>1, <2>3
  <2> QED
    BY <2>1, <2>2, <2>3 DEF WorkerStep, Take, Finish, EmptyImport, SelfImport, LookUp, Claim,
         WaitFailed, WaitReady, Exists, Build, Erase, RecordFailedLoad, Look, SetInQueue, Ready,
         locals
<1>6. pc' \in [Worker -> WorkerPC]
  BY <1>0, <1>2 DEF Goto
<1>7. inst' \in [Worker -> Nat \ {0}]
  BY <1>0, <1>4
<1> QED  BY <1>1, <1>3, <1>5, <1>6, <1>7

\* The symbols a loader has still to queue.
LEMMA QueueingStep ==
    ASSUME TypeOK, Jobs, NEW w \in Worker, WorkerStep(w)
    PROVE  left' \in [Worker -> SUBSET Nat] /\ target' \in [Worker -> Nat]
<1>0. left \in [Worker -> SUBSET Nat] /\ target \in [Worker -> Nat] /\ JobOK(w)
  BY DEF TypeOK, Jobs
<1>1. CASE Erase(w)
  <2>1. CASE UNCHANGED left
    BY <1>0, <1>1, <2>1 DEF Erase
  <2>2. CASE pc[w] = "erase" /\ left' = [left EXCEPT ![w] = DOMAIN symbols[source[w]]]
    <3>1. source[w] \in Source
      BY <1>0, <2>2 DEF JobOK, TypeOK
    <3>2. DOMAIN symbols[source[w]] \in SUBSET Nat
      BY <3>1, SourceIDs
    <3> QED  BY <1>0, <1>1, <2>2, <3>2 DEF Erase
  <2> QED  BY <1>1, <2>1, <2>2 DEF Erase
<1>2. ASSUME NEW i \in left[w], Look(w, i)
      PROVE  left' \in [Worker -> SUBSET Nat] /\ target' \in [Worker -> Nat]
  <2>1. i \in Nat /\ left' = [left EXCEPT ![w] = @ \ {i}]
        /\ (UNCHANGED target \/ target' = [target EXCEPT ![w] = i])
    BY <1>0, <1>2 DEF Look
  <2> QED  BY <1>0, <2>1
<1>3. CASE UNCHANGED queueing
  BY <1>0, <1>3 DEF queueing
<1> QED
  BY <1>1, <1>2, <1>3 DEF WorkerStep, Take, Finish, EmptyImport, SelfImport, LookUp, Claim,
     WaitFailed, WaitLookUp, WaitReady, Exists, Load, Build, RecordFailedLoad, SetInQueue, Ready,
     locals

\* What imports return.
LEMMA AnswersStep ==
    ASSUME TypeOK, Jobs, LoadedOnce, NEW w \in Worker, WorkerStep(w)
    PROVE  answers' \subseteq (Path \cup {EmptyPath}) \X (Path \cup Error)
<1>0. /\ answers \subseteq (Path \cup {EmptyPath}) \X (Path \cup Error) /\ JobOK(w)
      /\ current_dynamic_file_load_failed \in [DOMAIN current_dynamic_file_load_failed -> Error]
      /\ source[w] \in Source \cup {NoSource}
  BY DEF TypeOK, Jobs
<1>1. UNCHANGED answers \/ pc[w] \notin {"idle", "run"} \/ Importing(w)
  BY DEF WorkerStep, Take, Finish, EmptyImport, SelfImport, LookUp, Claim, WaitFailed, WaitLookUp,
         WaitReady, Exists, Load, Build, Erase, RecordFailedLoad, Look, SetInQueue, Ready, locals
<1>2. \/ UNCHANGED answers
      \/ \E error \in Error : ReturnError(w, error)
      \/ ReturnSource(w, source[w]) /\ pc[w] \in {"wait_ready", "queue"}
      \/ ReturnSource(w, Found(file_path(w))) /\ IsSource(file_path(w))
  BY <1>0 DEF WorkerStep, Take, Finish, EmptyImport, SelfImport, LookUp, Claim, WaitFailed, WaitLookUp,
         WaitReady, Exists, Load, Build, Erase, RecordFailedLoad, Look, SetInQueue, Ready, locals,
         Error
<1>3. CASE pc[w] \notin {"idle", "run"} \/ Importing(w)
  <2>1. file_path(w) \in Path \cup {EmptyPath}
    BY <1>0, <1>3, ImportType DEF Importing, JobOK
  <2>2. ASSUME NEW error \in Error, ReturnError(w, error)
        PROVE  answers' \subseteq (Path \cup {EmptyPath}) \X (Path \cup Error)
    BY <1>0, <2>1, <2>2 DEF ReturnError
  <2>3. ASSUME NEW id \in Source, ReturnSource(w, id)
        PROVE  answers' \subseteq (Path \cup {EmptyPath}) \X (Path \cup Error)
    BY <1>0, <2>1, <2>3, SourceIDs DEF ReturnSource
  <2>4. pc[w] \in {"wait_ready", "queue"} => source[w] \in Source
    BY <1>0 DEF JobOK
  <2>5. IsSource(file_path(w)) => Found(file_path(w)) \in Source
    BY FoundType
  <2> QED  BY <1>0, <1>2, <2>2, <2>3, <2>4, <2>5
<1> QED  BY <1>0, <1>1, <1>3

\* Every step keeps the types.
LEMMA TypeStep ==
    ASSUME TypeOK, Prefix, Jobs, LoadedOnce, NEW w \in Worker, WorkerStep(w)
    PROVE  TypeOK'
<1>1. compile_mode' \in BOOLEAN
  <2>1. UNCHANGED compile_mode
    BY DEF WorkerStep, Take, Finish, EmptyImport, SelfImport, LookUp, Claim, WaitFailed, WaitLookUp,
           WaitReady, Exists, Load, Build, Erase, RecordFailedLoad, Look, SetInQueue, Ready
  <2> QED  BY <2>1 DEF TypeOK
<1> QED
  BY <1>1, ManagerStep, LoadsStep, LocalsStep, QueueingStep, AnswersStep DEF TypeOK, SymbolState

\* A step of w does not concern what another worker does.
LEMMA Others ==
    ASSUME TypeOK, Prefix, Jobs, NEW w \in Worker, WorkerStep(w), NEW v \in Worker \ {w}
    PROVE  /\ JobOK(v)' /\ (Owns(v)' <=> Owns(v))
           /\ pc[v] # "idle" => file_path(v)' = file_path(v)
<1>1. /\ pc'[v] = pc[v] /\ job'[v] = job[v] /\ inst'[v] = inst[v] /\ source'[v] = source[v]
      /\ \A id \in Source : id \in Source' /\ sources'[id] = sources[id]
  BY Frame
<1>2. JobOK(v) /\ source[v] \in Source \cup {NoSource}
  BY DEF Jobs, TypeOK
<1>3. ASSUME pc[v] # "idle"
      PROVE  /\ Caller(v)' = Caller(v) /\ Imports(v)' = Imports(v)
             /\ file_path(v)' = file_path(v)
  <2>1. job[v][1] \in Source
    BY <1>2, <1>3 DEF JobOK
  <2> QED  BY <1>1, <2>1, SamePlace
<1>4. Owns(v)' <=> Owns(v)
  BY <1>1 DEF Owns
<1>5. JobOK(v)'
  <2>1. CASE pc[v] = "idle"
    BY <1>1, <2>1 DEF JobOK
  <2>2. CASE pc[v] # "idle"
    <3>1. job'[v][1] \in Source' /\ job'[v][2] \in DOMAIN Globals[Caller(v)']
      BY <1>1, <1>2, <1>3, <2>2 DEF JobOK
    <3>2. pc'[v] \notin {"idle", "run"} =>
              inst'[v] \in DOMAIN Imports(v)' /\ file_path(v)' \in Path
      BY <1>1, <1>2, <1>3, <2>2 DEF JobOK
    <3>3. pc'[v] \in {"wait_ready", "build", "erase", "queue", "set_in_queue"} =>
              source'[v] # NoSource
      BY <1>1, <1>2 DEF JobOK
    <3>4. pc'[v] = "build" => sources'[source'[v]] = file_path(v)'
      BY <1>1, <1>2, <1>3, <2>2 DEF JobOK
    <3>5. pc'[v] = "claim" => \A id \in DOMAIN Initial : Initial[id] # file_path(v)'
      BY <1>1, <1>2, <1>3, <2>2 DEF JobOK
    <3> QED  BY <3>1, <3>2, <3>3, <3>4, <3>5 DEF JobOK
  <2> QED  BY <2>1, <2>2
<1> QED  BY <1>3, <1>4, <1>5

\* A worker that goes on with its import goes on with the same path.
LEMMA SameImport ==
    ASSUME TypeOK, Prefix, Jobs, NEW w \in Worker, WorkerStep(w), pc[w] # "idle",
           job'[w] = job[w], inst'[w] = inst[w]
    PROVE  Caller(w)' = Caller(w) /\ Imports(w)' = Imports(w) /\ file_path(w)' = file_path(w)
<1>1. job[w][1] \in Source
  BY DEF Jobs, JobOK
<1> QED  BY <1>1, Frame, SamePlace

\* What a step of w makes of w.
LEMMA OwnJob ==
    ASSUME TypeOK, Prefix, Jobs, LoadedOnce, NEW w \in Worker, WorkerStep(w)
    PROVE  JobOK(w)'
<1>0. /\ pc \in [Worker -> WorkerPC] /\ w \in DOMAIN job /\ w \in DOMAIN source /\ JobOK(w)
      /\ source[w] \in Source \cup {NoSource}
  BY DEF TypeOK, Jobs
<1>1. \A id \in Source : id \in Source' /\ sources'[id] = sources[id]
  BY Frame
<1>2. CASE pc'[w] = "idle"
  BY <1>2 DEF JobOK
<1>3. ASSUME NEW id \in Source, NEW i \in DOMAIN symbols[id], Take(w, id, i) PROVE JobOK(w)'
  <2>1. pc'[w] = "run" /\ job'[w] = <<id, i>>
    BY <1>0, <1>3 DEF Take, Goto
  <2>2. job'[w][1] \in Source' /\ Caller(w)' = sources[id] /\ i \in DOMAIN Globals[sources[id]]
    BY <1>1, <2>1 DEF Prefix, Caller
  <2> QED  BY <2>1, <2>2 DEF JobOK
<1>4. CASE Finish(w) \/ EmptyImport(w) \/ SelfImport(w) \/ RecordFailedLoad(w)
  <2>1. pc'[w] = "idle"
    BY <1>0, <1>4 DEF Finish, EmptyImport, SelfImport, RecordFailedLoad, ReturnError, Leave, Goto
  <2> QED  BY <1>2, <2>1
<1>5. ASSUME NEW id, ReturnSource(w, id), pc[w] # "idle" PROVE JobOK(w)'
  <2>1. pc'[w] = "run" /\ UNCHANGED job
    BY <1>0, <1>5 DEF ReturnSource, Goto
  <2>2. job[w][1] \in Source /\ Caller(w)' = Caller(w)
    BY <1>0, <1>1, <1>5, <2>1 DEF JobOK, Caller
  <2> QED  BY <1>0, <1>1, <1>5, <2>1, <2>2 DEF JobOK
<1>6. ASSUME NEW error, ReturnError(w, error) PROVE JobOK(w)'
  <2>1. pc'[w] = "idle"
    BY <1>0, <1>6 DEF ReturnError, Leave, Goto
  <2> QED  BY <1>2, <2>1
<1>7. CASE Claim(w) \/ Build(w) \/ Erase(w) \/ SetInQueue(w) \/ \E i \in left[w] : Look(w, i)
  <2>1. /\ pc[w] \notin {"idle", "run"} /\ UNCHANGED <<job, inst, source>>
        /\ pc'[w] \in {"wait_failed", "exists", "erase_failed", "erase", "record_failed", "queue",
                       "set_in_queue"}
        /\ pc'[w] \in {"erase", "queue", "set_in_queue"} =>
               pc[w] \in {"build", "erase", "set_in_queue", "queue"}
    BY <1>0, <1>7 DEF Claim, Build, Erase, SetInQueue, Look, Goto, locals
  <2>2. Caller(w)' = Caller(w) /\ Imports(w)' = Imports(w) /\ file_path(w)' = file_path(w)
    BY <2>1, SameImport
  <2> QED  BY <1>0, <1>1, <2>1, <2>2 DEF JobOK
<1>8. CASE LookUp(w)
  <2>1. CASE IsSource(file_path(w)) /\ ReturnSource(w, Found(file_path(w)))
    BY <1>5, <1>8, <2>1 DEF LookUp, Importing
  <2>2. CASE ~IsSource(file_path(w)) /\ Goto(w, "claim") /\ UNCHANGED <<job, inst>>
    <3>1. pc[w] = "run" /\ pc'[w] = "claim"
      BY <1>0, <1>8, <2>2 DEF LookUp, Importing, Goto
    <3>2. Caller(w)' = Caller(w) /\ Imports(w)' = Imports(w) /\ file_path(w)' = file_path(w)
      BY <2>2, <3>1, SameImport
    <3>3. inst[w] \in DOMAIN Imports(w) /\ file_path(w) \in Path
      BY <1>0, <1>8, <3>1, ImportType DEF LookUp, Importing
    <3>4. \A id \in DOMAIN Initial : Initial[id] # file_path(w)
      BY <2>2 DEF IsSource, Prefix
    <3> QED  BY <1>0, <1>1, <2>2, <3>1, <3>2, <3>3, <3>4 DEF JobOK
  <2> QED  BY <1>8, <2>1, <2>2 DEF LookUp
<1>9. CASE WaitFailed(w) \/ Exists(w)
  <2>1. CASE \E error : ReturnError(w, error)
    BY <1>6, <2>1
  <2>2. CASE (Goto(w, "wait_lookup") \/ Goto(w, "load")) /\ UNCHANGED <<job, inst>>
    <3>1. pc[w] \notin {"idle", "run"} /\ pc'[w] \in {"wait_lookup", "load"}
      BY <1>0, <1>9, <2>2 DEF WaitFailed, Exists, Goto
    <3>2. Caller(w)' = Caller(w) /\ Imports(w)' = Imports(w) /\ file_path(w)' = file_path(w)
      BY <2>2, <3>1, SameImport
    <3> QED  BY <1>0, <1>1, <2>2, <3>1, <3>2 DEF JobOK
  <2> QED  BY <1>9, <2>1, <2>2 DEF WaitFailed, Exists
<1>10. CASE WaitLookUp(w)
  <2>1. /\ pc[w] = "wait_lookup" /\ UNCHANGED <<job, inst>> /\ pc'[w] \in {"wait_ready", "wait_failed"}
        /\ pc'[w] = "wait_ready" => IsSource(file_path(w)) /\ source'[w] = Found(file_path(w))
    BY <1>0, <1>10 DEF WaitLookUp, Goto
  <2>2. Caller(w)' = Caller(w) /\ Imports(w)' = Imports(w) /\ file_path(w)' = file_path(w)
    BY <2>1, SameImport
  <2>3. pc'[w] = "wait_ready" => source'[w] # NoSource
    BY <2>1, FoundType, SourceIDs
  <2> QED  BY <1>0, <1>1, <2>1, <2>2, <2>3 DEF JobOK
<1>11. CASE Load(w)
  <2>1. pc[w] = "load" /\ UNCHANGED <<job, inst>> /\ pc'[w] \in {"build", "erase_failed"}
    BY <1>0, <1>11 DEF Load, Goto
  <2>2. Caller(w)' = Caller(w) /\ Imports(w)' = Imports(w) /\ file_path(w)' = file_path(w)
    BY <2>1, SameImport
  <2>3. pc'[w] = "build" => source'[w] # NoSource /\ sources'[source'[w]] = file_path(w)
    <3>1. SUFFICES ASSUME pc'[w] = "build"
                   PROVE  source'[w] # NoSource /\ sources'[source'[w]] = file_path(w)
      OBVIOUS
    <3>2. /\ source'[w] = Len(sources) + 1 /\ sources' = Append(sources, file_path(w))
          /\ is_ready_for_sema' = Append(is_ready_for_sema, FALSE)
          /\ symbols' = Append(symbols, <<>>)
      BY <1>0, <1>11, <3>1 DEF Load, Goto
    <3>3. file_path(w) \in Path
      BY <1>0, <2>1 DEF JobOK
    <3>4. sources'[source'[w]] = file_path(w)
      BY <3>2, <3>3, Added
    <3>5. Len(sources) + 1 # 0
      BY SourceIDs
    <3> QED  BY <3>2, <3>4, <3>5 DEF NoSource
  <2> QED  BY <1>0, <1>1, <2>1, <2>2, <2>3 DEF JobOK
<1> QED
  BY <1>3, <1>4, <1>5, <1>7, <1>8, <1>9, <1>10, <1>11 DEF WorkerStep, WaitReady, Ready

\* Who claims, adds or erases a path owns it, or nobody does.
LEMMA OwnedStep ==
    ASSUME TypeOK, Prefix, Jobs, Owned, Kept, LoadedOnce, NEW w \in Worker, WorkerStep(w)
    PROVE  Owned' /\ Kept' /\ LoadedOnce'
<1> DEFINE p == file_path(w)
           Goal == Owned' /\ Kept' /\ LoadedOnce'
<1>0. pc \in [Worker -> WorkerPC] /\ w \in DOMAIN source /\ JobOK(w)
      /\ current_dynamic_file_load \subseteq Path
  BY DEF TypeOK, Jobs
<1>1. \A v \in Worker \ {w} :
          /\ Owns(v)' <=> Owns(v)
          /\ Owns(v) => file_path(v)' = file_path(v)
  BY Others DEF Owns
<1>2. ASSUME UNCHANGED <<sources, current_dynamic_file_load>>,
             Owns(w)' => Owns(w) /\ file_path(w)' = p
      PROVE  Goal
  <2>1. \A v \in Worker : Owns(v)' => Owns(v) /\ file_path(v)' = file_path(v)
    BY <1>1, <1>2
  <2>2. Owned'
    BY <1>2, <2>1 DEF Owned, IsSource, Source
  <2> QED  BY <1>2, <2>2 DEF Kept, LoadedOnce, Source
<1>3. CASE Claim(w)
  <2>1. /\ pc[w] = "claim" /\ UNCHANGED <<sources, job, inst, source>>
        /\ current_dynamic_file_load' = current_dynamic_file_load \cup {p}
        /\ pc'[w] = IF p \in current_dynamic_file_load THEN "wait_failed" ELSE "exists"
    BY <1>0, <1>3 DEF Claim, Goto, locals, manager
  <2>2. file_path(w)' = p
    BY <2>1, SameImport
  <2>3. CASE p \in current_dynamic_file_load
    BY <1>2, <2>1, <2>3 DEF Owns
  <2>4. CASE p \notin current_dynamic_file_load
    <3>1. ~IsSource(p)
      BY <1>0, <2>1, <2>4 DEF IsSource, JobOK, Prefix, Kept
    <3>2. \A v \in Worker : Owns(v)' =>
              file_path(v)' \in current_dynamic_file_load' /\ ~IsSource(file_path(v))'
      <4> SUFFICES ASSUME NEW v \in Worker, Owns(v)'
                   PROVE  file_path(v)' \in current_dynamic_file_load' /\ ~IsSource(file_path(v))'
        OBVIOUS
      <4>1. file_path(v)' \in current_dynamic_file_load' /\ ~IsSource(file_path(v)')
        BY <1>1, <2>1, <2>2, <3>1 DEF Owned
      <4> QED  BY <2>1, <4>1 DEF IsSource, Source
    <3>3. \A u, v \in Worker : Owns(u)' /\ Owns(v)' /\ file_path(u)' = file_path(v)' => u = v
      BY <1>1, <2>2, <2>4 DEF Owned
    <3> QED  BY <2>1, <3>2, <3>3 DEF Owned, Kept, LoadedOnce, Source
  <2> QED  BY <2>3, <2>4
<1>4. CASE Load(w)
  <2>1. pc[w] = "load" /\ UNCHANGED <<job, inst, current_dynamic_file_load>>
    BY <1>4 DEF Load, loads
  <2>2. file_path(w)' = p /\ Owns(w)
    BY <2>1, SameImport DEF Owns
  <2>3. CASE UNCHANGED sources
    BY <1>2, <2>1, <2>2, <2>3
  <2>4. CASE pc'[w] = "build" /\ sources' = Append(sources, p)
             /\ is_ready_for_sema' = Append(is_ready_for_sema, FALSE)
             /\ symbols' = Append(symbols, <<>>)
    <3>1. PICK n : n = Len(sources) + 1
      OBVIOUS
    <3>2. p \in Path /\ p \in current_dynamic_file_load /\ ~IsSource(p)
      BY <1>0, <2>1, <2>2 DEF Owned, JobOK
    <3>3. /\ Source' = Source \cup {n} /\ sources'[n] = p /\ n \notin Source
          /\ \A id \in Source : sources'[id] = sources[id]
      BY <2>4, <3>1, <3>2, Added
    <3>4. ~Owns(w)'
      BY <2>4 DEF Owns
    <3>5. \A v \in Worker : Owns(v)' => v # w /\ Owns(v) /\ file_path(v)' = file_path(v)
      BY <1>1, <3>4
    <3>6. \A v \in Worker : Owns(v)' => file_path(v)' \in current_dynamic_file_load
                                       /\ file_path(v)' # p /\ ~IsSource(file_path(v)')
      BY <2>2, <3>5 DEF Owned
    <3>7. \A v \in Worker : Owns(v)' => ~IsSource(file_path(v))'
      BY <3>3, <3>6 DEF IsSource
    <3>8. Owned'
      BY <2>1, <3>5, <3>6, <3>7 DEF Owned
    <3>9. Kept'
      BY <2>1, <3>2, <3>3 DEF Kept
    <3>10. LoadedOnce'
      BY <3>2, <3>3 DEF LoadedOnce, IsSource
    <3> QED  BY <3>8, <3>9, <3>10
  <2> QED  BY <1>0, <1>4, <2>3, <2>4 DEF Load, Goto, manager
<1>5. CASE Erase(w)
  <2>1. /\ pc[w] \in {"erase", "erase_failed"} /\ UNCHANGED sources
        /\ current_dynamic_file_load' = current_dynamic_file_load \ {path_after_move(w)}
        /\ pc'[w] \in {"record_failed", "queue"}
    BY <1>0, <1>5 DEF Erase, Goto, manager
  <2>2. ~Owns(w)'
    BY <2>1 DEF Owns
  <2>3. CASE source[w] # NoSource
    <3>1. UNCHANGED current_dynamic_file_load
      BY <1>0, <2>1, <2>3, PathAssumption DEF path_after_move
    <3> QED  BY <1>2, <2>1, <2>2, <3>1
  <2>4. CASE source[w] = NoSource
    <3>1. Owns(w) /\ path_after_move(w) = p /\ ~IsSource(p)
      BY <1>0, <2>1, <2>4 DEF Owns, JobOK, path_after_move, Owned
    <3>2. \A v \in Worker : Owns(v)' => v # w /\ Owns(v) /\ file_path(v)' = file_path(v)
      BY <1>1, <2>2
    <3>3. \A v \in Worker : Owns(v)' => file_path(v) \in current_dynamic_file_load'
      BY <2>1, <3>1, <3>2 DEF Owned
    <3>4. \A v \in Worker : Owns(v)' => ~IsSource(file_path(v))'
      BY <2>1, <3>2 DEF Owned, IsSource, Source
    <3>5. Owned'
      BY <3>2, <3>3, <3>4 DEF Owned
    <3>6. Kept' /\ LoadedOnce'
      BY <2>1, <3>1 DEF Kept, LoadedOnce, IsSource, Source
    <3> QED  BY <3>5, <3>6
  <2> QED  BY <2>3, <2>4
<1>6. CASE Exists(w)
  <2>1. pc[w] = "exists" /\ UNCHANGED <<sources, current_dynamic_file_load>>
        /\ (pc'[w] = "idle" \/ UNCHANGED <<job, inst>>)
    BY <1>0, <1>6 DEF Exists, ReturnError, Leave, Goto, manager
  <2>2. Owns(w) /\ (Owns(w)' => file_path(w)' = p)
    BY <2>1, SameImport DEF Owns
  <2> QED  BY <1>2, <2>1, <2>2
<1>7. CASE \/ Finish(w) \/ EmptyImport(w) \/ SelfImport(w) \/ LookUp(w) \/ WaitFailed(w)
           \/ WaitLookUp(w) \/ WaitReady(w) \/ RecordFailedLoad(w) \/ SetInQueue(w) \/ Ready(w)
           \/ (\E i \in left[w] : Look(w, i))
           \/ (\E id \in Source : \E i \in DOMAIN symbols[id] : Take(w, id, i))
  <2>1. UNCHANGED <<sources, current_dynamic_file_load>>
    BY <1>7 DEF Take, Finish, EmptyImport, SelfImport, LookUp, WaitFailed, WaitLookUp, WaitReady,
                RecordFailedLoad, Look, SetInQueue, Ready, manager, loads
  <2>2. pc'[w] \notin {"exists", "load", "erase_failed"}
    BY <1>0, <1>7 DEF Take, Finish, EmptyImport, SelfImport, LookUp, WaitFailed, WaitLookUp,
                WaitReady, RecordFailedLoad, Look, SetInQueue, Ready, ReturnSource, ReturnError,
                Leave, Goto
  <2> QED  BY <1>2, <2>1, <2>2 DEF Owns
<1>8. CASE Build(w)
  <2>1. UNCHANGED <<sources, current_dynamic_file_load, source>> /\ pc[w] = "build"
        /\ pc'[w] \in {"erase", "erase_failed"}
    BY <1>0, <1>8 DEF Build, Goto, manager, loads, locals
  <2>2. ~Owns(w)'
    BY <1>0, <2>1 DEF Owns, JobOK
  <2> QED  BY <1>2, <2>1, <2>2
<1> QED  BY <1>3, <1>4, <1>5, <1>6, <1>7, <1>8 DEF WorkerStep

-----------------------------------------------------------------------------
(* The theorems *)

\* At first nothing is being loaded.
LEMMA InitIInv ==
    ASSUME Init
    PROVE  IInv
<1>1. Initial \in Seq(Path) /\ Source = DOMAIN Initial /\ sources = Initial
      /\ DOMAIN symbols = Source
  BY InitialAssumption DEF Init, Source
<1>2. \A id \in Source : Initial[id] \in Path
  BY <1>1
<1>3. ASSUME NEW id \in Source
      PROVE  symbols[id] \in Seq(SymbolState)
             /\ DOMAIN symbols[id] = DOMAIN Globals[sources[id]]
  <2> DEFINE b == Built(Initial[id])
  <2>1. b \in [DOMAIN Globals[Initial[id]] -> SymbolState] /\ b \in Seq(SymbolState)
    BY <1>2, BuiltType
  <2>2. \A i \in DOMAIN b : AddTask(b[i]) \in SymbolState /\ b[i] \in SymbolState
    BY <2>1, StateChange
  <2>3. symbols[id] = [i \in DOMAIN b |-> IF isWaiting(b[i]) THEN b[i] ELSE AddTask(b[i])]
    BY <1>1 DEF Init
  <2>4. DOMAIN b = 1 .. Len(b) /\ Len(b) \in Nat
    BY <2>1
  <2>5. symbols[id] \in [1 .. Len(b) -> SymbolState]
    BY <2>2, <2>3, <2>4
  <2> HIDE DEF b
  <2>6. symbols[id] \in Seq(SymbolState)
    BY <2>4, <2>5
  <2> QED  BY <1>1, <2>1, <2>3, <2>6
<1>4. symbols \in [Source -> Seq(SymbolState)]
  <2>1. symbols = [id \in Source |-> symbols[id]]
    BY <1>1 DEF Init
  <2> QED  BY <1>3, <2>1
<1>5. TypeOK
  <2>1. /\ compile_mode \in BOOLEAN /\ sources \in Seq(Path)
        /\ is_ready_for_sema \in [Source -> BOOLEAN]
        /\ current_dynamic_file_load \subseteq Path
        /\ current_dynamic_file_load_failed \in [DOMAIN current_dynamic_file_load_failed -> Error]
    BY <1>1 DEF Init, Error
  <2>2. /\ pc \in [Worker -> WorkerPC] /\ job \in [Worker -> (Source \cup {0}) \X Nat]
        /\ inst \in [Worker -> Nat \ {0}] /\ source \in [Worker -> Source \cup {NoSource}]
        /\ left \in [Worker -> SUBSET Nat] /\ target \in [Worker -> Nat]
    BY DEF Init, WorkerPC, NoJob
  <2>3. answers \subseteq (Path \cup {EmptyPath}) \X (Path \cup Error)
    BY DEF Init
  <2> QED  BY <1>4, <2>1, <2>2, <2>3 DEF TypeOK, SymbolState
<1>6. Prefix
  BY <1>1, <1>3 DEF Prefix
<1>7. Jobs /\ Owned
  BY DEF Init, Jobs, JobOK, Owned, Owns
<1>8. Kept /\ LoadedOnce
  BY <1>1, InitialAssumption DEF Kept, LoadedOnce
<1> QED  BY <1>5, <1>6, <1>7, <1>8 DEF IInv

\* And every step keeps the invariant.
LEMMA NextIInv ==
    ASSUME IInv, [Next]_vars
    PROVE  IInv'
<1>1. CASE UNCHANGED vars
  <2>1. /\ UNCHANGED <<compile_mode, sources, is_ready_for_sema, symbols>>
        /\ UNCHANGED <<current_dynamic_file_load, current_dynamic_file_load_failed>>
        /\ UNCHANGED <<pc, job, inst, source, left, target, answers>>
    BY <1>1 DEF vars, manager, loads, locals, queueing
  <2>2. TypeOK'
    BY <2>1 DEF IInv, TypeOK, Source
  <2>3. Prefix' /\ Kept' /\ LoadedOnce'
    BY <2>1 DEF IInv, Prefix, Kept, LoadedOnce, Source
  <2>4. Jobs'
    <3> SUFFICES ASSUME NEW w \in Worker PROVE JobOK(w)'
      BY DEF Jobs
    <3>1. JobOK(w)
      BY DEF IInv, Jobs
    <3>2. /\ Caller(w)' = Caller(w) /\ Imports(w)' = Imports(w)
          /\ file_path(w)' = file_path(w) /\ Source' = Source
      BY <2>1 DEF Caller, Imports, file_path, Source
    <3> QED  BY <2>1, <3>1, <3>2 DEF JobOK
  <2>5. Owned'
    BY <2>1 DEF IInv, Owned, Owns, Source, IsSource, Caller, Imports, file_path
  <2> QED  BY <2>2, <2>3, <2>4, <2>5 DEF IInv
<1>2. ASSUME NEW w \in Worker, WorkerStep(w) PROVE IInv'
  <2>1. TypeOK /\ Prefix /\ Jobs /\ Owned /\ Kept /\ LoadedOnce
    BY DEF IInv
  <2>2. TypeOK' /\ Prefix'
    BY <1>2, <2>1, TypeStep, ManagerStep
  <2>3. Jobs'
    BY <1>2, <2>1, Others, OwnJob DEF Jobs
  <2>4. Owned' /\ Kept' /\ LoadedOnce'
    BY <1>2, <2>1, OwnedStep
  <2> QED  BY <2>2, <2>3, <2>4 DEF IInv
<1> QED  BY <1>1, <1>2 DEF Next

\* The inductive invariant holds in every reachable state.
THEOREM Invariance == Spec => []IInv
<1>1. Init => IInv
  BY InitIInv
<1>2. IInv /\ [Next]_vars => IInv'
  BY NextIInv
<1> QED  BY <1>1, <1>2, PTL DEF Spec

\* Every reachable state of the loading of sources is well typed.
THEOREM TypeCorrect == Spec => []TypeOK
<1>1. IInv => TypeOK
  BY DEF IInv
<1> QED  BY <1>1, Invariance, PTL

\* lookupSourceID() creates one Source for a file, whoever imports it and when.
THEOREM NoFileIsLoadedTwice == Spec => []LoadedOnce
<1>1. IInv => LoadedOnce
  BY DEF IInv
<1> QED  BY <1>1, Invariance, PTL

-----------------------------------------------------------------------------
(***************************************************************************)
(* Whoever imports a file gets the same answer, for any number of workers, *)
(* files and imports, as long as every file that can be read can be        *)
(* parsed.  What the answer is depends on the file alone: Verdict.  That   *)
(* matters where two workers load at once, which happens between the steps *)
(* of a loader that has failed and no longer claims the path: they come to *)
(* the same error.                                                         *)
(*                                                                         *)
(* And every global symbol is analysed, whatever can be parsed and however *)
(* `when` conditionals nest: a symbol that is not yet queued is always     *)
(* with someone who will queue it, which is Tended below.                  *)
(***************************************************************************)

IsInitial(p) == \E i \in DOMAIN Initial : Initial[i] = p

LoadFailed == "FAILED_DURING_ANALYSIS_OF_NEWLY_LOADED"

\* What an import of p has to return: a Source, by its path, or an error.
Verdict(p) ==
    IF p = EmptyPath THEN "EMPTY_PATH"
    ELSE IF IsInitial(p) THEN p
    ELSE IF File[p] = "missing" THEN "DOESNT_EXIST"
    ELSE IF compile_mode THEN "NOT_ONE_OF_SOURCES"
    ELSE IF File[p] = "unreadable" THEN LoadFailed
    ELSE p

Answered  == \A a \in answers : a[2] \in {"SAME_AS_CALLER", Verdict(a[1])}
Failures  == \A p \in DOMAIN current_dynamic_file_load_failed :
                 current_dynamic_file_load_failed[p] = Verdict(p)
Loaded    == \A id \in Source : Verdict(sources[id]) = sources[id]

\* What a worker knows of its path, by where it is.
Place(w) ==
    /\ pc[w] \in {"exists", "load", "erase_failed", "record_failed"} => ~IsInitial(file_path(w))
    /\ pc[w] = "load" => File[file_path(w)] # "missing" /\ ~compile_mode
    /\ pc[w] \in {"erase_failed", "record_failed"} =>
           source[w] = NoSource /\ Verdict(file_path(w)) = LoadFailed
    /\ pc[w] \in {"wait_ready", "build", "erase", "queue", "set_in_queue"} =>
           sources[source[w]] = file_path(w)

Places == \A w \in Worker : Place(w)

AInv == Answered /\ Failures /\ Loaded /\ Places

-----------------------------------------------------------------------------
(* What depends on little *)

\* The mode of the compiler never changes.
LEMMA SameMode == ASSUME NEW w \in Worker, WorkerStep(w) PROVE UNCHANGED compile_mode
BY DEF WorkerStep, Take, Finish, EmptyImport, SelfImport, LookUp, Claim, WaitFailed, WaitLookUp,
       WaitReady, Exists, Load, Build, Erase, RecordFailedLoad, Look, SetInQueue, Ready

\* And nor does what an import returns.
LEMMA SameVerdict == ASSUME UNCHANGED compile_mode, NEW p PROVE Verdict(p)' = Verdict(p)
BY DEF Verdict, IsInitial, LoadFailed

\* A step leaves alone what other workers know.
LEMMA OtherPlaces ==
    ASSUME IInv, Places, NEW w \in Worker, WorkerStep(w), NEW v \in Worker \ {w}
    PROVE  Place(v)'
<1>0. TypeOK /\ Prefix /\ Jobs /\ JobOK(v) /\ Place(v)
  BY DEF IInv, Jobs, Places
<1>1. /\ pc'[v] = pc[v] /\ source'[v] = source[v]
      /\ \A id \in Source : sources'[id] = sources[id]
  BY <1>0, Frame
<1>2. pc[v] # "idle" => file_path(v)' = file_path(v)
  BY <1>0, Others
<1>3. compile_mode' = compile_mode
  BY SameMode
<1>4. Verdict(file_path(v))' = Verdict(file_path(v)') /\ source[v] \in Source \cup {NoSource}
  BY <1>0, <1>3, SameVerdict DEF TypeOK, Verdict, IsInitial, LoadFailed
<1>5. pc[v] # "idle" => Verdict(file_path(v))' = Verdict(file_path(v))
  BY <1>2, <1>3 DEF Verdict, IsInitial, LoadFailed
<1>6. pc[v] \in {"exists", "load", "erase_failed", "record_failed"} =>
          ~IsInitial(file_path(v))'
  BY <1>0, <1>2 DEF Place, IsInitial
<1>7. pc[v] = "load" => File[file_path(v)'] # "missing" /\ ~compile_mode'
  BY <1>0, <1>2, <1>3 DEF Place
<1>8. pc[v] \in {"erase_failed", "record_failed"} =>
          source'[v] = NoSource /\ Verdict(file_path(v))' = LoadFailed
  BY <1>0, <1>1, <1>5 DEF Place
<1>9. pc[v] \in {"wait_ready", "build", "erase", "queue", "set_in_queue"} =>
          sources'[source'[v]] = file_path(v)'
  BY <1>0, <1>1, <1>2, <1>4 DEF Place, JobOK
<1> QED  BY <1>1, <1>6, <1>7, <1>8, <1>9 DEF Place, LoadFailed

-----------------------------------------------------------------------------
(* The steps *)

LEMMA AnswerStep ==
    ASSUME \A p \in Path : File[p] # "broken",
           IInv, AInv, NEW w \in Worker, WorkerStep(w)
    PROVE  AInv'
<1> DEFINE p == file_path(w)
           Goal == Answered' /\ Failures' /\ Loaded' /\ Place(w)'
<1>0. /\ TypeOK /\ Prefix /\ Jobs /\ LoadedOnce /\ JobOK(w)
      /\ Answered /\ Failures /\ Loaded /\ Place(w) /\ Places
      /\ pc \in [Worker -> WorkerPC] /\ DOMAIN source = Worker
      /\ source[w] \in Source \cup {NoSource}
  BY DEF IInv, AInv, Jobs, Places, TypeOK
<1>m. compile_mode' = compile_mode /\ \A q : Verdict(q)' = Verdict(q)
  BY SameMode, SameVerdict
<1> SUFFICES Goal
  BY <1>0, OtherPlaces DEF AInv, Places
<1>s. pc[w] # "idle" /\ UNCHANGED <<job, inst>> =>
          p' = p /\ IsInitial(p)' = IsInitial(p) /\ Verdict(p)' = Verdict(p)
  <2>1. pc[w] # "idle" /\ UNCHANGED <<job, inst>> => p' = p
    BY <1>0, SameImport
  <2> QED  BY <1>m, <2>1 DEF Verdict, IsInitial, LoadFailed
<1>p. pc[w] \notin {"idle", "run"} => p \in Path /\ p # EmptyPath
  BY <1>0, PathAssumption DEF JobOK
<1>a. UNCHANGED answers => Answered'
  BY <1>0, <1>m DEF Answered
<1>b. UNCHANGED current_dynamic_file_load_failed => Failures'
  BY <1>0, <1>m DEF Failures
<1>c. UNCHANGED sources => Loaded'
  BY <1>0, <1>m DEF Loaded, Source
<1>d. ASSUME NEW e \in {"SAME_AS_CALLER", Verdict(p)}, ReturnError(w, e)
      PROVE  Answered' /\ Place(w)'
  <2>1. answers' = answers \cup {<<p, e>>} /\ pc'[w] = "idle"
    BY <1>0, <1>d DEF ReturnError, Leave, Goto
  <2>2. Answered'
    BY <1>0, <1>m, <2>1 DEF Answered
  <2> QED  BY <2>1, <2>2 DEF Place
<1>e. ASSUME NEW id \in Source, sources[id] = p, ReturnSource(w, id)
      PROVE  Answered' /\ Place(w)'
  <2>1. answers' = answers \cup {<<p, p>>} /\ pc'[w] = "run"
    BY <1>0, <1>e DEF ReturnSource, Goto
  <2>2. Verdict(p) = p
    BY <1>0, <1>e DEF Loaded
  <2>3. Answered'
    BY <1>0, <1>m, <2>1, <2>2 DEF Answered
  <2> QED  BY <2>1, <2>3 DEF Place
<1>f. ASSUME NEW e, e = Verdict(p), RecordFailed(p, e) PROVE Failures'
  BY <1>0, <1>m, <1>f DEF RecordFailed, Failures
<1>1. CASE (\E id \in Source : \E i \in DOMAIN symbols[id] : Take(w, id, i)) \/ Finish(w)
  <2>1. UNCHANGED <<sources, current_dynamic_file_load_failed, answers>>
    BY <1>1 DEF Take, Finish, manager, loads
  <2>2. pc'[w] \in {"run", "idle"}
    BY <1>0, <1>1 DEF Take, Finish, Goto, Leave
  <2>3. Place(w)'
    BY <2>2 DEF Place
  <2> QED  BY <1>a, <1>b, <1>c, <2>1, <2>3
<1>2. CASE EmptyImport(w) \/ SelfImport(w)
  <2>1. UNCHANGED <<sources, current_dynamic_file_load_failed>>
    BY <1>2 DEF EmptyImport, SelfImport, manager, loads
  <2>2. \E e \in {"SAME_AS_CALLER", Verdict(p)} : ReturnError(w, e)
    BY <1>2 DEF EmptyImport, SelfImport, Verdict
  <2> QED  BY <1>b, <1>c, <1>d, <2>1, <2>2
<1>3. CASE LookUp(w)
  <2>1. UNCHANGED <<sources, current_dynamic_file_load_failed>>
    BY <1>3 DEF LookUp, manager, loads
  <2>2. CASE IsSource(p) /\ ReturnSource(w, Found(p))
    BY <1>0, <1>b, <1>c, <1>e, <2>1, <2>2, FoundType
  <2>3. CASE Goto(w, "claim") /\ UNCHANGED answers
    <3>1. pc'[w] = "claim"
      BY <1>0, <2>3 DEF Goto
    <3>2. Place(w)'
      BY <3>1 DEF Place
    <3> QED  BY <1>a, <1>b, <1>c, <2>1, <2>3, <3>2
  <2> QED  BY <1>3, <2>2, <2>3 DEF LookUp
<1>4. CASE Claim(w)
  <2>1. /\ UNCHANGED <<sources, current_dynamic_file_load_failed, answers, job, inst>>
        /\ pc[w] = "claim" /\ pc'[w] \in {"wait_failed", "exists"}
    BY <1>0, <1>4 DEF Claim, Goto, manager, locals
  <2>2. ~IsInitial(p)'
    BY <1>0, <1>s, <2>1 DEF JobOK, IsInitial
  <2>3. Place(w)'
    BY <2>1, <2>2 DEF Place
  <2> QED  BY <1>a, <1>b, <1>c, <2>1, <2>3
<1>5. CASE WaitFailed(w)
  <2>1. UNCHANGED <<sources, current_dynamic_file_load_failed>>
    BY <1>5 DEF WaitFailed, manager, loads
  <2>2. CASE /\ p \in DOMAIN current_dynamic_file_load_failed
             /\ ReturnError(w, current_dynamic_file_load_failed[p])
    <3>1. current_dynamic_file_load_failed[p] = Verdict(p)
      BY <1>0, <2>2 DEF Failures
    <3> QED  BY <1>b, <1>c, <1>d, <2>1, <2>2, <3>1
  <2>3. CASE Goto(w, "wait_lookup") /\ UNCHANGED answers
    <3>1. pc'[w] = "wait_lookup"
      BY <1>0, <2>3 DEF Goto
    <3>2. Place(w)'
      BY <3>1 DEF Place
    <3> QED  BY <1>a, <1>b, <1>c, <2>1, <2>3, <3>2
  <2> QED  BY <1>5, <2>2, <2>3 DEF WaitFailed
<1>6. CASE WaitLookUp(w)
  <2>1. /\ UNCHANGED <<sources, current_dynamic_file_load_failed, answers, job, inst>>
        /\ pc[w] = "wait_lookup"
    BY <1>6 DEF WaitLookUp, manager, loads
  <2>2. /\ pc'[w] \in {"wait_ready", "wait_failed"}
        /\ pc'[w] = "wait_ready" => IsSource(p) /\ source'[w] = Found(p)
    BY <1>0, <1>6 DEF WaitLookUp, Goto
  <2>3. pc'[w] = "wait_ready" => sources'[source'[w]] = p'
    BY <1>0, <1>s, <2>1, <2>2, FoundType
  <2>4. Place(w)'
    BY <2>2, <2>3 DEF Place
  <2> QED  BY <1>a, <1>b, <1>c, <2>1, <2>4
<1>7. CASE WaitReady(w) \/ Ready(w)
  <2>1. UNCHANGED <<sources, current_dynamic_file_load_failed>> /\ ReturnSource(w, source[w])
    BY <1>7 DEF WaitReady, Ready, manager, loads
  <2>2. source[w] \in Source /\ sources[source[w]] = p
    BY <1>0, <1>7 DEF WaitReady, Ready, JobOK, Place
  <2> QED  BY <1>b, <1>c, <1>e, <2>1, <2>2
<1>8. CASE Exists(w)
  <2>1. UNCHANGED sources /\ pc[w] = "exists"
    BY <1>8 DEF Exists, manager
  <2>2. ~IsInitial(p) /\ p \in Path /\ p # EmptyPath
    BY <1>0, <1>p, <2>1 DEF Place
  <2>3. ASSUME NEW e, RecordFailed(p, e), ReturnError(w, e), e = Verdict(p) PROVE Goal
    BY <1>c, <1>d, <1>f, <2>1, <2>3
  <2>4. CASE File[p] = "missing"
    <3>1. RecordFailed(p, "DOESNT_EXIST") /\ ReturnError(w, "DOESNT_EXIST")
      BY <1>8, <2>4 DEF Exists
    <3> QED  BY <2>2, <2>3, <2>4, <3>1 DEF Verdict
  <2>5. CASE File[p] # "missing" /\ compile_mode
    <3>1. RecordFailed(p, "NOT_ONE_OF_SOURCES") /\ ReturnError(w, "NOT_ONE_OF_SOURCES")
      BY <1>8, <2>5 DEF Exists
    <3> QED  BY <2>2, <2>3, <2>5, <3>1 DEF Verdict
  <2>6. CASE File[p] # "missing" /\ ~compile_mode
    <3>1. Goto(w, "load") /\ UNCHANGED <<job, inst, answers, current_dynamic_file_load_failed>>
      BY <1>8, <2>6 DEF Exists
    <3>2. pc'[w] = "load" /\ p' = p /\ IsInitial(p)' = IsInitial(p)
      BY <1>0, <1>s, <2>1, <3>1 DEF Goto
    <3>3. Place(w)'
      BY <1>m, <2>2, <2>6, <3>2 DEF Place
    <3> QED  BY <1>a, <1>b, <1>c, <2>1, <3>1, <3>3
  <2> QED  BY <2>4, <2>5, <2>6
<1>9. CASE Load(w)
  <2>1. /\ UNCHANGED <<current_dynamic_file_load_failed, answers, job, inst>>
        /\ pc[w] = "load"
    BY <1>9 DEF Load, loads
  <2>2. /\ ~IsInitial(p) /\ p \in Path /\ p # EmptyPath /\ File[p] # "missing" /\ ~compile_mode
        /\ p' = p /\ IsInitial(p)' = IsInitial(p) /\ Verdict(p)' = Verdict(p)
    BY <1>0, <1>p, <1>s, <2>1 DEF Place
  <2>3. CASE File[p] = "unreadable"
    <3>1. UNCHANGED sources /\ pc'[w] = "erase_failed" /\ source'[w] = NoSource
      BY <1>0, <1>9, <2>3 DEF Load, Goto, manager
    <3>2. Verdict(p) = LoadFailed
      BY <2>2, <2>3 DEF Verdict
    <3>3. Place(w)'
      BY <2>2, <3>1, <3>2 DEF Place, LoadFailed
    <3> QED  BY <1>a, <1>b, <1>c, <2>1, <3>1, <3>3
  <2>4. CASE File[p] # "unreadable"
    <3>1. /\ source'[w] = Len(sources) + 1 /\ sources' = Append(sources, p)
          /\ is_ready_for_sema' = Append(is_ready_for_sema, FALSE)
          /\ symbols' = Append(symbols, <<>>) /\ pc'[w] = "build"
      BY <1>0, <1>9, <2>4 DEF Load, Goto
    <3>2. /\ Source' = Source \cup {source'[w]} /\ sources'[source'[w]] = p
          /\ \A id \in Source : sources'[id] = sources[id]
      BY <1>0, <2>2, <3>1, Added
    <3>3. Verdict(p) = p
      BY <2>2, <2>4 DEF Verdict
    <3>4. Loaded'
      BY <1>0, <1>m, <3>2, <3>3 DEF Loaded
    <3>5. Place(w)'
      BY <2>2, <3>1, <3>2 DEF Place
    <3> QED  BY <1>a, <1>b, <2>1, <3>4, <3>5
  <2> QED  BY <2>3, <2>4
<1>10. CASE Build(w)
  <2>1. /\ UNCHANGED <<sources, current_dynamic_file_load_failed, answers, job, inst, source>>
        /\ pc[w] = "build"
    BY <1>10 DEF Build, manager, loads, locals
  <2>2. File[p] # "broken"
    BY <1>p, <2>1
  <2>3. pc'[w] = "erase"
    BY <1>0, <1>10, <2>2 DEF Build, Goto
  <2>4. sources'[source'[w]] = p'
    BY <1>0, <1>s, <2>1 DEF Place
  <2>5. Place(w)'
    BY <2>3, <2>4 DEF Place
  <2> QED  BY <1>a, <1>b, <1>c, <2>1, <2>5
<1>11. CASE Erase(w)
  <2>1. /\ UNCHANGED <<sources, current_dynamic_file_load_failed, answers, job, inst, source>>
        /\ \/ pc[w] = "erase_failed" /\ pc'[w] = "record_failed"
           \/ pc[w] = "erase" /\ pc'[w] = "queue"
    BY <1>0, <1>11 DEF Erase, Goto, manager
  <2>2. p' = p /\ IsInitial(p)' = IsInitial(p) /\ Verdict(p)' = Verdict(p)
    BY <1>s, <2>1
  <2>3. Place(w)'
    BY <1>0, <2>1, <2>2 DEF Place, LoadFailed
  <2> QED  BY <1>a, <1>b, <1>c, <2>1, <2>3
<1>12. CASE RecordFailedLoad(w)
  <2>1. /\ UNCHANGED sources /\ pc[w] = "record_failed"
        /\ RecordFailed(path_after_move(w), LoadFailed) /\ ReturnError(w, LoadFailed)
    BY <1>12 DEF RecordFailedLoad, manager, LoadFailed
  <2>2. path_after_move(w) = p /\ Verdict(p) = LoadFailed
    BY <1>0, <2>1 DEF Place, path_after_move
  <2> QED  BY <1>c, <1>d, <1>f, <2>1, <2>2
<1>13. CASE (\E i \in left[w] : Look(w, i)) \/ SetInQueue(w)
  <2>1. /\ UNCHANGED <<sources, current_dynamic_file_load_failed, answers, job, inst, source>>
        /\ pc[w] \in {"queue", "set_in_queue"} /\ pc'[w] \in {"queue", "set_in_queue"}
    BY <1>0, <1>13 DEF Look, SetInQueue, Goto, manager, loads, locals
  <2>2. sources'[source'[w]] = p'
    BY <1>0, <1>s, <2>1 DEF Place
  <2>3. Place(w)'
    BY <2>1, <2>2 DEF Place
  <2> QED  BY <1>a, <1>b, <1>c, <2>1, <2>3
<1> QED  BY <1>1, <1>2, <1>3, <1>4, <1>5, <1>6, <1>7, <1>8, <1>9, <1>10, <1>11, <1>12, <1>13
         DEF WorkerStep

-----------------------------------------------------------------------------
(* The theorem *)

LEMMA InitAInv == ASSUME Init PROVE AInv
<1>1. Answered /\ Failures
  BY DEF Init, Answered, Failures
<1>2. Loaded
  <2>1. ASSUME NEW id \in Source PROVE Verdict(sources[id]) = sources[id]
    <3>1. id \in DOMAIN Initial /\ sources[id] = Initial[id] /\ Initial[id] \in Path
      BY <2>1, InitialAssumption DEF Init, Source
    <3> QED  BY <3>1, PathAssumption DEF Verdict, IsInitial
  <2> QED  BY <2>1 DEF Loaded
<1>3. Places
  BY DEF Init, Places, Place
<1> QED  BY <1>1, <1>2, <1>3 DEF AInv

LEMMA UnchangedAInv == ASSUME AInv, UNCHANGED vars PROVE AInv'
<1>1. /\ UNCHANGED <<compile_mode, sources, current_dynamic_file_load_failed>>
      /\ UNCHANGED <<pc, job, inst, source, answers>>
  BY DEF vars, manager, loads, locals
<1>2. Answered' /\ Failures' /\ Loaded'
  BY <1>1, SameVerdict DEF AInv, Answered, Failures, Loaded, Source
<1>3. Places'
  <2> SUFFICES ASSUME NEW w \in Worker PROVE Place(w)'
    BY DEF Places
  <2>1. Place(w)
    BY DEF AInv, Places
  <2>2. file_path(w)' = file_path(w)
    BY <1>1 DEF file_path, Imports, Caller
  <2>3. Verdict(file_path(w))' = Verdict(file_path(w))
    BY <1>1, <2>2 DEF Verdict, IsInitial, LoadFailed
  <2> QED  BY <1>1, <2>1, <2>2, <2>3 DEF Place, IsInitial, LoadFailed
<1> QED  BY <1>2, <1>3 DEF AInv

\* All imports of a file return the same, apart from an import by the file itself.
THEOREM EveryImporterGetsTheSame ==
    ASSUME \A p \in Path : File[p] # "broken"
    PROVE  Spec => []OneAnswer
<1>1. Init => AInv
  BY InitAInv
<1>2. IInv /\ AInv /\ [Next]_vars => AInv'
  BY AnswerStep, UnchangedAInv DEF Next
<1>3. AInv => OneAnswer
  BY DEF AInv, Answered, OneAnswer
<1> QED  BY <1>1, <1>2, <1>3, Invariance, PTL DEF Spec

-----------------------------------------------------------------------------
(* The symbols *)

Loading == {"build", "erase", "queue", "set_in_queue"}

\* A Source that is not ready is with the worker that loads it, unless it could not be parsed.
ReadyOrLoading ==
    \A id \in Source : ~is_ready_for_sema[id] /\ File[sources[id]] # "broken" =>
        \E w \in Worker : source[w] = id /\ pc[w] \in Loading

\* w loads the Source id, and symbol i of it is still to be queued.
ToQueue(w, id, i) ==
    /\ source[w] = id
    /\ \/ pc[w] = "erase"
       \/ pc[w] \in {"queue", "set_in_queue"} /\ i \in left[w]
       \/ pc[w] = "set_in_queue" /\ target[w] = i

(***************************************************************************)
(* The status of a symbol tells who will go on with it: the work manager,  *)
(* a worker, the `when` conditional it is under, or its loader.            *)
(***************************************************************************)
Tended(id, i) ==
    LET s == symbols[id][i]
        when == Globals[sources[id]][i].under IN
    /\ s.status = "IN_QUEUE" => s.queued > 0
    /\ s.status = "WORKING"  => \E w \in Worker : pc[w] # "idle" /\ job[w] = <<id, i>>
    /\ s.waits               => when # 0 /\ symbols[id][when].status # "DONE"
    /\ s.status = "WAITING"  => s.waits \/ \E w \in Worker : ToQueue(w, id, i)

AllTended == \A id \in Source : \A i \in DOMAIN symbols[id] : Tended(id, i)

SInv == ReadyOrLoading /\ AllTended

\* The conditional a symbol is under is a symbol of the same Source.
LEMMA WhenType ==
    ASSUME NEW p \in Path, NEW t \in Seq(SymbolState), DOMAIN t \subseteq DOMAIN Globals[p],
           NEW i \in DOMAIN t
    PROVE  LET when == Globals[p][i].under IN when # i /\ (when # 0 => when \in DOMAIN t)
<1>1. DOMAIN t = 1 .. Len(t) /\ Len(t) \in Nat
  OBVIOUS
<1>2. Globals[p] \in Seq(Global) /\ i \in DOMAIN Globals[p]
  BY GlobalsAssumption
<1>3. Globals[p][i] \in Global
  BY <1>2
<1>4. Globals[p][i].under \in Nat /\ Globals[p][i].under < i
  BY <1>2, <1>3, UnderAssumption DEF Global
<1> QED  BY <1>1, <1>4

\* What happens to a symbol: it is taken, ends, is released, is queued, or is built.
Taken(w, id, i) ==
    /\ symbols'[id][i].status = "WORKING" /\ symbols'[id][i].waits = symbols[id][i].waits
    /\ pc'[w] = "run" /\ job'[w] = <<id, i>>

Ended(w, id, i) ==
    /\ job[w] = <<id, i>> /\ symbols'[id][i].waits = symbols[id][i].waits
    /\ \/ symbols'[id][i].status = "ERRORED"
       \/ symbols'[id][i].status = "DONE" /\ Finish(w)

Released(w, id, i) ==
    /\ ~symbols'[id][i].waits
    /\ \/ symbols'[id][i].status = "IN_QUEUE" /\ symbols'[id][i].queued > 0
       \/ /\ symbols[id][i].status # "WAITING"
          /\ symbols'[id][i].status = symbols[id][i].status
          /\ symbols'[id][i].queued = symbols[id][i].queued

Queued(w, id, i) ==
    /\ symbols'[id][i].status = "IN_QUEUE" /\ symbols'[id][i].queued > 0
    /\ symbols'[id][i].waits = symbols[id][i].waits

NewlyBuilt(w, id, i) ==
    /\ source'[w] = id /\ pc'[w] = "erase"
    /\ \A j \in DOMAIN symbols'[id] : symbols'[id][j] = Built(sources[id])[j]

LEMMA SymbolSteps ==
    ASSUME IInv, NEW w \in Worker, WorkerStep(w), NEW id \in Source', NEW i \in DOMAIN symbols'[id]
    PROVE  /\ id \in Source
           /\ \/ NewlyBuilt(w, id, i)
              \/ /\ i \in DOMAIN symbols[id]
                 /\ \/ symbols'[id][i] = symbols[id][i]
                    \/ Taken(w, id, i) \/ Ended(w, id, i) \/ Released(w, id, i)
                    \/ Queued(w, id, i)
<1> DEFINE Goal == /\ id \in Source
                   /\ \/ NewlyBuilt(w, id, i)
                      \/ /\ i \in DOMAIN symbols[id]
                         /\ \/ symbols'[id][i] = symbols[id][i]
                            \/ Taken(w, id, i) \/ Ended(w, id, i) \/ Released(w, id, i)
                            \/ Queued(w, id, i)
<1>0. /\ TypeOK /\ Prefix /\ Jobs /\ LoadedOnce /\ JobOK(w)
      /\ pc \in [Worker -> WorkerPC] /\ DOMAIN job = Worker /\ DOMAIN source = Worker
  BY DEF IInv, Jobs, TypeOK
<1>t. ASSUME NEW j \in Source
      PROVE  symbols[j] \in [DOMAIN symbols[j] -> SymbolState] /\ DOMAIN symbols = Source
  BY <1>0, SourceIDs
<1>1. ASSUME UNCHANGED <<sources, symbols>> PROVE Goal
  BY <1>1 DEF Source
<1>2. CASE SetStatus(w, "ERRORED") /\ UNCHANGED sources /\ pc[w] # "idle"
  <2> DEFINE a == job[w][1]
             b == job[w][2]
  <2>1. a \in Source /\ job[w] = <<a, b>> /\ id \in Source
    BY <1>0, <1>2 DEF JobOK, TypeOK, Source
  <2>2. symbols' = [symbols EXCEPT ![a] = [symbols[a] EXCEPT ![b] =
                       [symbols[a][b] EXCEPT !.status = "ERRORED"]]]
    BY <1>2 DEF SetStatus
  <2>3. i \in DOMAIN symbols[id]
    BY <1>t, <2>1, <2>2
  <2>4. symbols[id][i] \in SymbolState
    BY <1>t, <2>1, <2>3
  <2>5. CASE id = a /\ i = b
    <3>1. symbols'[id][i] = [symbols[id][i] EXCEPT !.status = "ERRORED"]
      BY <1>t, <2>1, <2>2, <2>3, <2>5
    <3>2. Ended(w, id, i)
      BY <2>1, <2>4, <2>5, <3>1 DEF Ended, SymbolState
    <3> QED  BY <2>1, <2>3, <3>2
  <2>6. CASE ~(id = a /\ i = b)
    <3>1. symbols'[id][i] = symbols[id][i]
      BY <1>t, <2>1, <2>2, <2>3, <2>6
    <3> QED  BY <2>1, <2>3, <3>1
  <2> QED  BY <2>5, <2>6
<1>3. ASSUME NEW a \in Source, NEW b \in DOMAIN symbols[a], Take(w, a, b) PROVE Goal
  <2>1. /\ symbols' = [symbols EXCEPT ![a] = [symbols[a] EXCEPT ![b] =
                          [symbols[a][b] EXCEPT !.queued = symbols[a][b].queued - 1,
                                                !.status = "WORKING"]]]
        /\ UNCHANGED sources /\ pc'[w] = "run" /\ job'[w] = <<a, b>>
    BY <1>0, <1>t, <1>3 DEF Take, Goto, manager, SymbolState
  <2>2. id \in Source /\ i \in DOMAIN symbols[id]
    BY <1>t, <2>1 DEF Source
  <2>3. symbols[id][i] \in SymbolState
    BY <1>t, <2>2
  <2>4. CASE id = a /\ i = b
    <3>1. symbols'[id][i] = [symbols[id][i] EXCEPT !.queued = symbols[id][i].queued - 1,
                                                   !.status = "WORKING"]
      BY <1>t, <2>1, <2>2, <2>4
    <3>2. /\ symbols'[id][i].status = "WORKING"
          /\ symbols'[id][i].waits = symbols[id][i].waits
      BY <2>3, <3>1 DEF SymbolState
    <3>3. pc'[w] = "run" /\ job'[w] = <<id, i>>
      BY <2>1, <2>4
    <3>4. Taken(w, id, i)
      BY <3>2, <3>3 DEF Taken
    <3> QED  BY <2>2, <3>4
  <2>5. CASE ~(id = a /\ i = b)
    <3>1. symbols'[id][i] = symbols[id][i]
      BY <1>t, <2>1, <2>2, <2>5
    <3> QED  BY <2>2, <3>1
  <2> QED  BY <2>4, <2>5
<1>4. CASE Finish(w)
  <2> DEFINE a == job[w][1]
             b == job[w][2]
             s == symbols[id][i]
             freed == [s EXCEPT !.waits = FALSE]
  <2>1. a \in Source /\ job[w] = <<a, b>> /\ UNCHANGED sources /\ id \in Source
    BY <1>0, <1>4 DEF Finish, JobOK, TypeOK, Source, manager
  <2>2. symbols' = [symbols EXCEPT ![a] = [j \in DOMAIN symbols[a] |->
            LET u == symbols[a][j] IN
            IF j = b THEN [u EXCEPT !.status = "DONE"]
            ELSE IF Globals[Caller(w)][j].under # b THEN u
            ELSE IF u.status = "WAITING" THEN AddTask([u EXCEPT !.waits = FALSE])
            ELSE [u EXCEPT !.waits = FALSE]]]
    BY <1>t, <1>4, <2>1 DEF Finish
  <2>3. i \in DOMAIN symbols[id]
    BY <1>t, <2>1, <2>2
  <2>4. s \in SymbolState /\ freed \in SymbolState
    BY <1>t, <2>1, <2>3, StateChange
  <2>5. CASE id # a
    <3>1. symbols'[id] = symbols[id]
      BY <1>t, <2>1, <2>2, <2>5
    <3> QED  BY <2>1, <2>3, <3>1
  <2>6. CASE id = a
    <3>1. symbols'[id][i] = IF i = b THEN [s EXCEPT !.status = "DONE"]
                            ELSE IF Globals[Caller(w)][i].under # b THEN s
                            ELSE IF s.status = "WAITING" THEN AddTask(freed)
                            ELSE freed
      BY <1>t, <2>1, <2>2, <2>3, <2>6
    <3>2. CASE i = b
      <4>1. Ended(w, id, i)
        BY <1>4, <2>1, <2>4, <2>6, <3>1, <3>2 DEF Ended, SymbolState
      <4> QED  BY <2>1, <2>3, <4>1
    <3>3. CASE i # b /\ Globals[Caller(w)][i].under # b
      BY <2>1, <2>3, <3>1, <3>3
    <3>4. CASE i # b /\ Globals[Caller(w)][i].under = b /\ s.status = "WAITING"
      <4>1. symbols'[id][i] = [freed EXCEPT !.status = "IN_QUEUE", !.queued = freed.queued + 1]
        BY <3>1, <3>4 DEF AddTask
      <4>2. symbols'[id][i].queued = freed.queued + 1 /\ freed.queued \in Nat
            /\ symbols'[id][i].status = "IN_QUEUE" /\ symbols'[id][i].waits = freed.waits
            /\ freed.waits = FALSE
        BY <2>4, <4>1 DEF SymbolState
      <4>3. Released(w, id, i)
        BY <4>2 DEF Released
      <4> QED  BY <2>1, <2>3, <4>3
    <3>5. CASE i # b /\ Globals[Caller(w)][i].under = b /\ s.status # "WAITING"
      <4>1. Released(w, id, i)
        BY <2>4, <3>1, <3>5 DEF Released, SymbolState
      <4> QED  BY <2>1, <2>3, <4>1
    <3> QED  BY <3>2, <3>3, <3>4, <3>5
  <2> QED  BY <2>5, <2>6
<1>5. CASE SetInQueue(w)
  <2> DEFINE a == source[w]
             b == target[w]
  <2>1. a \in Source /\ UNCHANGED sources /\ id \in Source
    BY <1>0, <1>5 DEF SetInQueue, JobOK, TypeOK, Source, manager
  <2>2. symbols' = [symbols EXCEPT ![a] = [symbols[a] EXCEPT ![b] = AddTask(symbols[a][b])]]
    BY <1>t, <1>5, <2>1 DEF SetInQueue
  <2>3. i \in DOMAIN symbols[id]
    BY <1>t, <2>1, <2>2
  <2>4. symbols[id][i] \in SymbolState
    BY <1>t, <2>1, <2>3
  <2>5. CASE id = a /\ i = b
    <3>1. symbols'[id][i] = AddTask(symbols[id][i])
      BY <1>t, <2>1, <2>2, <2>3, <2>5
    <3>2. Queued(w, id, i)
      BY <2>4, <3>1 DEF Queued, AddTask, SymbolState
    <3> QED  BY <2>1, <2>3, <3>2
  <2>6. CASE ~(id = a /\ i = b)
    <3>1. symbols'[id][i] = symbols[id][i]
      BY <1>t, <2>1, <2>2, <2>3, <2>6
    <3> QED  BY <2>1, <2>3, <3>1
  <2> QED  BY <2>5, <2>6
<1>6. CASE Build(w)
  <2>1. /\ source[w] \in Source /\ UNCHANGED <<sources, source>> /\ id \in Source
        /\ sources[source[w]] = file_path(w)
    BY <1>0, <1>6 DEF Build, JobOK, TypeOK, Source, manager, locals
  <2>2. CASE UNCHANGED symbols
    BY <1>1, <2>1, <2>2
  <2>3. CASE /\ pc'[w] = "erase"
             /\ symbols' = [symbols EXCEPT ![source[w]] = Built(file_path(w))]
    <3>1. CASE id = source[w]
      <4>1. symbols'[id] = Built(sources[id])
        BY <1>t, <2>1, <2>3, <3>1
      <4>2. NewlyBuilt(w, id, i)
        BY <2>1, <2>3, <3>1, <4>1 DEF NewlyBuilt
      <4> QED  BY <2>1, <4>2
    <3>2. CASE id # source[w]
      <4>1. symbols'[id] = symbols[id]
        BY <1>t, <2>1, <2>3, <3>2
      <4> QED  BY <2>1, <4>1
    <3> QED  BY <3>1, <3>2
  <2> QED  BY <1>0, <1>6, <2>2, <2>3 DEF Build, Goto
<1>7. CASE Load(w)
  <2>1. CASE UNCHANGED <<manager, symbols>>
    BY <1>1, <2>1 DEF manager
  <2>2. CASE sources' = Append(sources, file_path(w))
             /\ is_ready_for_sema' = Append(is_ready_for_sema, FALSE)
             /\ symbols' = Append(symbols, <<>>)
    <3>1. file_path(w) \in Path
      BY <1>0, <1>7 DEF Load, JobOK
    <3>2. PICK n : n = Len(sources) + 1
      OBVIOUS
    <3>3. /\ Source' = Source \cup {n} /\ symbols'[n] = <<>>
          /\ \A j \in Source : symbols'[j] = symbols[j]
      BY <1>0, <2>2, <3>1, <3>2, Added
    <3>4. id # n
      BY <3>3
    <3> QED  BY <3>3, <3>4
  <2> QED  BY <1>7, <2>1, <2>2 DEF Load
<1>8. CASE EmptyImport(w) \/ SelfImport(w) \/ LookUp(w) \/ Claim(w) \/ WaitFailed(w)
           \/ WaitLookUp(w) \/ WaitReady(w) \/ Exists(w) \/ Erase(w) \/ RecordFailedLoad(w)
           \/ (\E j \in left[w] : Look(w, j)) \/ Ready(w)
  <2>1. UNCHANGED sources /\ (UNCHANGED symbols \/ SetStatus(w, "ERRORED"))
    BY <1>8 DEF EmptyImport, SelfImport, LookUp, Claim, WaitFailed, WaitLookUp, WaitReady, Exists,
                Erase, RecordFailedLoad, Look, Ready, ReturnSource, ReturnError, manager, locals
  <2>2. pc[w] # "idle"
    BY <1>8 DEF EmptyImport, SelfImport, LookUp, Claim, WaitFailed, WaitLookUp, WaitReady, Exists,
                Erase, RecordFailedLoad, Look, Ready, Importing
  <2> QED  BY <1>1, <1>2, <2>1, <2>2
<1> QED  BY <1>3, <1>4, <1>5, <1>6, <1>7, <1>8 DEF WorkerStep

\* A conditional that is done has released what is under it.
LEMMA FinishReleases ==
    ASSUME TypeOK, Jobs, NEW w \in Worker, Finish(w), NEW id \in Source,
           NEW i \in DOMAIN symbols[id], job[w] = <<id, Globals[sources[id]][i].under>>,
           Globals[sources[id]][i].under # i
    PROVE  ~symbols'[id][i].waits
<1> DEFINE u == symbols[id][i]
           freed == [u EXCEPT !.waits = FALSE]
<1>1. u \in SymbolState /\ id \in DOMAIN symbols
  BY SourceIDs
<1>2. Caller(w) = sources[id] /\ job[w][1] = id /\ job[w][2] = Globals[sources[id]][i].under
  BY DEF Caller
<1>3. symbols'[id][i] = IF u.status = "WAITING" THEN AddTask(freed) ELSE freed
  BY <1>1, <1>2 DEF Finish
<1>4. freed \in SymbolState /\ freed.waits = FALSE
  BY <1>1, StateChange DEF SymbolState
<1> HIDE DEF u, freed
<1>5. AddTask(freed).waits = freed.waits
  BY <1>4 DEF AddTask, SymbolState
<1> QED  BY <1>3, <1>4, <1>5

\* A worker leaves a symbol that it has ended.
LEMMA LeftEnded ==
    ASSUME IInv, NEW w \in Worker, WorkerStep(w), pc[w] # "idle",
           pc'[w] = "idle" \/ job'[w] # job[w],
           NEW id \in Source, NEW i \in DOMAIN symbols[id], job[w] = <<id, i>>
    PROVE  symbols'[id][i].status \in {"DONE", "ERRORED"}
<1>t. TypeOK /\ pc \in [Worker -> WorkerPC]
  BY DEF IInv, TypeOK
<1>0. /\ pc \in [Worker -> WorkerPC] /\ symbols[id][i] \in SymbolState
      /\ id \in DOMAIN symbols /\ job[w][1] = id /\ job[w][2] = i
  BY <1>t, SourceIDs
<1>1. ASSUME SetStatus(w, "ERRORED") PROVE symbols'[id][i].status = "ERRORED"
  BY <1>0, <1>1 DEF SetStatus, SymbolState
<1>2. CASE Finish(w)
  <2>1. symbols'[id][i] = [symbols[id][i] EXCEPT !.status = "DONE"]
    BY <1>0, <1>2 DEF Finish
  <2> QED  BY <1>0, <2>1 DEF SymbolState
<1>3. CASE EmptyImport(w) \/ SelfImport(w) \/ WaitFailed(w) \/ Exists(w) \/ RecordFailedLoad(w)
  <2>1. \/ SetStatus(w, "ERRORED")
        \/ UNCHANGED job /\ (Goto(w, "wait_lookup") \/ Goto(w, "load"))
    BY <1>3 DEF EmptyImport, SelfImport, WaitFailed, Exists, RecordFailedLoad, ReturnError
  <2> QED  BY <1>0, <1>1, <2>1 DEF Goto
<1>4. CASE LookUp(w) \/ WaitReady(w) \/ Ready(w) \/ Claim(w) \/ WaitLookUp(w) \/ Load(w)
           \/ Build(w) \/ Erase(w) \/ SetInQueue(w)
  <2>1. UNCHANGED job /\ \E l \in WorkerPC \ {"idle"} : Goto(w, l)
    BY <1>4 DEF LookUp, WaitReady, Ready, Claim, WaitLookUp, Load, Build, Erase, SetInQueue,
                ReturnSource, locals, WorkerPC
  <2> QED  BY <1>0, <2>1 DEF Goto
<1>5. ASSUME NEW j \in left[w], Look(w, j) PROVE FALSE
  <2>1. UNCHANGED job /\ (UNCHANGED pc \/ Goto(w, "set_in_queue"))
    BY <1>5 DEF Look
  <2> QED  BY <1>0, <2>1 DEF Goto
<1>6. ASSUME NEW a \in Source, NEW b \in DOMAIN symbols[a], Take(w, a, b) PROVE FALSE
  BY <1>6 DEF Take
<1> QED  BY <1>2, <1>3, <1>4, <1>5, <1>6 DEF WorkerStep

\* What a loader does next.
LEMMA LoaderSteps ==
    ASSUME IInv, NEW w \in Worker, WorkerStep(w), pc[w] \in Loading
    PROVE  /\ source[w] \in Source /\ (Ready(w) \/ source'[w] = source[w])
           /\ \/ /\ Build(w) /\ sources[source[w]] = file_path(w)
                 /\ pc'[w] = IF File[file_path(w)] = "broken" THEN "erase_failed" ELSE "erase"
              \/ /\ pc[w] = "erase" /\ pc'[w] = "queue"
                 /\ left'[w] = DOMAIN symbols[source[w]]
              \/ /\ pc[w] = "queue"
                 /\ \E i \in left[w] :
                       /\ left'[w] = left[w] \ {i}
                       /\ IF symbols[source[w]][i].waits
                            THEN pc'[w] = "queue"
                            ELSE pc'[w] = "set_in_queue" /\ target'[w] = i
              \/ SetInQueue(w) /\ pc'[w] = "queue" /\ left'[w] = left[w]
              \/ Ready(w) /\ left[w] = {}
<1>0. TypeOK /\ JobOK(w) /\ pc \in [Worker -> WorkerPC] /\ DOMAIN left = Worker
      /\ DOMAIN target = Worker
  BY DEF IInv, Jobs, TypeOK
<1>1. source[w] \in Source
  BY <1>0 DEF Loading, JobOK, TypeOK
<1>2. CASE Build(w)
  BY <1>0, <1>1, <1>2 DEF Build, Goto, JobOK, locals
<1>3. CASE Erase(w)
  BY <1>0, <1>1, <1>3 DEF Erase, Goto, Loading
<1>4. ASSUME NEW i \in left[w], Look(w, i)
      PROVE  /\ source'[w] = source[w] /\ pc[w] = "queue" /\ left'[w] = left[w] \ {i}
             /\ IF symbols[source[w]][i].waits
                  THEN pc'[w] = "queue"
                  ELSE pc'[w] = "set_in_queue" /\ target'[w] = i
  BY <1>0, <1>4 DEF Look, Goto, isWaiting
<1>5. CASE SetInQueue(w)
  BY <1>0, <1>1, <1>5 DEF SetInQueue, Goto, locals, queueing
<1>6. CASE Ready(w)
  BY <1>1, <1>6 DEF Ready
<1>7. CASE EmptyImport(w) \/ SelfImport(w) \/ WaitFailed(w) \/ Exists(w) \/ RecordFailedLoad(w)
           \/ Finish(w) \/ LookUp(w) \/ WaitReady(w) \/ Claim(w) \/ WaitLookUp(w) \/ Load(w)
           \/ (\E a \in Source : \E b \in DOMAIN symbols[a] : Take(w, a, b))
  <2>1. pc[w] \notin Loading
    BY <1>7 DEF EmptyImport, SelfImport, WaitFailed, Exists, RecordFailedLoad, Finish, LookUp,
                WaitReady, Claim, WaitLookUp, Load, Take, Importing, Loading
  <2> QED  BY <2>1
<1> QED  BY <1>1, <1>2, <1>3, <1>4, <1>5, <1>6, <1>7 DEF WorkerStep

\* A loader's list is its own.
LEMMA OthersQueueing ==
    ASSUME TypeOK, NEW w \in Worker, WorkerStep(w), NEW v \in Worker \ {w}
    PROVE  left'[v] = left[v] /\ target'[v] = target[v]
<1>1. DOMAIN left = Worker /\ DOMAIN target = Worker
  BY DEF TypeOK
<1>2. /\ UNCHANGED left \/ \E x : left' = [left EXCEPT ![w] = x]
      /\ UNCHANGED target \/ \E x : target' = [target EXCEPT ![w] = x]
  BY DEF WorkerStep, Take, Finish, EmptyImport, SelfImport, LookUp, Claim, WaitFailed,
         WaitLookUp, WaitReady, Exists, Load, Build, Erase, RecordFailedLoad, Look, SetInQueue,
         Ready, locals, queueing
<1> QED  BY <1>1, <1>2

\* Append leaves what is there.
LEMMA AppendKeeps ==
    ASSUME NEW S, NEW s \in Seq(S), NEW e \in S, NEW j \in 1 .. Len(s)
    PROVE  Append(s, e)[j] = s[j]
BY AppendProperties

LEMMA ReadyStep ==
    ASSUME IInv, ReadyOrLoading, NEW w \in Worker, WorkerStep(w)
    PROVE  ReadyOrLoading'
<1>0. /\ TypeOK /\ Prefix /\ Jobs /\ JobOK(w) /\ pc \in [Worker -> WorkerPC]
      /\ DOMAIN source = Worker /\ is_ready_for_sema \in [Source -> BOOLEAN]
  BY DEF IInv, Jobs, TypeOK
<1> SUFFICES ASSUME NEW id \in Source', ~is_ready_for_sema'[id], File[sources'[id]] # "broken"
             PROVE  \E v \in Worker : source'[v] = id /\ pc'[v] \in Loading
  BY DEF ReadyOrLoading
<1>1. ASSUME id \in Source, ~is_ready_for_sema[id],
             Ready(w) => source[w] # id
      PROVE  \E v \in Worker : source'[v] = id /\ pc'[v] \in Loading
  <2>1. File[sources[id]] # "broken"
    BY <1>0, <1>1, Frame
  <2>2. PICK v \in Worker : source[v] = id /\ pc[v] \in Loading
    BY <1>1, <2>1 DEF ReadyOrLoading
  <2>3. CASE v # w
    BY <1>0, <2>2, <2>3, Frame
  <2>4. CASE v = w
    BY <1>1, <2>1, <2>2, <2>4, LoaderSteps DEF Loading
  <2> QED  BY <2>3, <2>4
<1>2. CASE Load(w)
  <2>1. CASE UNCHANGED manager
    BY <1>1, <1>2, <2>1 DEF manager, Source, Load, Ready
  <2>2. CASE /\ source' = [source EXCEPT ![w] = Len(sources) + 1]
             /\ sources' = Append(sources, file_path(w))
             /\ is_ready_for_sema' = Append(is_ready_for_sema, FALSE)
             /\ symbols' = Append(symbols, <<>>) /\ Goto(w, "build")
    <3>1. file_path(w) \in Path
      BY <1>0, <1>2 DEF Load, JobOK
    <3>2. PICK n : n = Len(sources) + 1
      OBVIOUS
    <3>3. Source' = Source \cup {n} /\ source'[w] = n /\ pc'[w] = "build"
      BY <1>0, <2>2, <3>1, <3>2, Added DEF Goto
    <3>4. \A j \in Source : is_ready_for_sema'[j] = is_ready_for_sema[j]
      <4>1. Len(sources) \in Nat /\ Source = 1 .. Len(sources)
        BY <1>0, SourceIDs
      <4>2. /\ is_ready_for_sema \in Seq(BOOLEAN) /\ Len(is_ready_for_sema) = Len(sources)
            /\ is_ready_for_sema' = Append(is_ready_for_sema, FALSE)
        BY <1>0, <2>2, <4>1
      <4>3. ASSUME NEW j \in 1 .. Len(is_ready_for_sema)
            PROVE  Append(is_ready_for_sema, FALSE)[j] = is_ready_for_sema[j]
        <5>1. FALSE \in BOOLEAN
          OBVIOUS
        <5> QED  BY <4>2, <5>1, AppendKeeps, Zenon
      <4>4. Source = 1 .. Len(is_ready_for_sema)
        BY <4>1, <4>2
      <4>5. ASSUME NEW j \in Source
            PROVE  Append(is_ready_for_sema, FALSE)[j] = is_ready_for_sema[j]
        BY <4>3, <4>4
      <4> QED  BY <4>2, <4>5
    <3>5. CASE id = n
      BY <3>3, <3>5 DEF Loading
    <3>6. CASE id \in Source
      BY <1>1, <1>2, <3>4, <3>6 DEF Load, Ready
    <3> QED  BY <3>3, <3>5, <3>6
  <2> QED  BY <1>2, <2>1, <2>2 DEF Load
<1>3. CASE Ready(w)
  BY <1>0, <1>1, <1>3 DEF Ready, Source
<1>4. CASE EmptyImport(w) \/ SelfImport(w) \/ WaitFailed(w) \/ Exists(w) \/ RecordFailedLoad(w)
           \/ Finish(w) \/ LookUp(w) \/ WaitReady(w) \/ Claim(w) \/ WaitLookUp(w)
           \/ Build(w) \/ Erase(w) \/ SetInQueue(w) \/ (\E j \in left[w] : Look(w, j))
           \/ (\E a \in Source : \E b \in DOMAIN symbols[a] : Take(w, a, b))
  <2>1. UNCHANGED manager
    BY <1>4 DEF EmptyImport, SelfImport, WaitFailed, Exists, RecordFailedLoad, Finish, LookUp,
                WaitReady, Claim, WaitLookUp, Build, Erase, SetInQueue, Look, Take
  <2>2. CASE Ready(w)
    BY <1>3, <2>2
  <2>3. CASE ~Ready(w)
    BY <1>1, <2>1, <2>3 DEF manager, Source
  <2> QED  BY <2>2, <2>3
<1> QED  BY <1>2, <1>3, <1>4 DEF WorkerStep

\* A loader does not forget a symbol that is still to be queued.
LEMMA ToQueueStep ==
    ASSUME IInv, NEW w \in Worker, WorkerStep(w), NEW id \in Source, NEW i \in DOMAIN symbols[id],
           symbols'[id][i].status = "WAITING", ~symbols[id][i].waits,
           NEW v \in Worker, ToQueue(v, id, i)
    PROVE  ToQueue(v, id, i)'
<1>0. TypeOK /\ Prefix /\ Jobs
  BY DEF IInv
<1>1. CASE v # w
  BY <1>0, <1>1, Frame, OthersQueueing DEF ToQueue
<1>2. CASE v = w
  <2>1. source[w] = id /\ pc[w] \in Loading
    BY <1>2 DEF ToQueue, Loading
  <2>2. CASE pc[w] = "erase"
    <3>1. source'[w] = id /\ pc'[w] = "queue" /\ left'[w] = DOMAIN symbols[id]
      BY <2>1, <2>2, LoaderSteps DEF Build, SetInQueue, Ready
    <3> QED  BY <1>2, <3>1 DEF ToQueue
  <2>3. CASE pc[w] = "queue" /\ i \in left[w]
    <3>1. /\ source'[w] = id
          /\ \E j \in left[w] :
                /\ left'[w] = left[w] \ {j}
                /\ IF symbols[id][j].waits
                     THEN pc'[w] = "queue"
                     ELSE pc'[w] = "set_in_queue" /\ target'[w] = j
      BY <2>1, <2>3, LoaderSteps DEF Build, SetInQueue, Ready
    <3>2. PICK j \in left[w] :
              /\ left'[w] = left[w] \ {j}
              /\ IF symbols[id][j].waits
                   THEN pc'[w] = "queue"
                   ELSE pc'[w] = "set_in_queue" /\ target'[w] = j
      BY <3>1
    <3>3. CASE j = i
      BY <1>2, <3>1, <3>2, <3>3 DEF ToQueue
    <3>4. CASE j # i
      <4>1. i \in left'[w] /\ pc'[w] \in {"queue", "set_in_queue"}
        BY <2>3, <3>2, <3>4
      <4> QED  BY <1>2, <3>1, <4>1 DEF ToQueue
    <3> QED  BY <3>3, <3>4
  <2>4. CASE pc[w] = "set_in_queue"
    <3>1. source'[w] = id /\ SetInQueue(w) /\ pc'[w] = "queue" /\ left'[w] = left[w]
      BY <2>1, <2>4, LoaderSteps DEF Build, Ready
    <3>2. target[w] # i
      <4> SUFFICES ASSUME target[w] = i PROVE symbols'[id][i].status = "IN_QUEUE"
        OBVIOUS
      <4>1. symbols[id] \in Seq(SymbolState) /\ symbols[id][i] \in SymbolState
            /\ id \in DOMAIN symbols
        BY <1>0, SourceIDs
      <4>2. symbols'[id][i] = AddTask(symbols[id][i])
        BY <2>1, <3>1, <4>1 DEF SetInQueue
      <4> QED  BY <4>1, <4>2 DEF AddTask, SymbolState
    <3>3. i \in left[w]
      BY <1>2, <2>4, <3>2 DEF ToQueue
    <3> QED  BY <1>2, <3>1, <3>3 DEF ToQueue
  <2> QED  BY <1>2, <2>2, <2>3, <2>4 DEF ToQueue
<1> QED  BY <1>1, <1>2

\* A symbol that has just been built is not queued, and waits when it is under a conditional.
LEMMA BuiltFields ==
    ASSUME NEW p \in Path, NEW j \in DOMAIN Globals[p]
    PROVE  /\ Built(p)[j].status = "WAITING" /\ Built(p)[j].queued = 0
           /\ Built(p)[j].waits = (Globals[p][j].under # 0)
BY DEF Built

LEMMA TendedStep ==
    ASSUME IInv, AllTended, NEW w \in Worker, WorkerStep(w)
    PROVE  AllTended'
<1>0. TypeOK /\ Prefix /\ Jobs /\ LoadedOnce
  BY DEF IInv
<1>n. Prefix' /\ symbols' \in [Source' -> Seq(SymbolState)]
  BY <1>0, ManagerStep
<1> SUFFICES ASSUME NEW id \in Source', NEW i \in DOMAIN symbols'[id] PROVE Tended(id, i)'
  BY DEF AllTended
<1> DEFINE s == symbols[id][i]
           t == symbols'[id][i]
           when == Globals[sources[id]][i].under
<1>1. id \in Source /\ sources'[id] = sources[id] /\ sources[id] \in Path
  BY <1>0, SymbolSteps, Frame, SourceIDs
<1>2. /\ DOMAIN symbols'[id] \subseteq DOMAIN Globals[sources[id]]
      /\ symbols'[id] \in Seq(SymbolState)
  BY <1>1, <1>n DEF Prefix
<1>3. when # i /\ (when # 0 => when \in DOMAIN symbols'[id])
  BY <1>1, <1>2, WhenType
<1> SUFFICES /\ t.status = "IN_QUEUE" => t.queued > 0
             /\ t.status = "WORKING"  => \E v \in Worker : pc'[v] # "idle" /\ job'[v] = <<id, i>>
             /\ t.waits               => when # 0 /\ symbols'[id][when].status # "DONE"
             /\ t.status = "WAITING"  => t.waits \/ \E v \in Worker : ToQueue(v, id, i)'
  BY <1>1 DEF Tended
<1>4. CASE NewlyBuilt(w, id, i)
  <2>0. \A j \in DOMAIN symbols'[id] : symbols'[id][j] = Built(sources[id])[j]
    BY <1>4 DEF NewlyBuilt
  <2>1. \A j \in DOMAIN symbols'[id] : symbols'[id][j].status = "WAITING"
    BY <1>1, <1>2, <2>0, BuiltFields
  <2>2. t.waits = (when # 0)
    BY <1>1, <1>2, <2>0, BuiltFields
  <2>3. ToQueue(w, id, i)'
    BY <1>4 DEF NewlyBuilt, ToQueue
  <2> QED  BY <1>3, <2>1, <2>2, <2>3
<1>5. CASE ~NewlyBuilt(w, id, i)
  <2>1. /\ i \in DOMAIN symbols[id] /\ Tended(id, i)
        /\ t = s \/ Taken(w, id, i) \/ Ended(w, id, i) \/ Released(w, id, i) \/ Queued(w, id, i)
    BY <1>1, <1>5, SymbolSteps DEF AllTended
  <2>2. t.status = "IN_QUEUE" => t.queued > 0
    BY <2>1 DEF Tended, Taken, Ended, Released, Queued
  <2>3. ASSUME t.status = "WORKING"
        PROVE  \E v \in Worker : pc'[v] # "idle" /\ job'[v] = <<id, i>>
    <3>1. CASE Taken(w, id, i)
      BY <3>1 DEF Taken
    <3>2. CASE s.status = "WORKING"
      <4>1. PICK v \in Worker : pc[v] # "idle" /\ job[v] = <<id, i>>
        BY <2>1, <3>2 DEF Tended
      <4>2. CASE v # w
        BY <1>0, <4>1, <4>2, Frame
      <4>3. CASE v = w
        BY <1>1, <2>1, <2>3, <4>1, <4>3, LeftEnded
      <4> QED  BY <4>2, <4>3
    <3> QED  BY <2>1, <2>3, <3>1, <3>2 DEF Ended, Released, Queued
  <2>4. ASSUME t.waits PROVE when # 0 /\ symbols'[id][when].status # "DONE"
    <3>1. s.waits
      BY <2>1, <2>4 DEF Taken, Ended, Released, Queued
    <3>2. when # 0 /\ symbols[id][when].status # "DONE"
      BY <2>1, <3>1 DEF Tended
    <3>3. when \in DOMAIN symbols'[id]
      BY <1>3, <3>2
    <3> SUFFICES ASSUME symbols'[id][when].status = "DONE" PROVE FALSE
      BY <3>2
    <3>4. ~NewlyBuilt(w, id, when)
      <4> SUFFICES ASSUME NewlyBuilt(w, id, when) PROVE FALSE
        OBVIOUS
      <4>1. symbols'[id][when] = Built(sources[id])[when] /\ when \in DOMAIN Globals[sources[id]]
        BY <1>2, <3>3 DEF NewlyBuilt
      <4> QED  BY <4>1 DEF Built
    <3>5. Ended(w, id, when)
      BY <1>1, <3>2, <3>3, <3>4, SymbolSteps DEF Taken, Released, Queued
    <3>6. Finish(w) /\ job[w] = <<id, when>>
      BY <3>5 DEF Ended
    <3> QED  BY <1>0, <1>1, <1>3, <2>1, <2>4, <3>6, FinishReleases
  <2>5. ASSUME t.status = "WAITING", ~t.waits PROVE \E v \in Worker : ToQueue(v, id, i)'
    <3>1. s.status = "WAITING" /\ ~s.waits
      BY <2>1, <2>5 DEF Taken, Ended, Released, Queued
    <3>2. PICK v \in Worker : ToQueue(v, id, i)
      BY <2>1, <3>1 DEF Tended
    <3> QED  BY <1>1, <2>1, <2>5, <3>1, <3>2, ToQueueStep
  <2> QED  BY <2>2, <2>3, <2>4, <2>5
<1> QED  BY <1>4, <1>5

LEMMA InitSInv == ASSUME Init PROVE SInv
<1>0. TypeOK /\ Prefix
  BY InitIInv DEF IInv
<1>1. Source = DOMAIN Initial /\ sources = Initial
  BY DEF Init, Source
<1>2. ReadyOrLoading
  BY <1>1 DEF Init, ReadyOrLoading
<1>3. ASSUME NEW id \in Source, NEW i \in DOMAIN symbols[id] PROVE Tended(id, i)
  <2> DEFINE p == Initial[id]
             when == Globals[p][i].under
             b == Built(p)
  <2>1. p \in Path /\ symbols[id] \in Seq(SymbolState) /\ DOMAIN symbols[id] \subseteq DOMAIN Globals[p]
    BY <1>0, <1>1, SourceIDs DEF Prefix
  <2>2. \A j \in DOMAIN Globals[p] :
            /\ b[j].status = "WAITING" /\ b[j].queued = 0
            /\ b[j].waits = (Globals[p][j].under # 0) /\ b[j] \in SymbolState
    BY <2>1, BuiltType DEF Built
  <2>3. \A j \in DOMAIN symbols[id] : symbols[id][j] = IF b[j].waits THEN b[j] ELSE AddTask(b[j])
    BY <1>1, <2>1 DEF Init, isWaiting, Built
  <2>4. \A j \in DOMAIN symbols[id] :
            /\ symbols[id][j].status \in {"WAITING", "IN_QUEUE"}
            /\ symbols[id][j].status = "IN_QUEUE" => symbols[id][j].queued > 0
            /\ symbols[id][j].status = "WAITING" => symbols[id][j].waits
            /\ symbols[id][j].waits => Globals[p][j].under # 0
    <3> SUFFICES ASSUME NEW j \in DOMAIN symbols[id]
                 PROVE  /\ symbols[id][j].status \in {"WAITING", "IN_QUEUE"}
                        /\ symbols[id][j].status = "IN_QUEUE" => symbols[id][j].queued > 0
                        /\ symbols[id][j].status = "WAITING" => symbols[id][j].waits
                        /\ symbols[id][j].waits => Globals[p][j].under # 0
      OBVIOUS
    <3>1. /\ b[j].status = "WAITING" /\ b[j].queued = 0 /\ b[j] \in SymbolState
          /\ b[j].waits = (Globals[p][j].under # 0)
      BY <2>1, <2>2
    <3>2. CASE b[j].waits
      BY <2>3, <3>1, <3>2
    <3>3. CASE ~b[j].waits
      <4>1. symbols[id][j] = [b[j] EXCEPT !.status = "IN_QUEUE", !.queued = b[j].queued + 1]
        BY <2>3, <3>3 DEF AddTask
      <4>2. /\ symbols[id][j].status = "IN_QUEUE" /\ symbols[id][j].waits = b[j].waits
            /\ symbols[id][j].queued = b[j].queued + 1
        BY <3>1, <4>1 DEF SymbolState
      <4> QED  BY <3>1, <3>3, <4>2
    <3> QED  BY <3>2, <3>3
  <2>5. when # 0 => when \in DOMAIN symbols[id]
    BY <2>1, WhenType
  <2>6. symbols[id][i].waits => when # 0 /\ symbols[id][when].status # "DONE"
    BY <2>4, <2>5
  <2>7. sources[id] = p
    BY <1>1
  <2> QED  BY <2>4, <2>6, <2>7 DEF Tended
<1> QED  BY <1>2, <1>3 DEF SInv, AllTended

LEMMA UnchangedSInv == ASSUME SInv, UNCHANGED vars PROVE SInv'
<1>1. UNCHANGED <<sources, is_ready_for_sema, symbols, pc, job, source, left, target>>
  BY DEF vars, manager, locals, queueing
<1> QED  BY <1>1 DEF SInv, ReadyOrLoading, AllTended, Tended, ToQueue, Source

\* At rest nobody is left with a symbol or a Source.
LEMMA TendedAtRest == ASSUME IInv, SInv PROVE AllAnalyzed
<1>0. TypeOK /\ Prefix /\ ReadyOrLoading
  BY DEF IInv, SInv
<1> SUFFICES ASSUME AtRest, NEW id \in Source
             PROVE  /\ is_ready_for_sema[id] \/ File[sources[id]] = "broken"
                    /\ \A i \in DOMAIN symbols[id] :
                           \/ symbols[id][i].status \in {"DONE", "ERRORED"}
                           \/ LET when == Globals[sources[id]][i].under IN
                              when # 0 /\ symbols[id][when].status \in {"ERRORED", "WAITING"}
  BY DEF AllAnalyzed
<1>1. is_ready_for_sema[id] \/ File[sources[id]] = "broken"
  BY <1>0 DEF ReadyOrLoading, AtRest, Loading
<1>2. ASSUME NEW i \in DOMAIN symbols[id]
      PROVE  /\ symbols[id][i].status \in {"DONE", "ERRORED", "WAITING"}
             /\ symbols[id][i].status = "WAITING" => symbols[id][i].waits
             /\ Tended(id, i)
  <2>1. Tended(id, i) /\ symbols[id][i].queued = 0 /\ \A w \in Worker : pc[w] = "idle"
    BY DEF SInv, AllTended, AtRest
  <2>2. symbols[id][i].status \in Status
    <3>1. symbols[id][i] \in SymbolState
      BY <1>0, SourceIDs
    <3> QED  BY <3>1 DEF SymbolState
  <2>3. \A w \in Worker : ~ToQueue(w, id, i)
    BY <2>1 DEF ToQueue
  <2> QED  BY <2>1, <2>2, <2>3 DEF Tended, Status
<1>3. ASSUME NEW i \in DOMAIN symbols[id], symbols[id][i].status = "WAITING"
      PROVE  LET when == Globals[sources[id]][i].under IN
             when # 0 /\ symbols[id][when].status \in {"ERRORED", "WAITING"}
  <2> DEFINE when == Globals[sources[id]][i].under
  <2>1. when # 0 /\ symbols[id][when].status # "DONE"
    BY <1>2, <1>3 DEF Tended
  <2>2. when \in DOMAIN symbols[id]
    BY <1>0, <2>1, SourceIDs, WhenType DEF Prefix
  <2> QED  BY <1>2, <2>1, <2>2
<1> QED  BY <1>1, <1>2, <1>3

\* When the work is over every Source that could be parsed is ready, and each of its global
\* symbols has been analysed unless the conditional it is under was not: also where a symbol
\* is queued twice, by its loader and by the conditional.
THEOREM EverythingIsAnalyzed == Spec => []AllAnalyzed
<1>1. Init => SInv
  BY InitSInv
<1>2. IInv /\ SInv /\ [Next]_vars => SInv'
  BY ReadyStep, TendedStep, UnchangedSInv DEF Next, SInv
<1>3. IInv /\ SInv => AllAnalyzed
  BY TendedAtRest
<1> QED  BY <1>1, <1>2, <1>3, Invariance, PTL DEF Spec

=============================================================================
