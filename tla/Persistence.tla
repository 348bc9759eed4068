---------------------------- MODULE Persistence ----------------------------
(***************************************************************************)
(* The server without a database: memory storage, the cacher that saves it *)
(* to a file and restores it, and process restarts                         *)
(* (internal/cacher/cacher.go, internal/storage/memstorage,                *)
(* internal/server/server.go).                                             *)
(*                                                                         *)
(* A batch of updates is applied under the storage's lock, one metric at a *)
(* time; saveMetrics reads the same map WITHOUT the lock: it first ranges  *)
(* over the map collecting pointers, and reads the values only when it     *)
(* marshals them.  The file is truncated, written and synced in place.     *)
(*                                                                         *)
(* Data abstraction.  The value of a metric is its version, the number of  *)
(* updates in it (0: no such metric), which is the value of a counter      *)
(* updated by 1 and orders the values of a gauge.  A gauge can also be NaN, *)
(* which JSON cannot represent.                                            *)
(***************************************************************************)
EXTENDS Integers, Sequences

CONSTANTS
    Ids,            \* metric names
    Gauges,         \* those that can be NaN
    Batches,        \* the batches clients send: sequences of names
    RestoreOnStart, \* configuration: restore the file at startup
    NoFile,         \* there is no backup file
    MaxVersion      \* bound: updates of one metric

ASSUME PersistenceConstants ==
    /\ Gauges \subseteq Ids
    /\ Batches \subseteq Seq(Ids) \ {<<>>}
    /\ RestoreOnStart \in BOOLEAN
    /\ MaxVersion \in Nat

Entry == [id : Ids, version : Nat]

\* How the text of a file ends: after its last bracket, between two elements,
\* inside an element, or before its first character.
Ends == {"closed", "open", "torn", "nothing"}
File == [entries : Seq(Entry), end : Ends]

ASSUME NoFileIsNoFile == NoFile \notin File

Truncated == [entries |-> <<>>, end |-> "nothing"]
Whole(data) == [entries |-> data, end |-> "closed"]
\* What a write of data that did not complete can leave.
Partial(data) ==
    {Truncated}
    \cup {[entries |-> SubSeq(data, 1, k), end |-> "open"] : k \in 0..Len(data)}
    \cup {[entries |-> SubSeq(data, 1, k), end |-> "torn"] : k \in 0..(Len(data) - 1)}

VARIABLES
    proc,      \* the server process: "down", "up" or "refused" to start
    stopping,  \* the server's context is done
    mem,       \* MemoryStorage.Metrics: the version of each metric
    nan,       \* gauges whose value is NaN
    batch,     \* what the writer that holds the lock still has to apply
    saver,     \* control state of saveMetrics
    known,     \* the metrics in the map when it started to range over it
    list,      \* metricsList: the metrics it collected
    data,      \* the elements marshalled so far
    file,      \* the backup file
    floor,     \* the versions when the last completed save began
    begun,     \* the versions when the current save began
    intact     \* no save touched the file since the last completed one

storage == <<mem, nan, batch>>
saving == <<saver, known, list, data, begun>>
disk == <<file, floor, intact>>
vars == <<proc, stopping, storage, saving, disk>>

TypeOK ==
    /\ proc \in {"down", "up", "refused"}
    /\ stopping \in BOOLEAN
    /\ mem \in [Ids -> Nat]
    /\ nan \in SUBSET Gauges
    /\ batch \in Seq(Ids)
    /\ saver \in {"idle", "range", "marshal", "open", "write", "sync", "dead"}
    /\ known \in SUBSET Ids
    /\ list \in Seq(Ids)
    /\ data \in Seq(Entry)
    /\ file \in File \cup {NoFile}
    /\ floor \in [Ids -> Nat] /\ begun \in [Ids -> Nat]
    /\ intact \in BOOLEAN

Empty == [i \in Ids |-> 0]

Init ==
    /\ proc = "down" /\ stopping = FALSE
    /\ mem = Empty /\ nan = {} /\ batch = <<>>
    /\ saver = "idle" /\ known = {} /\ list = <<>> /\ data = <<>>
    /\ begun = Empty
    /\ file = NoFile /\ floor = Empty /\ intact = TRUE

Elements(seq) == {seq[k] : k \in 1..Len(seq)}

\* The version of a metric in the file; 0 if it is not there.
InFile(i) ==
    IF file # NoFile /\ \E e \in Elements(file.entries) : e.id = i
    THEN (CHOOSE e \in Elements(file.entries) : e.id = i).version
    ELSE 0

Forget ==
    /\ nan' = {} /\ batch' = <<>>
    /\ saver' = "idle" /\ known' = {} /\ list' = <<>> /\ data' = <<>>
    /\ begun' = Empty
    /\ stopping' = FALSE

-----------------------------------------------------------------------------
(* Startup *)

\* Restore decodes element after element.  A file that ends between two
\* elements looks like one that ended there; an empty file, or one that ends
\* inside an element, is an error and the server returns it.
Readable == file = NoFile \/ file.end \in {"closed", "open"}

\* Mutant: a file that was cut off is ignored.
StartWithoutCutOff ==
    /\ proc = "down"
    /\ IF file # NoFile /\ file.end = "closed"
       THEN mem' = [i \in Ids |-> InFile(i)]
       ELSE mem' = Empty
    /\ proc' = "up"
    /\ Forget
    /\ UNCHANGED disk

Start ==
    /\ proc = "down"
    /\ IF ~RestoreOnStart
       THEN proc' = "up" /\ mem' = Empty
       ELSE IF Readable
       THEN proc' = "up" /\ mem' = [i \in Ids |-> InFile(i)]
       ELSE proc' = "refused" /\ mem' = Empty
    /\ Forget
    /\ UNCHANGED disk

-----------------------------------------------------------------------------
(* SetOrUpdateMetricBatch *)

BeginBatch ==
    /\ proc = "up"
    /\ batch = <<>>
    /\ \E b \in Batches :
          /\ \A i \in Elements(b) : mem[i] + Len(b) <= MaxVersion
          /\ batch' = b
    /\ UNCHANGED <<proc, stopping, mem, nan, saving, disk>>

\* Mutant: the type of the stored metric is replaced by that of the update.
ApplyAnyType ==
    /\ proc = "up"
    /\ batch # <<>>
    /\ mem' = [mem EXCEPT ![Head(batch)] = @ + 1]
    /\ \/ nan' = nan \ {Head(batch)}
       \/ nan' = nan \cup {Head(batch)}
    /\ batch' = Tail(batch)
    /\ UNCHANGED <<proc, stopping, saving, disk>>

ApplyNext ==
    /\ proc = "up"
    /\ batch # <<>>
    /\ mem' = [mem EXCEPT ![Head(batch)] = @ + 1]
    /\ \/ nan' = nan \ {Head(batch)}
       \/ Head(batch) \in Gauges /\ nan' = nan \cup {Head(batch)}
    /\ batch' = Tail(batch)
    /\ UNCHANGED <<proc, stopping, saving, disk>>

\* A metric is inserted into the map while saveMetrics ranges over it: the
\* runtime may notice, and then ends the process.
ConcurrentMapFatal ==
    /\ proc = "up"
    /\ batch # <<>> /\ mem[Head(batch)] = 0
    /\ saver = "range"
    /\ proc' = "down"
    /\ mem' = Empty
    /\ Forget
    /\ UNCHANGED disk

-----------------------------------------------------------------------------
(* saveMetrics *)

\* Mutant: the file is opened before the metrics are read.
BeginSaveOpened ==
    /\ proc = "up" /\ ~stopping
    /\ saver = "idle"
    /\ \E i \in Ids : mem[i] # 0
    /\ saver' = "range"
    /\ known' = {i \in Ids : mem[i] # 0}
    /\ list' = <<>> /\ data' = <<>>
    /\ begun' = mem
    /\ file' = Truncated
    /\ intact' = FALSE
    /\ UNCHANGED <<proc, stopping, storage, floor>>

\* A tick of the ticker, unless the context is done; an empty map is not saved.
BeginSave ==
    /\ proc = "up" /\ ~stopping
    /\ saver = "idle"
    /\ \E i \in Ids : mem[i] # 0
    /\ saver' = "range"
    /\ known' = {i \in Ids : mem[i] # 0}
    /\ list' = <<>> /\ data' = <<>>
    /\ begun' = mem
    /\ UNCHANGED <<proc, stopping, storage, disk>>

\* The range visits every metric that was in the map, in any order, and may
\* or may not visit one inserted meanwhile.
Collect ==
    /\ proc = "up"
    /\ saver = "range"
    /\ \E i \in Ids :
          /\ mem[i] # 0 /\ i \notin Elements(list)
          /\ list' = Append(list, i)
    /\ UNCHANGED <<proc, stopping, storage, saver, known, data, begun, disk>>

EndRange ==
    /\ proc = "up"
    /\ saver = "range"
    /\ known \subseteq Elements(list)
    /\ saver' = "marshal"
    /\ UNCHANGED <<proc, stopping, storage, known, list, data, begun, disk>>

\* Mutant: a metric that cannot be marshalled is left out.
MarshalSkips ==
    /\ proc = "up"
    /\ saver = "marshal"
    /\ Len(data) < Len(list)
    /\ LET k == Len(data) + 1
       IN  /\ IF list[k] \in nan
              THEN /\ list' = SubSeq(list, 1, k - 1) \o SubSeq(list, k + 1, Len(list))
                   /\ UNCHANGED data
              ELSE /\ data' = Append(data, [id |-> list[k], version |-> mem[list[k]]])
                   /\ UNCHANGED list
           /\ saver' = IF Len(data') = Len(list') THEN "open" ELSE "marshal"
    /\ UNCHANGED <<proc, stopping, storage, known, begun, disk>>

\* json.Marshal follows the pointers into the live metrics.
MarshalNext ==
    /\ proc = "up"
    /\ saver = "marshal"
    /\ Len(data) < Len(list)
    /\ LET i == list[Len(data) + 1]
       IN  /\ i \notin nan
           /\ data' = Append(data, [id |-> i, version |-> mem[i]])
           /\ saver' = IF Len(data') = Len(list) THEN "open" ELSE "marshal"
    /\ UNCHANGED <<proc, stopping, storage, known, list, begun, disk>>

\* The save fails: runPeriodically returns, and the errgroup stops the server.
SaveFails ==
    /\ saver' = "dead"
    /\ stopping' = TRUE

MarshalFails ==
    /\ proc = "up"
    /\ saver = "marshal"
    /\ Len(data) < Len(list) /\ list[Len(data) + 1] \in nan
    /\ SaveFails
    /\ UNCHANGED <<proc, storage, known, list, data, begun, disk>>

\* os.OpenFile with O_TRUNC.
Open ==
    /\ proc = "up"
    /\ saver = "open"
    /\ file' = Truncated
    /\ intact' = FALSE
    /\ saver' = "write"
    /\ UNCHANGED <<proc, stopping, storage, known, list, data, begun, floor>>

OpenFails ==
    /\ proc = "up"
    /\ saver = "open"
    /\ SaveFails
    /\ UNCHANGED <<proc, storage, known, list, data, begun, disk>>

Write ==
    /\ proc = "up"
    /\ saver = "write"
    /\ file' = Whole(data)
    /\ saver' = "sync"
    /\ UNCHANGED <<proc, stopping, storage, known, list, data, begun, floor,
                   intact>>

\* A short write: the disk is full.
WriteFails ==
    /\ proc = "up"
    /\ saver = "write"
    /\ file' \in Partial(data)
    /\ SaveFails
    /\ UNCHANGED <<proc, storage, known, list, data, begun, floor, intact>>

\* Mutant: the periodic task returns after a save.
SyncOnce ==
    /\ proc = "up"
    /\ saver = "sync"
    /\ saver' = "dead"
    /\ known' = {} /\ list' = <<>> /\ data' = <<>> /\ begun' = Empty
    /\ floor' = begun
    /\ intact' = TRUE
    /\ UNCHANGED <<proc, stopping, storage, file>>

Sync ==
    /\ proc = "up"
    /\ saver = "sync"
    /\ saver' = "idle"
    /\ known' = {} /\ list' = <<>> /\ data' = <<>> /\ begun' = Empty
    /\ floor' = begun
    /\ intact' = TRUE
    /\ UNCHANGED <<proc, stopping, storage, file>>

SyncFails ==
    /\ proc = "up"
    /\ saver = "sync"
    /\ SaveFails
    /\ UNCHANGED <<proc, storage, known, list, data, begun, disk>>

-----------------------------------------------------------------------------
(* Shutdown and crashes *)

Signal ==
    /\ proc = "up"
    /\ ~stopping
    /\ stopping' = TRUE
    /\ UNCHANGED <<proc, storage, saving, disk>>

\* The cacher returns between two saves and makes no last one; a request that
\* is being served ends with the process.
Exit ==
    /\ proc = "up"
    /\ stopping
    /\ saver \in {"idle", "dead"}
    /\ proc' = "down"
    /\ mem' = Empty
    /\ Forget
    /\ UNCHANGED disk

\* The process is killed: the kernel has what it wrote.
Kill ==
    /\ proc = "up"
    /\ proc' = "down"
    /\ mem' = Empty
    /\ Forget
    /\ UNCHANGED disk

\* The machine stops: what was not synced may be on disk in part.
PowerLoss ==
    /\ proc # "refused"
    /\ IF intact THEN UNCHANGED file
                 ELSE file' \in {file} \cup Partial(file.entries)
    /\ proc' = "down"
    /\ mem' = Empty
    /\ Forget
    /\ UNCHANGED <<floor, intact>>

Refused == proc = "refused" /\ UNCHANGED vars

Next ==
    \/ Start
    \/ BeginBatch \/ ApplyNext \/ ConcurrentMapFatal
    \/ BeginSave \/ Collect \/ EndRange \/ MarshalNext \/ MarshalFails
    \/ Open \/ OpenFails \/ Write \/ WriteFails \/ Sync \/ SyncFails
    \/ Signal \/ Exit \/ Kill \/ PowerLoss
    \/ Refused

Spec == Init /\ [][Next]_vars

-----------------------------------------------------------------------------
(* Safety *)

\* Whatever the file says of a metric has been its value: a save that reads
\* without the lock, a torn write or a restart never invents a version
\* (cacher.go:107-121, 76-100).
SavedWasReal ==
    proc = "up" /\ RestoreOnStart => \A i \in Ids : InFile(i) <= mem[i]

\* A server that restored its file, or found none, can be killed and started
\* again at any time but between the truncation of the file and the end of its
\* write, or after a save that failed (cacher.go:132-140).
StartableBetweenWrites ==
    proc = "up" /\ RestoreOnStart /\ saver \notin {"write", "dead"} => Readable

\* Once a save completed, and until the next one opens the file, a restart
\* finds every update that was in the map when that save began, however the
\* process ended and whatever updates ran while it was saving.
CompletedSaveSurvives ==
    [][proc = "down" /\ proc' # "down" /\ intact /\ RestoreOnStart
         => proc' = "up" /\ \A i \in Ids : mem'[i] >= floor[i]]_vars

\* What the comment on Cacher promises, "periodically saves metrics to a file
\* and can restore them on startup": the backup is there to start from.
StartsAfterCrash == proc # "refused"

\* The same comment, of a start that succeeds: what a completed save held is
\* restored.
RestoresCompletedSaves ==
    [][proc = "down" /\ proc' = "up" => \A i \in Ids : mem'[i] >= floor[i]]_vars

-----------------------------------------------------------------------------
(* Liveness *)

\* The ticker keeps ticking, and a save makes progress; the writer that holds
\* the lock applies its batch.
Fairness ==
    /\ WF_vars(Start)
    /\ WF_vars(ApplyNext)
    /\ WF_vars(BeginSave)
    /\ WF_vars(EndRange)
    /\ \A i \in Ids :
        WF_vars(Collect /\ list' = Append(list, i))
    /\ WF_vars(MarshalNext \/ MarshalFails)
    /\ WF_vars(Open \/ OpenFails)
    /\ WF_vars(Write \/ WriteFails)
    /\ WF_vars(Sync \/ SyncFails)
    /\ WF_vars(Exit)

FairSpec == Spec /\ Fairness

Saved(i, v) == file # NoFile /\ InFile(i) >= v

\* Every update is saved in the end, unless the server stops first: a metric
\* inserted while a save ranges over the map is in a later one.
UpdatesAreSaved ==
    \A i \in Ids : \A v \in 1..MaxVersion :
        (proc = "up" /\ mem[i] >= v) ~> (Saved(i, v) \/ stopping \/ proc # "up")
=============================================================================
