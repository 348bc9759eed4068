-------------------------- MODULE PersistenceProofs --------------------------
(* Theorems about Persistence, for any metrics and batches. *)
EXTENDS Persistence, TLAPS

-----------------------------------------------------------------------------
(* Files *)

\* A part of a sequence is one.
LEMMA Prefixes ==
    ASSUME NEW S, NEW s \in Seq(S), NEW k \in 0 .. Len(s)
    PROVE  /\ SubSeq(s, 1, k) \in Seq(S)
           /\ Elements(SubSeq(s, 1, k)) \subseteq Elements(s)
<1>1. /\ SubSeq(s, 1, k) \in Seq(S) /\ Len(SubSeq(s, 1, k)) = k
      /\ \A j \in 1 .. k : SubSeq(s, 1, k)[j] = s[j]
  OBVIOUS
<1>2. QED
  BY <1>1 DEF Elements

\* Elements are what the sequence is of.
LEMMA ElementsIn == ASSUME NEW S, NEW s \in Seq(S) PROVE Elements(s) \subseteq S
BY DEF Elements

\* What a write can leave is a file, with elements that were written.
LEMMA Writes ==
    ASSUME NEW d \in Seq(Entry)
    PROVE  /\ Whole(d) \in File /\ Truncated \in File
           /\ \A f \in Partial(d) :
                 f \in File /\ Elements(f.entries) \subseteq Elements(d)
<1>1. Whole(d) \in File /\ Truncated \in File
  BY DEF Whole, Truncated, File, Ends
<1>2. Elements(Truncated.entries) = {}
  BY DEF Elements, Truncated
<1>3. ASSUME NEW f \in Partial(d), f # Truncated
      PROVE  f \in File /\ Elements(f.entries) \subseteq Elements(d)
  <2>1. PICK k \in 0 .. Len(d), end \in {"open", "torn"} :
           f = [entries |-> SubSeq(d, 1, k), end |-> end]
    <3>1. Len(d) \in Nat
      OBVIOUS
    <3>2. QED
      BY <1>3, <3>1 DEF Partial
  <2>2. SubSeq(d, 1, k) \in Seq(Entry)
        /\ Elements(SubSeq(d, 1, k)) \subseteq Elements(d)
    BY Prefixes
  <2>3. QED
    BY <2>1, <2>2 DEF File, Ends
<1>4. QED
  BY <1>1, <1>2, <1>3

\* InFile of any file.
VersionIn(f, i) ==
    IF f # NoFile /\ \E e \in Elements(f.entries) : e.id = i
    THEN (CHOOSE e \in Elements(f.entries) : e.id = i).version
    ELSE 0

\* What a file says of a metric is in it, or nothing.
LEMMA VersionIs ==
    ASSUME NEW f \in File \cup {NoFile}, NEW i \in Ids
    PROVE  /\ VersionIn(f, i) \in Nat
           /\ f = NoFile => VersionIn(f, i) = 0
           /\ f # NoFile =>
                \/ /\ VersionIn(f, i) = 0
                   /\ \A e \in Elements(f.entries) : e.id # i
                \/ \E e \in Elements(f.entries) :
                      e.id = i /\ VersionIn(f, i) = e.version
<1>1. CASE f = NoFile
  BY <1>1 DEF VersionIn
<1>2. CASE f # NoFile /\ \A e \in Elements(f.entries) : e.id # i
  BY <1>2 DEF VersionIn
<1>3. CASE f # NoFile /\ \E e \in Elements(f.entries) : e.id = i
  <2>1. PICK e \in Elements(f.entries) :
           e.id = i /\ e = CHOOSE d \in Elements(f.entries) : d.id = i
    BY <1>3
  <2>2. VersionIn(f, i) = e.version
    BY <1>3, <2>1 DEF VersionIn
  <2>3. f.entries \in Seq(Entry)
    BY <1>3 DEF File
  <2>4. e \in Entry
    BY <2>1, <2>3, ElementsIn
  <2>5. QED
    BY <1>3, <2>1, <2>2, <2>4 DEF Entry
<1>4. QED
  BY <1>1, <1>2, <1>3

\* InFile, before and after a step.
LEMMA InFileIs ==
    /\ \A i \in Ids : InFile(i) = VersionIn(file, i)
    /\ \A i \in Ids : InFile(i)' = VersionIn(file', i)
BY DEF InFile, VersionIn

-----------------------------------------------------------------------------
(* Types *)

\* A new process starts with a state that is one.
LEMMA ForgetTypes ==
    ASSUME Forget
    PROVE  /\ nan' \in SUBSET Gauges /\ batch' \in Seq(Ids)
           /\ saver' = "idle" /\ known' \in SUBSET Ids /\ list' \in Seq(Ids)
           /\ data' \in Seq(Entry) /\ begun' \in [Ids -> Nat]
           /\ stopping' \in BOOLEAN
<1>1. <<>> \in Seq(Ids) /\ <<>> \in Seq(Entry) /\ Empty \in [Ids -> Nat]
  BY DEF Empty
<1>2. QED
  BY <1>1 DEF Forget

\* A backup that no save has touched may not be there yet.
Backed == file = NoFile => intact

\* Backed is inductive.
LEMMA NextBacked == TypeOK /\ Backed /\ [Next]_vars => Backed'
<1> SUFFICES ASSUME TypeOK, Backed, [Next]_vars PROVE Backed'
  OBVIOUS
<1> USE DEF Backed, disk
<1>1. \A d \in Seq(Entry) : \A f \in Partial(d) \cup {Whole(d), Truncated} : f # NoFile
  BY Writes, NoFileIsNoFile
<1>2. CASE Open \/ Write \/ WriteFails
  <2>1. file' \in Partial(data) \cup {Whole(data), Truncated} /\ data \in Seq(Entry)
    BY <1>2 DEF Open, Write, WriteFails, TypeOK
  <2>2. QED
    BY <1>1, <2>1
<1>3. CASE PowerLoss
  <2>1. CASE file = NoFile \/ file' = file
    BY <1>3, <2>1 DEF PowerLoss
  <2>2. CASE file # NoFile /\ file' # file
    <3>1. file.entries \in Seq(Entry) /\ file' \in Partial(file.entries)
      BY <1>3, <2>2 DEF PowerLoss, TypeOK, File
    <3>2. QED
      BY <1>1, <3>1
  <2>3. QED
    BY <2>1, <2>2
<1>4. CASE Sync
  BY <1>4 DEF Sync
<1>5. CASE UNCHANGED disk
  BY <1>5
<1>6. QED
  BY <1>2, <1>3, <1>4, <1>5
  DEF Next, vars, Start, BeginBatch, ApplyNext, ConcurrentMapFatal, BeginSave,
      Collect, EndRange, MarshalNext, MarshalFails, OpenFails, SyncFails,
      Signal, Exit, Kill, Refused

\* Every step keeps the types.
LEMMA NextTypes == TypeOK /\ Backed /\ [Next]_vars => TypeOK'
<1> SUFFICES ASSUME TypeOK, Backed, [Next]_vars PROVE TypeOK'
  OBVIOUS
<1> USE DEF storage, saving, disk
<1>1. ASSUME Forget, UNCHANGED disk, proc' \in {"down", "up", "refused"},
             mem' \in [Ids -> Nat]
      PROVE  TypeOK'
  BY <1>1, ForgetTypes DEF TypeOK
<1>2. Empty \in [Ids -> Nat]
  BY DEF Empty
<1>3. CASE Start
  <2>1. [i \in Ids |-> InFile(i)] \in [Ids -> Nat]
    BY InFileIs, VersionIs DEF TypeOK
  <2>2. QED
    BY <1>1, <1>2, <1>3, <2>1 DEF Start
<1>4. CASE ConcurrentMapFatal \/ Exit \/ Kill
  BY <1>1, <1>2, <1>4 DEF ConcurrentMapFatal, Exit, Kill
<1>5. CASE PowerLoss
  <2>1. file' \in File \cup {NoFile}
    <3>1. CASE file' = file
      BY <3>1 DEF TypeOK
    <3>2. CASE file # NoFile
      <4>1. file.entries \in Seq(Entry)
        BY <3>2 DEF TypeOK, File
      <4>2. QED
        BY <1>5, <3>1, <4>1, Writes DEF PowerLoss
    <3>3. CASE file = NoFile /\ file' # file
      BY <1>5, <3>3 DEF PowerLoss, Backed
    <3>4. QED
      BY <3>1, <3>2, <3>3
  <2>2. QED
    BY <1>2, <1>5, <2>1, ForgetTypes DEF PowerLoss, TypeOK
<1>6. CASE BeginBatch
  BY <1>6, PersistenceConstants DEF BeginBatch, TypeOK
<1>7. CASE ApplyNext
  <2>1. Head(batch) \in Ids /\ Tail(batch) \in Seq(Ids)
    BY <1>7 DEF ApplyNext, TypeOK
  <2>2. QED
    BY <1>7, <2>1 DEF ApplyNext, TypeOK
<1>8. CASE BeginSave
  BY <1>8 DEF BeginSave, TypeOK
<1>9. CASE Collect
  BY <1>9 DEF Collect, TypeOK
<1>10. CASE EndRange
  BY <1>10 DEF EndRange, TypeOK
<1>11. CASE MarshalNext
  <2> DEFINE i == list[Len(data) + 1]
             e == [id |-> i, version |-> mem[i]]
  <2>1. i \in Ids
    BY <1>11 DEF MarshalNext, TypeOK
  <2>2. e \in Entry
    BY <2>1 DEF Entry, TypeOK
  <2>3. data' = Append(data, e) /\ saver' \in {"open", "marshal"}
        /\ UNCHANGED <<proc, stopping, storage, known, list, begun, disk>>
    BY <1>11 DEF MarshalNext
  <2> HIDE DEF i, e
  <2>4. data' \in Seq(Entry)
    BY <2>2, <2>3 DEF TypeOK
  <2>5. QED
    BY <2>3, <2>4 DEF TypeOK
<1>12. CASE MarshalFails \/ OpenFails \/ SyncFails
  BY <1>12 DEF MarshalFails, OpenFails, SyncFails, SaveFails, TypeOK
<1>13. CASE Open
  <2>1. file' \in File
    BY <1>13, Writes DEF Open, TypeOK
  <2>2. QED
    BY <1>13, <2>1 DEF Open, TypeOK
<1>14. CASE Write
  <2>1. file' \in File
    BY <1>14, Writes DEF Write, TypeOK
  <2>2. QED
    BY <1>14, <2>1 DEF Write, TypeOK
<1>15. CASE WriteFails
  <2>1. file' \in File
    BY <1>15, Writes DEF WriteFails, TypeOK
  <2>2. QED
    BY <1>15, <2>1 DEF WriteFails, SaveFails, TypeOK
<1>16. CASE Sync
  BY <1>16, <1>2 DEF Sync, TypeOK
<1>17. CASE Signal
  BY <1>17 DEF Signal, TypeOK
<1>18. CASE UNCHANGED vars
  BY <1>18 DEF vars, TypeOK
<1>19. QED
  BY <1>3, <1>4, <1>5, <1>6, <1>7, <1>8, <1>9, <1>10, <1>11, <1>12, <1>13,
     <1>14, <1>15, <1>16, <1>17, <1>18 DEF Next, Refused

\* Types and Backed hold in every reachable state.
LEMMA PersistenceTypesBacked == Spec => [](TypeOK /\ Backed)
<1>1. Init => TypeOK /\ Backed
  <2> SUFFICES ASSUME Init PROVE TypeOK /\ Backed
    OBVIOUS
  <2>1. <<>> \in Seq(Ids) /\ <<>> \in Seq(Entry) /\ Empty \in [Ids -> Nat]
    BY DEF Empty
  <2>2. QED
    BY <2>1 DEF Init, TypeOK, Backed
<1>2. QED
  BY <1>1, NextTypes, NextBacked, PTL DEF Spec

\* However writes fail and processes end, the file is a file and the versions
\* are versions (TypeOK).
THEOREM PersistenceTypes == Spec => []TypeOK
BY PersistenceTypesBacked, PTL

-----------------------------------------------------------------------------
(* The file never invents a version *)

\* What has been marshalled has been real.
DataWasReal == \A e \in Elements(data) : e.version <= mem[e.id]

\* An update makes no version smaller.
LEMMA ApplyGrows ==
    ASSUME TypeOK, ApplyNext
    PROVE  \A i \in Ids : mem[i] \in Nat /\ mem'[i] \in Nat /\ mem[i] <= mem'[i]
<1>1. Head(batch) \in Ids
  BY DEF ApplyNext, TypeOK
<1>2. QED
  BY <1>1 DEF ApplyNext, TypeOK

\* One element more.
LEMMA ElementsAppend ==
    ASSUME NEW S, NEW s \in Seq(S), NEW e \in S
    PROVE  Elements(Append(s, e)) = Elements(s) \cup {e}
<1>1. /\ Len(Append(s, e)) = Len(s) + 1 /\ Len(s) \in Nat
      /\ \A k \in 1 .. Len(s) : Append(s, e)[k] = s[k]
      /\ Append(s, e)[Len(s) + 1] = e
  OBVIOUS
<1>2. QED
  BY <1>1 DEF Elements

\* What MarshalNext appends.
LEMMA MarshalAppends ==
    ASSUME TypeOK, MarshalNext
    PROVE  \E i \in Ids : LET e == [id |-> i, version |-> mem[i]] IN
              /\ i = list[Len(data) + 1] /\ Len(data) + 1 \in 1 .. Len(list)
              /\ e \in Entry /\ data' = Append(data, e)
<1> DEFINE i == list[Len(data) + 1]
<1>1. Len(data) + 1 \in 1 .. Len(list) /\ i \in Ids
  BY DEF MarshalNext, TypeOK
<1>2. [id |-> i, version |-> mem[i]] \in Entry
  BY <1>1 DEF Entry, TypeOK
<1>3. data' = Append(data, [id |-> i, version |-> mem[i]])
  BY DEF MarshalNext
<1>4. QED
  BY <1>1, <1>2, <1>3

\* DataWasReal and SavedWasReal are inductive together.
LEMMA NextReal ==
    TypeOK /\ Backed /\ DataWasReal /\ SavedWasReal /\ [Next]_vars
        => DataWasReal' /\ SavedWasReal'
<1> SUFFICES ASSUME TypeOK, Backed, DataWasReal, SavedWasReal, [Next]_vars
             PROVE  DataWasReal' /\ SavedWasReal'
  OBVIOUS
<1> USE DEF storage, saving, disk
<1>forget. Forget => DataWasReal'
  BY DEF Forget, DataWasReal, Elements
<1>1. CASE Start
  <2>1. CASE proc' = "up" /\ RestoreOnStart
    <3>1. mem' = [i \in Ids |-> InFile(i)] /\ file' = file
      BY <1>1, <2>1 DEF Start
    <3>2. \A i \in Ids : InFile(i)' = InFile(i) /\ InFile(i) \in Nat
      BY <3>1, InFileIs, VersionIs DEF TypeOK
    <3>3. QED
      BY <1>1, <1>forget, <3>1, <3>2 DEF Start, SavedWasReal
  <2>2. CASE ~(proc' = "up" /\ RestoreOnStart)
    BY <1>1, <1>forget, <2>2 DEF Start, SavedWasReal
  <2>3. QED
    BY <2>1, <2>2
<1>2. CASE ConcurrentMapFatal \/ Exit \/ Kill \/ PowerLoss
  BY <1>2, <1>forget
  DEF ConcurrentMapFatal, Exit, Kill, PowerLoss, SavedWasReal
<1>3. CASE ApplyNext
  <2>1. UNCHANGED <<proc, data, file>>
    BY <1>3 DEF ApplyNext
  <2>2. \A e \in Elements(data) : e.id \in Ids /\ e.version \in Nat
    <3>1. Elements(data) \subseteq Entry
      BY ElementsIn DEF TypeOK
    <3>2. QED
      BY <3>1 DEF Entry
  <2>3. DataWasReal'
    BY <1>3, <2>1, <2>2, ApplyGrows DEF DataWasReal
  <2>4. \A i \in Ids : InFile(i)' = InFile(i) /\ InFile(i) \in Nat
    BY <2>1, InFileIs, VersionIs DEF TypeOK
  <2>5. SavedWasReal'
    BY <1>3, <2>1, <2>4, ApplyGrows DEF SavedWasReal
  <2>6. QED
    BY <2>3, <2>5
<1>4. ASSUME UNCHANGED <<proc, mem, file>> PROVE SavedWasReal'
  BY <1>4 DEF SavedWasReal, InFile
<1>5. ASSUME UNCHANGED <<mem, data>> PROVE DataWasReal'
  BY <1>5 DEF DataWasReal
<1>6. CASE \/ BeginBatch \/ Collect \/ EndRange \/ MarshalFails \/ OpenFails
           \/ SyncFails \/ Signal \/ UNCHANGED vars
  <2>1. UNCHANGED <<proc, mem, file, data>>
    BY <1>6 DEF BeginBatch, Collect, EndRange, MarshalFails, OpenFails,
       SyncFails, SaveFails, Signal, vars
  <2>2. QED
    BY <2>1, <1>4, <1>5
<1>7. CASE BeginSave \/ Sync
  <2>1. UNCHANGED <<proc, mem, file>> /\ data' = <<>>
    BY <1>7 DEF BeginSave, Sync
  <2>2. DataWasReal'
    BY <2>1 DEF DataWasReal, Elements
  <2>3. QED
    BY <2>1, <2>2, <1>4
<1>8. CASE MarshalNext
  <2>1. UNCHANGED <<proc, mem, file>>
    BY <1>8 DEF MarshalNext
  <2>2. PICK i \in Ids : LET e == [id |-> i, version |-> mem[i]] IN
           e \in Entry /\ data' = Append(data, e)
    BY <1>8, MarshalAppends
  <2>3. Elements(data') = Elements(data) \cup {[id |-> i, version |-> mem[i]]}
    BY <2>2, ElementsAppend DEF TypeOK
  <2>4. mem[i] <= mem[i]
    BY DEF TypeOK
  <2>5. DataWasReal'
    BY <2>1, <2>3, <2>4 DEF DataWasReal
  <2>6. QED
    BY <2>1, <2>5, <1>4
<1>9. CASE Open \/ Write \/ WriteFails
  <2>1. UNCHANGED <<proc, mem, data>>
    BY <1>9 DEF Open, Write, WriteFails, SaveFails
  <2>2. file' \in File /\ Elements(file'.entries) \subseteq Elements(data)
    <3>1. file' \in Partial(data) \cup {Whole(data), Truncated}
      BY <1>9 DEF Open, Write, WriteFails
    <3>2. data \in Seq(Entry) /\ Elements(Truncated.entries) = {}
          /\ Whole(data).entries = data
      BY DEF TypeOK, Elements, Truncated, Whole
    <3>3. QED
      BY <3>1, <3>2, Writes
  <2>3. ASSUME NEW i \in Ids PROVE InFile(i)' <= mem'[i]
    <3>1. InFile(i)' = 0 \/ \E e \in Elements(file'.entries) :
                               e.id = i /\ InFile(i)' = e.version
      BY <2>2, NoFileIsNoFile, InFileIs, VersionIs
    <3>2. 0 <= mem[i]
      BY DEF TypeOK
    <3>3. QED
      BY <2>1, <2>2, <3>1, <3>2 DEF DataWasReal
  <2>4. QED
    BY <2>1, <2>3, <1>5 DEF SavedWasReal
<1>10. QED
  BY <1>1, <1>2, <1>3, <1>6, <1>7, <1>8, <1>9 DEF Next, Refused

\* A save that reads without the lock, a write that is cut off, and a restart
\* never make the file say more of a metric than it has been (SavedWasReal).
THEOREM SavedWasRealTheorem == Spec => []SavedWasReal
<1>1. Init => DataWasReal /\ SavedWasReal
  BY DEF Init, DataWasReal, SavedWasReal, Elements
<1>2. QED
  BY <1>1, NextReal, PersistenceTypesBacked, PTL DEF Spec

-----------------------------------------------------------------------------
(* What a completed save held *)

\* How far a save is: it lists what was there when it began, reads of each
\* metric at least the version from then, and touches the file only after.
SaveCovers ==
    /\ saver \in {"idle", "range"} => data = <<>>
    /\ saver = "range" => \A i \in Ids : begun[i] > 0 => i \in known
    /\ saver \in {"marshal", "open", "write", "sync"} =>
          \A i \in Ids : begun[i] > 0 => i \in Elements(list)
    /\ \A i \in Ids : begun[i] <= mem[i]
    /\ Len(data) <= Len(list)
    /\ \A k \in 1 .. Len(data) :
          data[k].id = list[k] /\ begun[data[k].id] <= data[k].version
    /\ saver \in {"open", "write", "sync"} => Len(data) = Len(list)
    /\ saver \in {"write", "sync"} => ~intact
    /\ saver = "sync" => file = Whole(data)

\* A file that no save has touched since the last one completed.
IntactCovers ==
    intact => /\ file # NoFile => file.end = "closed"
              /\ \A i \in Ids : floor[i] <= InFile(i)

\* A complete list of what was there makes a file with what was there.
LEMMA WholeCovers ==
    ASSUME TypeOK, SaveCovers, saver = "sync"
    PROVE  \A i \in Ids : begun[i] <= InFile(i)
<1> SUFFICES ASSUME NEW i \in Ids PROVE begun[i] <= InFile(i)
  OBVIOUS
<1>1. file = Whole(data) /\ file # NoFile /\ file.entries = data
  BY Writes, NoFileIsNoFile DEF SaveCovers, Whole, TypeOK
<1>2. InFile(i) \in Nat /\ begun[i] \in Nat
  BY InFileIs, VersionIs DEF TypeOK
<1>3. CASE begun[i] = 0
  BY <1>2, <1>3
<1>4. CASE begun[i] > 0
  <2>1. i \in Elements(list) /\ Len(data) = Len(list)
    BY <1>4 DEF SaveCovers
  <2>2. PICK k \in 1 .. Len(data) : list[k] = i
    BY <2>1 DEF Elements
  <2>3. data[k] \in Elements(data) /\ data[k].id = i
    BY <2>2 DEF SaveCovers, Elements
  <2>4. PICK e \in Elements(data) : e.id = i /\ InFile(i) = e.version
    <3>1. file \in File \cup {NoFile} /\ InFile(i) = VersionIn(file, i)
      BY InFileIs DEF TypeOK
    <3>2. \/ \A e \in Elements(data) : e.id # i
          \/ \E e \in Elements(data) : e.id = i /\ InFile(i) = e.version
      BY <1>1, <3>1, VersionIs
    <3>3. QED
      BY <2>3, <3>2
  <2>5. PICK j \in 1 .. Len(data) : e = data[j]
    BY DEF Elements
  <2>6. QED
    BY <2>4, <2>5 DEF SaveCovers
<1>5. QED
  BY <1>2, <1>3, <1>4

\* SaveCovers is inductive.
LEMMA NextSaveCovers ==
    TypeOK /\ Backed /\ SaveCovers /\ [Next]_vars => SaveCovers'
<1> SUFFICES ASSUME TypeOK, Backed, SaveCovers, [Next]_vars PROVE SaveCovers'
  OBVIOUS
<1> USE DEF storage, saving, disk
<1>types. /\ TypeOK' /\ Len(data) \in Nat /\ Len(list) \in Nat
  BY NextTypes DEF TypeOK
<1>1. ASSUME saver' \in {"idle", "range"}, data' = <<>>, list' = <<>>,
             \A i \in Ids : begun'[i] <= mem'[i],
             saver' = "range" => \A i \in Ids : begun'[i] > 0 => i \in known'
      PROVE  SaveCovers'
  BY <1>1 DEF SaveCovers
<1>2. ASSUME Forget PROVE SaveCovers'
  <2>1. saver' = "idle" /\ data' = <<>> /\ list' = <<>> /\ begun' = Empty
    BY <1>2 DEF Forget
  <2>2. \A i \in Ids : begun'[i] <= mem'[i]
    BY <1>types, <2>1 DEF Empty, TypeOK
  <2>3. QED
    BY <1>1, <2>1, <2>2
<1>3. CASE Start \/ ConcurrentMapFatal \/ Exit \/ Kill \/ PowerLoss
  BY <1>2, <1>3 DEF Start, ConcurrentMapFatal, Exit, Kill, PowerLoss
<1>4. CASE BeginBatch \/ Signal \/ UNCHANGED vars
  BY <1>4 DEF BeginBatch, Signal, vars, SaveCovers
<1>5. CASE ApplyNext
  <2>1. \A i \in Ids : begun[i] <= mem'[i]
    <3>1. \A i \in Ids : begun[i] \in Nat /\ begun[i] <= mem[i]
      BY DEF TypeOK, SaveCovers
    <3>2. QED
      BY <1>5, <3>1, ApplyGrows
  <2>2. QED
    BY <1>5, <2>1 DEF ApplyNext, SaveCovers
<1>6. CASE BeginSave
  <2>1. \A i \in Ids : mem[i] <= mem[i] /\ (mem[i] > 0 => mem[i] # 0)
    BY DEF TypeOK
  <2>2. QED
    BY <1>1, <1>6, <2>1 DEF BeginSave
<1>7. CASE Collect
  <2>1. /\ saver = "range" /\ saver' = "range" /\ data' = <<>>
        /\ UNCHANGED <<mem, known, begun>>
    BY <1>7 DEF Collect, SaveCovers
  <2>2. Len(data') = 0 /\ Len(data') <= Len(list') /\ 1 .. Len(data') = {}
    BY <1>types, <2>1 DEF TypeOK
  <2>3. QED
    BY <2>1, <2>2 DEF SaveCovers
<1>8. CASE EndRange
  BY <1>8 DEF EndRange, SaveCovers
<1>9. CASE MarshalNext
  <2>1. PICK i \in Ids : LET e == [id |-> i, version |-> mem[i]] IN
           /\ i = list[Len(data) + 1] /\ Len(data) + 1 \in 1 .. Len(list)
           /\ e \in Entry /\ data' = Append(data, e)
    BY <1>9, MarshalAppends
  <2>2. /\ saver = "marshal"
        /\ saver' = IF Len(data') = Len(list) THEN "open" ELSE "marshal"
        /\ UNCHANGED <<mem, list, known, begun, intact, file>>
    BY <1>9 DEF MarshalNext
  <2>3. /\ Len(data') = Len(data) + 1
        /\ \A k \in 1 .. Len(data) : data'[k] = data[k]
        /\ data'[Len(data) + 1] = [id |-> i, version |-> mem[i]]
    BY <2>1 DEF TypeOK
  <2>4. ASSUME NEW k \in 1 .. Len(data')
        PROVE  data'[k].id = list[k] /\ begun[data'[k].id] <= data'[k].version
    <3>1. CASE k \in 1 .. Len(data)
      BY <2>3, <3>1 DEF SaveCovers
    <3>2. CASE k = Len(data) + 1
      BY <2>1, <2>3, <3>2 DEF SaveCovers
    <3>3. QED
      BY <1>types, <2>3, <3>1, <3>2
  <2>5. Len(data') <= Len(list')
    BY <1>types, <2>1, <2>2, <2>3
  <2>6. saver' \in {"marshal", "open"}
        /\ (saver' = "open" => Len(data') = Len(list'))
    BY <2>2
  <2>7. QED
    BY <2>2, <2>4, <2>5, <2>6 DEF SaveCovers
<1>10. CASE MarshalFails \/ OpenFails \/ WriteFails \/ SyncFails
  BY <1>10 DEF MarshalFails, OpenFails, WriteFails, SyncFails, SaveFails,
     SaveCovers
<1>11. CASE Open
  BY <1>11 DEF Open, SaveCovers
<1>12. CASE Write
  BY <1>12 DEF Write, SaveCovers
<1>13. CASE Sync
  <2>1. saver' = "idle" /\ data' = <<>> /\ list' = <<>> /\ begun' = Empty
    BY <1>13 DEF Sync
  <2>2. \A i \in Ids : begun'[i] <= mem'[i]
    BY <1>types, <2>1 DEF Empty, TypeOK
  <2>3. QED
    BY <1>1, <2>1, <2>2
<1>14. QED
  BY <1>3, <1>4, <1>5, <1>6, <1>7, <1>8, <1>9, <1>10, <1>11, <1>12, <1>13
  DEF Next, Refused

\* And so is IntactCovers.
LEMMA NextIntactCovers ==
    TypeOK /\ Backed /\ SaveCovers /\ IntactCovers /\ [Next]_vars
        => IntactCovers'
<1> SUFFICES ASSUME TypeOK, Backed, SaveCovers, IntactCovers, [Next]_vars
             PROVE  IntactCovers'
  OBVIOUS
<1> USE DEF disk
<1>1. CASE intact' => UNCHANGED disk
  <2>1. CASE ~intact'
    BY <2>1 DEF IntactCovers
  <2>2. CASE UNCHANGED disk
    BY <2>2, InFileIs DEF IntactCovers
  <2>3. QED
    BY <1>1, <2>1, <2>2
<1>2. CASE Open
  BY <1>1, <1>2 DEF Open
<1>3. CASE Write
  BY <1>1, <1>3 DEF Write, SaveCovers
<1>4. CASE WriteFails
  BY <1>1, <1>4 DEF WriteFails, SaveCovers
<1>5. CASE Sync
  <2>1. /\ file' = file /\ file.end = "closed"
        /\ floor' = begun /\ \A i \in Ids : begun[i] <= InFile(i)
    BY <1>5, WholeCovers DEF Sync, SaveCovers, Whole
  <2>2. QED
    BY <2>1, InFileIs DEF IntactCovers
<1>6. CASE PowerLoss
  BY <1>1, <1>6 DEF PowerLoss
<1>7. CASE UNCHANGED disk
  BY <1>1, <1>7
<1>8. QED
  BY <1>2, <1>3, <1>4, <1>5, <1>6, <1>7
  DEF Next, vars, Start, BeginBatch, ApplyNext, ConcurrentMapFatal, BeginSave,
      Collect, EndRange, MarshalNext, MarshalFails, OpenFails, SyncFails,
      Signal, Exit, Kill, Refused

\* Until the next save opens the file, a restart finds all that was there when
\* the last completed save began (CompletedSaveSurvives).
THEOREM CompletedSaveSurvivesTheorem == Spec => CompletedSaveSurvives
<1>1. Init => SaveCovers /\ IntactCovers
  <2> SUFFICES ASSUME Init PROVE SaveCovers /\ IntactCovers
    OBVIOUS
  <2>1. SaveCovers
    BY DEF Init, SaveCovers, Empty
  <2>2. \A i \in Ids : InFile(i) = 0 /\ floor[i] = 0
    BY DEF Init, InFile, Empty
  <2>3. IntactCovers
    BY <2>2 DEF Init, IntactCovers
  <2>4. QED
    BY <2>1, <2>3
<1>2. TypeOK /\ IntactCovers /\ [Next]_vars =>
        [proc = "down" /\ proc' # "down" /\ intact /\ RestoreOnStart
            => proc' = "up" /\ \A i \in Ids : mem'[i] >= floor[i]]_vars
  <2> SUFFICES ASSUME TypeOK, IntactCovers, [Next]_vars, proc = "down",
                      proc' # "down", intact, RestoreOnStart
               PROVE  proc' = "up" /\ \A i \in Ids : mem'[i] >= floor[i]
    OBVIOUS
  <2>1. Start
    BY DEF Next, vars, BeginBatch, ApplyNext, ConcurrentMapFatal, BeginSave,
       Collect, EndRange, MarshalNext, MarshalFails, Open, OpenFails, Write,
       WriteFails, Sync, SyncFails, Signal, Exit, Kill, PowerLoss, Refused
  <2>2. Readable
    BY DEF IntactCovers, Readable
  <2>3. proc' = "up" /\ mem' = [i \in Ids |-> InFile(i)]
    BY <2>1, <2>2 DEF Start
  <2>4. \A i \in Ids : InFile(i) \in Nat /\ floor[i] \in Nat /\ floor[i] <= InFile(i)
    BY InFileIs, VersionIs DEF IntactCovers, TypeOK
  <2>5. QED
    BY <2>3, <2>4
<1>3. QED
  BY <1>1, <1>2, NextSaveCovers, NextIntactCovers, PersistenceTypesBacked, PTL
  DEF Spec, CompletedSaveSurvives

-----------------------------------------------------------------------------
(* When the server can be killed *)

\* The invariant is inductive: a server that is up has read the file, and only
\* a save that has opened it leaves one that could not be read again.
LEMMA NextStartable ==
    StartableBetweenWrites /\ [Next]_vars => StartableBetweenWrites'
<1> SUFFICES ASSUME StartableBetweenWrites, [Next]_vars, proc' = "up",
                    RestoreOnStart, saver' \notin {"write", "dead"}
             PROVE  Readable'
  BY DEF StartableBetweenWrites
<1> USE DEF disk, saving
<1>1. CASE Start
  <2>1. file' = file /\ Readable
    BY <1>1 DEF Start
  <2>2. QED
    BY <2>1 DEF Readable
<1>2. CASE Write
  BY <1>2 DEF Write, Whole, Readable
<1>3. CASE \/ BeginBatch \/ ApplyNext \/ BeginSave \/ Collect \/ EndRange
           \/ MarshalNext \/ Sync \/ Signal \/ UNCHANGED vars
  <2>1. proc = "up" /\ saver \notin {"write", "dead"} /\ file' = file
    BY <1>3 DEF BeginBatch, ApplyNext, BeginSave, Collect, EndRange,
       MarshalNext, Sync, Signal, vars
  <2>2. QED
    BY <2>1 DEF StartableBetweenWrites, Readable
<1>4. QED
  BY <1>1, <1>2, <1>3
  DEF Next, ConcurrentMapFatal, MarshalFails, Open, OpenFails, WriteFails,
      SyncFails, SaveFails, Exit, Kill, PowerLoss, Refused

\* The window in which a kill leaves a server that refuses to start is no wider
\* than the write of the file (StartableBetweenWrites).
THEOREM StartableTheorem == Spec => []StartableBetweenWrites
<1>1. Init => StartableBetweenWrites
  BY DEF Init, StartableBetweenWrites
<1>2. QED
  BY <1>1, NextStartable, PTL DEF Spec

-----------------------------------------------------------------------------
(* What it takes to lose the backup *)

\* A save that has opened the file writes all of it, and nothing else changes
\* the file: no kill or full disk between the two, no power loss after them.
WritesComplete ==
    [][/\ saver = "write" => saver' \in {"write", "sync"}
       /\ file' = file \/ Open \/ Write]_vars

\* The file is whole, and has all that the last completed save held.
Kept ==
    /\ file # NoFile => file.end = "closed"
    /\ \A i \in Ids : floor[i] <= InFile(i)

\* Kept, but for the time between the truncation and the end of a save; what
\* the next save will hold is no less.
KeptBetween ==
    /\ proc # "refused"
    /\ saver \notin {"write", "sync"} => Kept
    /\ proc = "up" => \A i \in Ids : floor[i] <= mem[i]
    /\ saver \in {"range", "marshal", "open", "write", "sync"} =>
          \A i \in Ids : floor[i] <= begun[i]

\* A save that has written the file keeps the promise of the one before.
LEMMA WrittenIsKept ==
    ASSUME TypeOK, SaveCovers, KeptBetween, saver # "write"
    PROVE  Kept
<1>1. CASE saver = "sync"
  <2>1. file.end = "closed" /\ \A i \in Ids : begun[i] <= InFile(i)
    BY <1>1, WholeCovers DEF SaveCovers, Whole
  <2>2. \A i \in Ids : /\ floor[i] <= begun[i] /\ InFile(i) \in Nat
                       /\ floor[i] \in Nat /\ begun[i] \in Nat
    BY <1>1, InFileIs, VersionIs DEF KeptBetween, TypeOK
  <2>3. QED
    BY <2>1, <2>2 DEF Kept
<1>2. QED
  BY <1>1 DEF KeptBetween

\* A start that reads such a file has what was saved.
LEMMA StartRestores ==
    ASSUME RestoreOnStart, TypeOK, Kept, Start
    PROVE  proc' = "up" /\ \A i \in Ids : floor[i] <= mem'[i]
<1>1. Readable
  BY DEF Kept, Readable
<1>2. proc' = "up" /\ mem' = [i \in Ids |-> InFile(i)]
  BY <1>1 DEF Start
<1>3. QED
  BY <1>2 DEF Kept

\* KeptBetween is inductive when writes complete.
LEMMA NextKept ==
    ASSUME RestoreOnStart, TypeOK, Backed, SaveCovers, KeptBetween, [Next]_vars,
           saver = "write" => saver' \in {"write", "sync"},
           file' = file \/ Open \/ Write
    PROVE  KeptBetween'
<1> USE DEF storage, saving, disk
<1>1. ASSUME UNCHANGED <<file, floor>>, Kept PROVE Kept'
  BY <1>1, InFileIs DEF Kept
<1>2. CASE Start
  <2>1. saver' = "idle" /\ UNCHANGED <<file, floor>>
    BY <1>2 DEF Start, Forget
  <2>2. Kept
    BY <2>1, WrittenIsKept
  <2>3. QED
    BY <1>1, <1>2, <2>1, <2>2, StartRestores DEF KeptBetween
<1>3. CASE ConcurrentMapFatal \/ Exit \/ Kill \/ PowerLoss
  <2>1. proc' = "down" /\ saver' = "idle" /\ floor' = floor
    BY <1>3 DEF ConcurrentMapFatal, Exit, Kill, PowerLoss, Forget
  <2>2. file' = file
    BY <2>1 DEF Open, Write
  <2>3. QED
    BY <1>1, <2>1, <2>2, WrittenIsKept DEF KeptBetween
<1>4. CASE BeginBatch \/ Signal \/ UNCHANGED vars
  <2>1. UNCHANGED <<proc, mem, saver, begun, file, floor>>
    BY <1>4 DEF BeginBatch, Signal, vars
  <2>2. QED
    BY <1>1, <2>1 DEF KeptBetween
<1>5. CASE ApplyNext
  <2>1. UNCHANGED <<proc, saver, begun, file, floor>> /\ proc = "up"
    BY <1>5 DEF ApplyNext
  <2>2. \A i \in Ids : floor[i] \in Nat /\ floor[i] <= mem[i]
    BY <2>1 DEF KeptBetween, TypeOK
  <2>3. \A i \in Ids : floor[i] <= mem'[i]
    BY <1>5, <2>2, ApplyGrows
  <2>4. QED
    BY <1>1, <2>1, <2>3 DEF KeptBetween
<1>6. CASE BeginSave
  BY <1>1, <1>6, WrittenIsKept DEF BeginSave, KeptBetween
<1>7. CASE Collect \/ EndRange \/ MarshalNext
  <2>1. /\ UNCHANGED <<proc, mem, begun, file, floor>>
        /\ saver \in {"range", "marshal"} /\ saver' \in {"range", "marshal", "open"}
    BY <1>7 DEF Collect, EndRange, MarshalNext
  <2>2. QED
    BY <1>1, <2>1, WrittenIsKept DEF KeptBetween
<1>8. CASE MarshalFails \/ OpenFails \/ SyncFails
  <2>1. /\ UNCHANGED <<proc, mem, begun, file, floor>>
        /\ saver \in {"marshal", "open", "sync"} /\ saver' = "dead"
    BY <1>8 DEF MarshalFails, OpenFails, SyncFails, SaveFails
  <2>2. QED
    BY <1>1, <2>1, WrittenIsKept DEF KeptBetween
<1>9. CASE Open \/ Write
  <2>1. /\ UNCHANGED <<proc, mem, begun, floor>>
        /\ saver \in {"open", "write"} /\ saver' \in {"write", "sync"}
    BY <1>9 DEF Open, Write
  <2>2. QED
    BY <2>1 DEF KeptBetween
<1>10. CASE WriteFails
  BY <1>10 DEF WriteFails, SaveFails
<1>11. CASE Sync
  <2>1. /\ UNCHANGED <<proc, mem, file>> /\ floor' = begun
        /\ saver = "sync" /\ saver' = "idle"
    BY <1>11 DEF Sync
  <2>2. file.end = "closed" /\ \A i \in Ids : begun[i] <= InFile(i)
    BY <2>1, WholeCovers DEF SaveCovers, Whole
  <2>3. Kept'
    BY <2>1, <2>2, InFileIs DEF Kept
  <2>4. QED
    BY <2>1, <2>3 DEF KeptBetween, SaveCovers
<1>12. QED
  BY <1>2, <1>3, <1>4, <1>5, <1>6, <1>7, <1>8, <1>9, <1>10, <1>11
  DEF Next, Refused

\* The other side of the findings about restarts: if no write of the file is
\* interrupted, the server never refuses to start and restores at every start
\* all that the last completed save held, however the process ended, and also
\* if saves failed in any other way (StartsAfterCrash, RestoresCompletedSaves).
THEOREM WholeWritesKeepTheBackup ==
    ASSUME RestoreOnStart
    PROVE  Spec /\ WritesComplete => []StartsAfterCrash /\ RestoresCompletedSaves
<1>1. Init => SaveCovers /\ KeptBetween
  <2> SUFFICES ASSUME Init PROVE SaveCovers /\ KeptBetween
    OBVIOUS
  <2>1. SaveCovers
    BY DEF Init, SaveCovers, Empty
  <2>2. \A i \in Ids : InFile(i) = 0 /\ floor[i] = 0
    BY DEF Init, InFile, Empty
  <2>3. QED
    BY <2>1, <2>2 DEF Init, KeptBetween, Kept
<1>2. KeptBetween => StartsAfterCrash
  BY DEF KeptBetween, StartsAfterCrash
<1>3. TypeOK /\ SaveCovers /\ KeptBetween /\ [Next]_vars
        /\ [/\ saver = "write" => saver' \in {"write", "sync"}
            /\ file' = file \/ Open \/ Write]_vars
        => [proc = "down" /\ proc' = "up" =>
               \A i \in Ids : mem'[i] >= floor[i]]_vars
  <2> SUFFICES ASSUME TypeOK, SaveCovers, KeptBetween, [Next]_vars,
                      proc = "down", proc' = "up",
                      saver = "write" => saver' \in {"write", "sync"}
               PROVE  \A i \in Ids : mem'[i] >= floor[i]
    BY DEF vars
  <2>1. Start
    BY DEF Next, vars, BeginBatch, ApplyNext, ConcurrentMapFatal, BeginSave,
       Collect, EndRange, MarshalNext, MarshalFails, Open, OpenFails, Write,
       WriteFails, Sync, SyncFails, Signal, Exit, Kill, PowerLoss, Refused
  <2>2. saver' = "idle" /\ mem' \in [Ids -> Nat] /\ floor \in [Ids -> Nat]
    <3>1. \A i \in Ids : InFile(i) \in Nat
      BY InFileIs, VersionIs DEF TypeOK
    <3>2. QED
      BY <2>1, <3>1 DEF Start, Forget, Empty, TypeOK
  <2>3. \A i \in Ids : floor[i] <= mem'[i]
    BY <2>1, <2>2, WrittenIsKept, StartRestores
  <2>4. QED
    BY <2>2, <2>3
<1>4. TypeOK /\ Backed /\ SaveCovers /\ KeptBetween /\ [Next]_vars
        /\ [/\ saver = "write" => saver' \in {"write", "sync"}
            /\ file' = file \/ Open \/ Write]_vars
        => KeptBetween'
  BY NextKept DEF vars, disk, saving
<1>5. QED
  BY <1>1, <1>2, <1>3, <1>4, NextSaveCovers, PersistenceTypesBacked, PTL
  DEF Spec, WritesComplete, RestoresCompletedSaves
=============================================================================
