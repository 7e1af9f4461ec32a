------------------------- MODULE CredentialStoreProofs -------------------------
(***************************************************************************)
(* Proofs about CredentialStore, for any number of processes and any set   *)
(* of credentials.  Only a whole file that is on the disk is renamed; what *)
(* was reported is on the disk; and the disk is never ahead of the         *)
(* directory.                                                              *)
(***************************************************************************)
EXTENDS CredentialStore, TLAPS

\* What a process that saves has in its temporary file.
Prepared ==
    \A p \in Processes :
        /\ pc[p] \in {"create", "chmod", "write", "sync", "close", "rename"} => value[p] \in Values
        /\ pc[p] = "sync" => temporary[p].data = value[p]
        /\ pc[p] \in {"close", "rename"} => temporary[p] = File(value[p], value[p])

\* The disk follows the directory, and what is reported, or about to be, is on it, or
\* in it.
Followed ==
    /\ reported <= disk.changes
    /\ disk.changes <= directory.changes
    /\ \A p \in Processes : pc[p] = "syncdir" => made[p] <= directory.changes

\* A process that loads has seen what is stored.
Watched ==
    \A p \in Processes :
        pc[p] \in {"lstat", "open"} => op[p] = "load" /\ Stored(directory) \in seen[p]

Inv == TypeOK /\ Prepared /\ Followed /\ Watched /\ LoadIsCurrent

-----------------------------------------------------------------------------
(* Files and entries *)

\* A power failure leaves a whole file as it is.
LEMMA WholeIsLeft ==
    ASSUME NEW entry \in Entries
    PROVE  /\ Left(entry) = entry
           /\ Left(entry) \in Entries
           /\ Stored(entry) \in Values \cup {None}
<1>1. PICK content \in Values \cup {None}, n \in 0 .. MaxChanges :
          entry = [file |-> [data |-> content, durable |-> content], changes |-> n]
  BY DEF Entries, WholeFiles, File
<1>2. Left(entry) = entry
  BY <1>1 DEF Left, Entry, File
<1>3. Stored(entry) \in Values \cup {None}
  BY <1>1 DEF Stored
<1> QED
  BY <1>2, <1>3

\* No file stores nothing.
LEMMA NoFileStored ==
    ASSUME NEW entry, entry.file = NoFile
    PROVE  Stored(entry) = None
BY DEF Stored, NoFile, File

\* Entries are made of whole files.
LEMMA EntryOfWhole ==
    ASSUME NEW content \in Values \cup {None}, NEW n \in 0 .. MaxChanges
    PROVE  /\ Entry(File(content, content), n) \in Entries
           /\ Entry(File(content, content), n).changes = n
           /\ Stored(Entry(File(content, content), n)) = content
BY DEF Entry, Entries, WholeFiles, File, Stored

LEMMA InitHolds == Init => Inv
<1> SUFFICES ASSUME Init PROVE Inv
  OBVIOUS
<1>1. 0 \in 0 .. MaxChanges
  BY MaxChangesAssumption
<1>2. Entry(NoFile, 0) \in Entries /\ Entry(NoFile, 0).changes = 0
  BY <1>1, EntryOfWhole DEF NoFile
<1>3. NoFile \in Files
  BY DEF Files, NoFile, File
<1>4. TypeOK
  BY <1>1, <1>2, <1>3 DEF Init, TypeOK, Labels
<1>5. Prepared /\ Watched /\ LoadIsCurrent
  BY DEF Init, Prepared, Watched, LoadIsCurrent
<1>6. Followed
  BY <1>2 DEF Init, Followed
<1> QED
  BY <1>4, <1>5, <1>6 DEF Inv

-----------------------------------------------------------------------------
(* The calls *)

LEMMA CallHolds ==
    ASSUME Inv, NEW p \in Processes, CallSave(p) \/ CallDelete(p) \/ CallLoad(p)
    PROVE  Inv'
<1>1. PICK name \in {"save", "delete", "load"}, first \in {"create", "unlink", "lstat"}, v \in Values \cup {None} :
          /\ Call(p, name, first, v)
          /\ name = "save" => v \in Values
          /\ name = "save" <=> first = "create"
          /\ name = "load" <=> first = "lstat"
  BY DEF CallSave, CallDelete, CallLoad
<1> USE <1>1 DEF Inv, Call, Goto, storeVars
<1>2. Stored(directory) \in Values \cup {None}
  BY WholeIsLeft DEF TypeOK
<1>3. TypeOK'
  <2>1. seen' \in [Processes -> SUBSET (Values \cup {None})]
    BY <1>2 DEF TypeOK
  <2>2. made' \in [Processes -> 0 .. MaxChanges]
    BY MaxChangesAssumption DEF TypeOK
  <2> QED
    BY <2>1, <2>2 DEF TypeOK, Labels
<1>4. Prepared'
  BY DEF Prepared, TypeOK, File
<1>5. Followed'
  BY DEF Followed, TypeOK
<1>6. Watched'
  BY DEF Watched, TypeOK, Stored
<1>7. LoadIsCurrent'
  BY ValuesAssumption DEF LoadIsCurrent, TypeOK
<1> QED
  BY <1>3, <1>4, <1>5, <1>6, <1>7

-----------------------------------------------------------------------------
(* Work on the temporary file *)

\* A step that leaves the directory alone, and whose process has what Prepared says.
LEMMA WorkHolds ==
    ASSUME Inv, NEW p \in Processes,
           NEW label \in Labels \ {"lstat", "open", "syncdir"}, NEW file \in Files,
           Goto(p, label), temporary' = [temporary EXCEPT ![p] = file],
           UNCHANGED <<directory, disk>>, Unreported,
           label \in {"create", "chmod", "write", "sync", "close", "rename"} => value[p] \in Values,
           label = "sync" => file.data = value[p],
           label \in {"close", "rename"} => file = File(value[p], value[p])
    PROVE  Inv'
<1> USE DEF Inv, Goto, Unreported, callVars
<1>1. TypeOK'
  BY DEF TypeOK
<1>2. Prepared'
  BY DEF Prepared, TypeOK, File
<1>3. Followed'
  BY DEF Followed, TypeOK
<1>4. Watched'
  BY DEF Watched, TypeOK, Stored
<1>5. LoadIsCurrent'
  BY DEF LoadIsCurrent
<1> QED
  BY <1>1, <1>2, <1>3, <1>4, <1>5

\* A call returns: what a load returns has been seen.
LEMMA ReturnHolds ==
    ASSUME Inv, NEW p \in Processes, NEW file \in Files,
           NEW r \in Values \cup {"none", "ok", "error", "not_logged_in"},
           Return(p, r), temporary' = [temporary EXCEPT ![p] = file],
           UNCHANGED <<directory, disk, callVars, made, seen, reported>>,
           op[p] = "load" => /\ r \in Values => r \in seen[p]
                             /\ r = "not_logged_in" => None \in seen[p]
    PROVE  Inv'
<1> USE DEF Inv, Return, Goto, callVars
<1>1. TypeOK'
  BY DEF TypeOK, Labels
<1>2. Prepared'
  BY DEF Prepared, TypeOK, File
<1>3. Followed'
  BY DEF Followed, TypeOK
<1>4. Watched'
  BY DEF Watched, TypeOK, Stored
<1>5. LoadIsCurrent'
  BY DEF LoadIsCurrent, TypeOK
<1> QED
  BY <1>1, <1>2, <1>3, <1>4, <1>5

\* The temporary file of a process that leaves it alone.
LEMMA SameFile ==
    ASSUME TypeOK, NEW p \in Processes
    PROVE  /\ temporary[p] \in Files
           /\ temporary = [temporary EXCEPT ![p] = temporary[p]]
           /\ NoFile \in Files
           /\ value[p] \in Values \cup {None}
BY DEF TypeOK, Files, NoFile, File

\* A Save up to its rename.
LEMMA SaveHolds ==
    ASSUME Inv, NEW p \in Processes, Create(p) \/ Chmod(p) \/ Write(p) \/ Sync(p) \/ Close(p)
    PROVE  Inv'
<1>1. TypeOK /\ Prepared
  BY DEF Inv
<1>2. CASE Create(p)
  <2>1. File(Blank, Blank) \in Files
    BY DEF Files, File
  <2> QED
    BY <1>1, <1>2, <2>1, WorkHolds DEF Create, Prepared, Labels
<1>3. CASE Chmod(p)
  BY <1>1, <1>3, SameFile, WorkHolds DEF Chmod, Prepared, Labels, storeVars
<1>4. CASE Write(p)
  <2> DEFINE file == [temporary[p] EXCEPT !.data = value[p]]
  <2>1. file \in Files /\ file.data = value[p]
    BY <1>1, SameFile DEF Files
  <2>2. temporary' = [temporary EXCEPT ![p] = file]
    BY <1>4 DEF Write
  <2> QED
    BY <1>1, <1>4, <2>1, <2>2, WorkHolds DEF Write, Prepared, Labels
<1>5. CASE Sync(p)
  <2> DEFINE file == [temporary[p] EXCEPT !.durable = temporary[p].data]
  <2>1. file \in Files /\ file = File(value[p], value[p])
    BY <1>1, <1>5, SameFile DEF Files, File, Sync, Prepared
  <2>2. temporary' = [temporary EXCEPT ![p] = file]
    BY <1>5 DEF Sync
  <2> QED
    BY <1>1, <1>5, <2>1, <2>2, WorkHolds DEF Sync, Prepared, Labels
<1>6. CASE Close(p)
  BY <1>1, <1>6, SameFile, WorkHolds DEF Close, Prepared, Labels, storeVars
<1> QED
  BY <1>2, <1>3, <1>4, <1>5, <1>6

\* A Save that fails, or is killed.
LEMMA FailureHolds ==
    ASSUME Inv, NEW p \in Processes, SaveFails(p) \/ Remove(p) \/ SyncDirectoryFails(p) \/ Kill(p)
    PROVE  Inv'
<1>1. TypeOK /\ Prepared /\ Watched
  BY DEF Inv
<1>2. CASE SaveFails(p)
  <2>1. CASE pc[p] = "create"
    BY <1>1, <1>2, <2>1, SameFile, ReturnHolds, ValuesAssumption DEF SaveFails, storeVars
  <2>2. CASE pc[p] # "create"
    <3> DEFINE file == IF pc[p] = "write" THEN [temporary[p] EXCEPT !.data = Torn] ELSE temporary[p]
    <3>1. file \in Files
      BY <1>1, SameFile DEF Files
    <3>2. temporary' = [temporary EXCEPT ![p] = file]
      BY <1>1, <1>2, <2>2, SameFile DEF SaveFails
    <3> QED
      BY <1>2, <2>2, <3>1, <3>2, WorkHolds DEF SaveFails, Labels
  <2> QED
    BY <2>1, <2>2
<1>3. CASE Remove(p)
  BY <1>1, <1>3, SameFile, ReturnHolds, ValuesAssumption DEF Remove
<1>4. CASE SyncDirectoryFails(p)
  BY <1>1, <1>4, SameFile, ReturnHolds, ValuesAssumption DEF SyncDirectoryFails, storeVars
<1>5. CASE Kill(p)
  BY <1>1, <1>5, SameFile, WorkHolds DEF Kill, Killed, Labels
<1> QED
  BY <1>2, <1>3, <1>4, <1>5

-----------------------------------------------------------------------------
(* Changes of the entry *)

\* The entry changes to a whole file or to none, and its change is to be synced.
LEMMA ChangeHolds ==
    ASSUME Inv, NEW p \in Processes, NEW content \in Values \cup {None}, NEW file \in Files,
           ChangeEntry(p, File(content, content)),
           Goto(p, "syncdir"), temporary' = [temporary EXCEPT ![p] = file],
           UNCHANGED <<disk, callVars, result, reported>>
    PROVE  /\ Inv'
           /\ Stored(directory') = content
<1> USE DEF Inv, Goto, callVars
<1>1. directory.changes \in Nat /\ directory.changes + 1 \in 0 .. MaxChanges
  BY MaxChangesAssumption DEF ChangeEntry, TypeOK, Entries
<1>2. /\ directory' \in Entries
      /\ directory'.changes = directory.changes + 1
      /\ Stored(directory') = content
  BY <1>1, EntryOfWhole DEF ChangeEntry
<1>3. /\ made' = [made EXCEPT ![p] = directory.changes + 1]
      /\ seen' = [q \in Processes |-> IF op[q] = "load" /\ pc[q] # "idle"
                                      THEN seen[q] \cup {Stored(directory')} ELSE seen[q]]
  BY DEF ChangeEntry, Watch
<1>4. TypeOK'
  BY <1>1, <1>2, <1>3 DEF TypeOK, Labels
<1>5. Prepared'
  BY DEF Prepared, TypeOK, File
<1>6. Followed'
  BY <1>1, <1>2, <1>3 DEF Followed, TypeOK, Entries
<1>7. Watched'
  BY <1>2, <1>3 DEF Watched, TypeOK
<1>8. LoadIsCurrent'
  BY <1>3 DEF LoadIsCurrent
<1> QED
  BY <1>2, <1>4, <1>5, <1>6, <1>7, <1>8

LEMMA RenameHolds ==
    ASSUME Inv, NEW p \in Processes, Rename(p)
    PROVE  /\ Inv'
           /\ Stored(directory') \in Values
           /\ disk' = disk
<1>1. value[p] \in Values /\ temporary[p] = File(value[p], value[p])
  BY DEF Inv, Prepared, Rename
<1>2. NoFile \in Files
  BY SameFile DEF Inv
<1> QED
  BY <1>1, <1>2, ChangeHolds DEF Rename

LEMMA UnlinkHolds ==
    ASSUME Inv, NEW p \in Processes, Unlink(p)
    PROVE  /\ Inv'
           /\ disk' = disk
           /\ directory' = directory \/ Stored(directory') = None
<1>1. TypeOK /\ Watched
  BY DEF Inv
<1>2. CASE directory.file # NoFile
  <2>1. /\ ChangeEntry(p, File(None, None)) /\ Goto(p, "syncdir")
        /\ UNCHANGED <<disk, temporary, callVars, result, reported>>
    BY <1>2 DEF Unlink, NoFile
  <2>2. temporary[p] \in Files /\ temporary' = [temporary EXCEPT ![p] = temporary[p]]
    BY <1>1, <2>1, SameFile
  <2> QED
    BY <2>1, <2>2, ChangeHolds
<1>3. CASE directory.file = NoFile
  BY <1>1, <1>3, SameFile, ReturnHolds, ValuesAssumption DEF Unlink, storeVars
<1> QED
  BY <1>2, <1>3

\* The directory is on the disk, and the call has succeeded.
LEMMA SyncDirectoryHolds ==
    ASSUME Inv, NEW p \in Processes, SyncDirectory(p)
    PROVE  Inv' /\ directory' = directory /\ disk' = directory
<1> USE DEF Inv, SyncDirectory, Succeed, Return, Goto, callVars
<1>1. reported' \in 0 .. MaxChanges /\ reported' <= directory.changes
  BY MaxChangesAssumption DEF TypeOK, Entries, Followed
<1>2. TypeOK'
  BY <1>1 DEF TypeOK, Labels
<1>3. Prepared'
  BY DEF Prepared, TypeOK, File
<1>4. Followed'
  BY <1>1 DEF Followed, TypeOK, Entries
<1>5. Watched'
  BY DEF Watched, TypeOK
<1>6. LoadIsCurrent'
  BY ValuesAssumption DEF LoadIsCurrent, TypeOK
<1> QED
  BY <1>2, <1>3, <1>4, <1>5, <1>6

-----------------------------------------------------------------------------
(* Loads *)

LEMMA LoadHolds ==
    ASSUME Inv, NEW p \in Processes, Lstat(p) \/ Open(p) \/ AccessFails(p)
    PROVE  Inv' /\ UNCHANGED <<directory, disk>>
<1>1. TypeOK /\ Watched
  BY DEF Inv
<1>2. CASE Lstat(p)
  <2>1. CASE directory.file = NoFile
    <3>1. None \in seen[p]
      BY <1>1, <1>2, <2>1, NoFileStored DEF Watched, Lstat
    <3> QED
      BY <1>1, <1>2, <2>1, <3>1, SameFile, ReturnHolds, ValuesAssumption DEF Lstat, storeVars
  <2>2. CASE directory.file # NoFile
    <3>1. Goto(p, "open") /\ UNCHANGED <<storeVars, callVars, result, made, seen, reported>>
      BY <1>2, <2>2 DEF Lstat
    <3> USE <3>1 DEF Inv, Goto, storeVars, callVars
    <3>2. TypeOK'
      BY DEF TypeOK, Labels
    <3>3. Prepared'
      BY DEF Prepared, TypeOK, File
    <3>4. Followed'
      BY DEF Followed, TypeOK
    <3>5. Watched'
      BY <1>2 DEF Watched, TypeOK, Lstat, Stored
    <3>6. LoadIsCurrent'
      BY DEF LoadIsCurrent
    <3> QED
      BY <3>2, <3>3, <3>4, <3>5, <3>6
  <2> QED
    BY <2>1, <2>2
<1>3. CASE Open(p)
  <2>1. Stored(directory) \in seen[p] /\ op[p] = "load"
    BY <1>1, <1>3 DEF Watched, Open
  <2> DEFINE r == IF directory.file = NoFile THEN "error" ELSE Decoded(directory.file)
  <2>2. (r = Stored(directory) /\ r \in Values) \/ r = "error"
    BY DEF Decoded, Stored
  <2>3. Return(p, r) /\ UNCHANGED <<storeVars, callVars, made, seen, reported>>
    BY <1>3 DEF Open
  <2> QED
    BY <1>1, <2>1, <2>2, <2>3, SameFile, ReturnHolds, ValuesAssumption DEF storeVars
<1>4. CASE AccessFails(p)
  BY <1>1, <1>4, SameFile, ReturnHolds, ValuesAssumption DEF AccessFails, storeVars
<1> QED
  BY <1>2, <1>3, <1>4

-----------------------------------------------------------------------------
(* The machine *)

LEMMA WritebackHolds == Inv /\ Writeback => Inv' /\ directory' = directory /\ disk' = directory
<1> SUFFICES ASSUME Inv, Writeback PROVE Inv' /\ directory' = directory /\ disk' = directory
  OBVIOUS
<1> USE DEF Inv, Writeback, Unreported, callVars
<1>1. TypeOK' /\ Prepared' /\ LoadIsCurrent'
  BY DEF TypeOK, Prepared, LoadIsCurrent
<1>2. Followed'
  BY DEF Followed, TypeOK, Entries
<1>3. Watched'
  BY DEF Watched, Stored
<1> QED
  BY <1>1, <1>2, <1>3

LEMMA PowerFailureHolds == Inv /\ PowerFailure => Inv' /\ directory' = disk /\ disk' = disk
<1> SUFFICES ASSUME Inv, PowerFailure PROVE Inv' /\ directory' = disk /\ disk' = disk
  OBVIOUS
<1> USE DEF Inv, PowerFailure, Unreported, callVars
<1>1. directory' = disk /\ disk' = disk
  BY WholeIsLeft DEF TypeOK
<1>2. TypeOK'
  BY <1>1 DEF TypeOK, Labels, Files, NoFile, File
<1>3. Prepared' /\ Watched' /\ LoadIsCurrent'
  BY DEF Prepared, Watched, LoadIsCurrent
<1>4. Followed'
  BY <1>1 DEF Followed, TypeOK, Entries
<1> QED
  BY <1>1, <1>2, <1>3, <1>4

-----------------------------------------------------------------------------
(* The theorems *)

LEMMA StepHolds == Inv /\ [Next]_vars => Inv'
<1> SUFFICES ASSUME Inv, [Next]_vars PROVE Inv'
  OBVIOUS
<1>1. ASSUME NEW p \in Processes, Step(p) PROVE Inv'
  BY <1>1, CallHolds, SaveHolds, FailureHolds, RenameHolds, UnlinkHolds, SyncDirectoryHolds, LoadHolds DEF Step
<1>2. CASE UNCHANGED vars
  BY <1>2 DEF vars, storeVars, callVars, Inv, TypeOK, Prepared, Followed, Watched, LoadIsCurrent, Stored
<1> QED
  BY <1>1, <1>2, WritebackHolds, PowerFailureHolds DEF Next

THEOREM Invariant == Spec => []Inv
BY InitHolds, StepHolds, PTL DEF Spec

\* Every file and every caller is in a state the model describes: the path of the
\* credentials (token_store.go:139) only ever leads to a whole file that is on the
\* disk, or to none.
THEOREM TypeCorrect == Spec => []TypeOK
<1>1. Inv => TypeOK
  BY DEF Inv
<1> QED
  BY <1>1, Invariant, PTL

\* What Save or Delete reported as done (token_store.go:145, 162) survives power
\* failures, and no process brings an older state back.
THEOREM ReportsAreSafe == Spec => []ReportedIsSafe
<1>1. Inv => ReportedIsSafe
  BY DEF Inv, Followed, ReportedIsSafe, TypeOK, Entries
<1> QED
  BY <1>1, Invariant, PTL

\* What Load returns (token_store.go:53-96), or that there is nothing, was so at some
\* moment while it ran.
THEOREM LoadsAreCurrent == Spec => []LoadIsCurrent
<1>1. Inv => LoadIsCurrent
  BY DEF Inv
<1> QED
  BY <1>1, Invariant, PTL

\* The entry is made of a whole file, and so is what a power failure may leave.
Whole ==
    /\ Stored(directory) \in Values \cup {None}
    /\ Left(disk) = disk
    /\ Stored(disk) \in Values \cup {None}

LEMMA Contents == Inv => Whole
BY WholeIsLeft DEF Inv, TypeOK, Whole

\* Every step is one of the abstract store, or none.
LEMMA StepImplements ==
    ASSUME Inv, Inv', [Next]_vars
    PROVE  [Atomic!Next]_<<Stored(directory), {Stored(directory), Stored(Left(disk))}>>
<1> DEFINE stored == Stored(directory)
           possible == {Stored(directory), Stored(Left(disk))}
<1>1. /\ stored \in Values \cup {None} /\ possible = {stored, Stored(disk)}
      /\ stored' \in Values \cup {None} /\ possible' = {stored', Stored(disk')}
  <2>1. Whole /\ Whole'
    BY Contents, PTL
  <2> QED
    BY <2>1 DEF Whole
<1>2. CASE UNCHANGED <<directory, disk>>
  BY <1>1, <1>2 DEF Stored
<1>3. CASE disk' = disk /\ stored' \in Values \cup {None}
  <2>1. possible' = {Stored(disk)} \cup {stored'} /\ {Stored(disk)} \subseteq possible
    BY <1>1, <1>3
  <2>2. Atomic!Change
    BY <1>3, <2>1 DEF Atomic!Change, Atomic!Contents
  <2> QED
    BY <2>2 DEF Atomic!Next
<1>4. CASE directory' = directory /\ disk' = directory
  <2>1. stored' = stored /\ possible' = {stored}
    BY <1>1, <1>4 DEF Stored
  <2>2. Atomic!Settle
    BY <2>1 DEF Atomic!Settle
  <2> QED
    BY <2>2 DEF Atomic!Next
<1>5. CASE directory' = disk /\ disk' = disk
  <2>1. stored' = Stored(disk) /\ possible' = {Stored(disk)} /\ Stored(disk) \in possible
    BY <1>1, <1>5 DEF Stored
  <2>2. Atomic!PowerFailure
    BY <2>1 DEF Atomic!PowerFailure
  <2> QED
    BY <2>2 DEF Atomic!Next
<1>6. ASSUME NEW p \in Processes, Step(p)
      PROVE  \/ UNCHANGED <<directory, disk>>
             \/ disk' = disk /\ stored' \in Values \cup {None}
             \/ directory' = directory /\ disk' = directory
  <2>1. CASE Rename(p) \/ Unlink(p) \/ SyncDirectory(p)
    BY <1>1, <2>1, RenameHolds, UnlinkHolds, SyncDirectoryHolds
  <2>2. CASE ~(Rename(p) \/ Unlink(p) \/ SyncDirectory(p))
    BY <1>6, <2>2 DEF Step, CallSave, CallDelete, CallLoad, Call, Create, Chmod, Write, Sync, Close,
       SaveFails, Remove, SyncDirectoryFails, Lstat, Open, AccessFails, Kill, storeVars
  <2> QED
    BY <2>1, <2>2
<1>7. CASE UNCHANGED vars
  BY <1>2, <1>7 DEF vars, storeVars
<1> QED
  BY <1>2, <1>3, <1>4, <1>5, <1>6, <1>7, WritebackHolds, PowerFailureHolds DEF Next

\* Save, Delete and Load (token_store.go:53-163), interrupted anywhere, implement the
\* store whose operations are single steps (README.md:94-95).
THEOREM StoreImplementsAtomicStore == Spec => ImplementsAtomicStore
<1>1. Init => Atomic!Init
  <2> SUFFICES ASSUME Init PROVE Atomic!Init
    OBVIOUS
  <2>1. Stored(directory) = None /\ Stored(disk) = None
    BY DEF Init, Entry, Stored, NoFile, File
  <2>2. Left(disk) = disk
    BY InitHolds, Contents DEF Whole
  <2> QED
    BY <2>1, <2>2 DEF Atomic!Init
<1>2. Inv /\ Inv' /\ [Next]_vars
        => [Atomic!Next]_<<Stored(directory), {Stored(directory), Stored(Left(disk))}>>
  BY StepImplements
<1> QED
  BY <1>1, <1>2, Invariant, PTL DEF Spec, ImplementsAtomicStore, Atomic!Spec

================================================================================
