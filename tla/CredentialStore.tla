---------------------------- MODULE CredentialStore ----------------------------
(***************************************************************************)
(* Store.Save, Load and Delete (internal/auth/token_store.go), one system  *)
(* call at a time, called by the processes of one machine: a server that   *)
(* refreshes, logins and logouts, which share nothing but the directory.   *)
(* Any call may fail, a process may be killed and the power may fail       *)
(* between any two.                                                        *)
(*                                                                         *)
(* The kernel may write the directory to the disk at any time and has to   *)
(* when it is synced.  The content of a file is on the disk only once it   *)
(* was synced: that it may get there sooner adds nothing that could go     *)
(* wrong.  The checks of permissions and of the fields of credentials are  *)
(* left out: no process of the machine writes what they refuse.            *)
(***************************************************************************)
EXTENDS Integers

CONSTANTS
    Processes,
    Values,       \* credentials
    None,         \* no credentials
    MaxChanges    \* bound: changes of the directory entry

ASSUME NoneAssumption == None \notin Values
ASSUME ValuesAssumption ==   \* credentials are no name of a result or of what is no file
    Values \cap {"none", "ok", "error", "not_logged_in", "blank", "torn"} = {}
ASSUME MaxChangesAssumption == MaxChanges \in Nat

VARIABLES
    directory,  \* what the path of the credentials leads to
    disk,       \* the same on the disk
    temporary,  \* the temporary file of each process
    pc,         \* the next system call of each process
    op, value,  \* what it was called for
    result,     \* what it last returned
    made,       \* history: the change a process has made
    seen,       \* history: what was stored since a process began to load
    reported    \* history: the last change a caller knows to have succeeded

storeVars == <<directory, disk, temporary>>
callVars == <<op, value>>
vars == <<storeVars, pc, callVars, result, made, seen, reported>>

-----------------------------------------------------------------------------
(* Files *)

\* A file: what a reader sees, and what a power failure leaves of it.
Blank == "blank"
Torn == "torn"
File(data, durable) == [data |-> data, durable |-> durable]
NoFile == File(None, None)

\* The entry of the directory, and how often it has changed.
Entry(file, changes) == [file |-> file, changes |-> changes]

Files == [data : Values \cup {None, Blank, Torn}, durable : Values \cup {None, Blank, Torn}]

\* Only a whole file that is on the disk is ever at the path.
WholeFiles == {File(content, content) : content \in Values \cup {None}}
Entries == [file : WholeFiles, changes : 0 .. MaxChanges]

Stored(entry) == entry.file.data

\* What a power failure leaves of an entry.
Left(entry) == Entry(File(entry.file.durable, entry.file.durable), entry.changes)

-----------------------------------------------------------------------------
(* State *)

Init ==
    /\ directory = Entry(NoFile, 0)
    /\ disk = Entry(NoFile, 0)
    /\ temporary = [p \in Processes |-> NoFile]
    /\ pc = [p \in Processes |-> "idle"]
    /\ op = [p \in Processes |-> "none"]
    /\ value = [p \in Processes |-> None]
    /\ result = [p \in Processes |-> "none"]
    /\ made = [p \in Processes |-> 0]
    /\ seen = [p \in Processes |-> {}]
    /\ reported = 0

Goto(p, label) == pc' = [pc EXCEPT ![p] = label]

\* The history of the readers, whenever the entry may have changed.
Watch == seen' = [p \in Processes |-> IF op[p] = "load" /\ pc[p] # "idle"
                                      THEN seen[p] \cup {Stored(directory')} ELSE seen[p]]

Return(p, r) ==
    /\ Goto(p, "idle")
    /\ result' = [result EXCEPT ![p] = r]

\* The calls a process makes; the credentials it saves are any.
Call(p, name, first, v) ==
    /\ pc[p] = "idle"
    /\ Goto(p, first)
    /\ op' = [op EXCEPT ![p] = name]
    /\ value' = [value EXCEPT ![p] = v]
    /\ result' = [result EXCEPT ![p] = "none"]
    /\ made' = [made EXCEPT ![p] = 0]
    /\ seen' = [seen EXCEPT ![p] = IF name = "load" THEN {Stored(directory)} ELSE {}]
    /\ UNCHANGED <<storeVars, reported>>

CallSave(p) == \E v \in Values : Call(p, "save", "create", v)
CallDelete(p) == Call(p, "delete", "unlink", None)
CallLoad(p) == Call(p, "load", "lstat", None)

-----------------------------------------------------------------------------
(* Save *)

Unreported == UNCHANGED <<callVars, result, made, seen, reported>>

\* ensurePrivateDirectory, CreateTemp
Create(p) ==
    /\ pc[p] = "create"
    /\ temporary' = [temporary EXCEPT ![p] = File(Blank, Blank)]
    /\ Goto(p, "chmod")
    /\ Unreported /\ UNCHANGED <<directory, disk>>

\* The file is made with these permissions already.
Chmod(p) ==
    /\ pc[p] = "chmod"
    /\ Goto(p, "write")
    /\ Unreported /\ UNCHANGED storeVars

Write(p) ==
    /\ pc[p] = "write"
    /\ temporary' = [temporary EXCEPT ![p].data = value[p]]
    /\ Goto(p, "sync")
    /\ Unreported /\ UNCHANGED <<directory, disk>>

NoSync(p) ==   \* mutant: the content is not synced before the rename
    /\ pc[p] = "sync"
    /\ Goto(p, "close")
    /\ Unreported /\ UNCHANGED storeVars
Sync(p) ==
    /\ pc[p] = "sync"
    /\ temporary' = [temporary EXCEPT ![p].durable = temporary[p].data]
    /\ Goto(p, "close")
    /\ Unreported /\ UNCHANGED <<directory, disk>>

Close(p) ==
    /\ pc[p] = "close"
    /\ Goto(p, "rename")
    /\ Unreported /\ UNCHANGED storeVars

\* The entry changes to a file, or to none.
ChangeEntry(p, file) ==
    /\ directory.changes < MaxChanges
    /\ directory' = Entry(file, directory.changes + 1)
    /\ made' = [made EXCEPT ![p] = directory.changes + 1]
    /\ Watch

Rename(p) ==
    /\ pc[p] = "rename"
    /\ ChangeEntry(p, temporary[p])
    /\ temporary' = [temporary EXCEPT ![p] = NoFile]
    /\ Goto(p, "syncdir")
    /\ UNCHANGED <<disk, callVars, result, reported>>

\* syncDirectory, of Save and of Delete: the end of a call that succeeds.
Succeed(p) ==
    /\ Return(p, "ok")
    /\ reported' = IF made[p] > reported THEN made[p] ELSE reported
    /\ UNCHANGED <<directory, temporary, callVars, made, seen>>

SkipsDirectory(p) ==   \* mutant: the directory is not synced
    /\ pc[p] = "syncdir"
    /\ Succeed(p) /\ UNCHANGED disk
SyncDirectory(p) ==
    /\ pc[p] = "syncdir"
    /\ disk' = directory
    /\ Succeed(p)

\* A call before the rename fails; a write may have been done in part.  The
\* deferred Remove follows.
SaveFails(p) ==
    \/ /\ pc[p] = "create"
       /\ Return(p, "error")
       /\ UNCHANGED <<storeVars, callVars, made, seen, reported>>
    \/ /\ pc[p] \in {"chmod", "write", "sync", "close", "rename"}
       /\ temporary' = IF pc[p] = "write" THEN [temporary EXCEPT ![p].data = Torn] ELSE temporary
       /\ Goto(p, "remove")
       /\ Unreported /\ UNCHANGED <<directory, disk>>

Remove(p) ==
    /\ pc[p] = "remove"
    /\ temporary' = [temporary EXCEPT ![p] = NoFile]
    /\ Return(p, "error")
    /\ UNCHANGED <<directory, disk, callVars, made, seen, reported>>

\* The sync of the directory fails: the caller is told of an error, although the
\* entry has changed.
SyncDirectoryFails(p) ==
    /\ pc[p] = "syncdir"
    /\ Return(p, "error")
    /\ UNCHANGED <<storeVars, callVars, made, seen, reported>>

-----------------------------------------------------------------------------
(* Delete *)

Unlink(p) ==
    /\ pc[p] = "unlink"
    /\ \/ /\ directory.file # NoFile
          /\ ChangeEntry(p, NoFile)
          /\ Goto(p, "syncdir")
          /\ UNCHANGED <<disk, temporary, callVars, result, reported>>
       \/ /\ directory.file = NoFile
          /\ Return(p, "ok")
          /\ UNCHANGED <<storeVars, callVars, made, seen, reported>>

-----------------------------------------------------------------------------
(* Load *)

Lstat(p) ==
    /\ pc[p] = "lstat"
    /\ IF directory.file = NoFile THEN Return(p, "not_logged_in")
       ELSE Goto(p, "open") /\ UNCHANGED result
    /\ UNCHANGED <<storeVars, callVars, made, seen, reported>>

\* The whole file is read.  It may be gone by now, and what does not decode is
\* refused.
Decoded(file) == IF file.data \in Values THEN file.data ELSE "error"

Open(p) ==
    /\ pc[p] = "open"
    /\ Return(p, IF directory.file = NoFile THEN "error" ELSE Decoded(directory.file))
    /\ UNCHANGED <<storeVars, callVars, made, seen, reported>>

TreatsAsAbsent(p) ==   \* mutant: a file that cannot be read passes for none
    /\ pc[p] \in {"unlink", "lstat", "open"}
    /\ Return(p, IF op[p] = "load" THEN "not_logged_in" ELSE "error")
    /\ UNCHANGED <<storeVars, callVars, made, seen, reported>>
AccessFails(p) ==
    /\ pc[p] \in {"unlink", "lstat", "open"}
    /\ Return(p, "error")
    /\ UNCHANGED <<storeVars, callVars, made, seen, reported>>

-----------------------------------------------------------------------------
(* The machine *)

\* The kernel writes the directory to the disk.
Writeback ==
    /\ disk # directory
    /\ disk' = directory
    /\ UNCHANGED <<directory, temporary, pc>> /\ Unreported

\* A process is killed.  Its temporary file stays, and nothing will look at it.
Killed(p) ==
    /\ temporary' = [temporary EXCEPT ![p] = NoFile]
    /\ Goto(p, "idle")

Kill(p) ==
    /\ pc[p] # "idle"
    /\ Killed(p)
    /\ Unreported /\ UNCHANGED <<directory, disk>>

PowerFailure ==
    /\ directory' = Left(disk)
    /\ disk' = Left(disk)
    /\ temporary' = [p \in Processes |-> NoFile]
    /\ pc' = [p \in Processes |-> "idle"]
    /\ Unreported

-----------------------------------------------------------------------------
(* Specification *)

Step(p) ==
    \/ CallSave(p) \/ CallDelete(p) \/ CallLoad(p)
    \/ Create(p) \/ Chmod(p) \/ Write(p) \/ Sync(p) \/ Close(p) \/ Rename(p)
    \/ SyncDirectory(p) \/ SaveFails(p) \/ Remove(p) \/ SyncDirectoryFails(p)
    \/ Unlink(p) \/ Lstat(p) \/ Open(p) \/ AccessFails(p)
    \/ Kill(p)

Next == (\E p \in Processes : Step(p)) \/ Writeback \/ PowerFailure

Spec == Init /\ [][Next]_vars

-----------------------------------------------------------------------------
(* Properties *)

Labels == {"idle", "create", "chmod", "write", "sync", "close", "rename", "syncdir", "remove",
           "unlink", "lstat", "open"}

\* What the files and the callers can be in.
TypeOK ==
    /\ directory \in Entries
    /\ disk \in Entries
    /\ temporary \in [Processes -> Files]
    /\ pc \in [Processes -> Labels]
    /\ op \in [Processes -> {"none", "save", "delete", "load"}]
    /\ value \in [Processes -> Values \cup {None}]
    /\ result \in [Processes -> Values \cup {"none", "ok", "error", "not_logged_in"}]
    /\ made \in [Processes -> 0 .. MaxChanges]
    /\ seen \in [Processes -> SUBSET (Values \cup {None})]
    /\ reported \in 0 .. MaxChanges

\* README.md:94-95: "credentials are written using a synced temporary file, mode
\* `0600`, and atomic rename."  Whatever fails, whoever else saves or deletes, the
\* machine has one whole set of credentials or none, also after a power failure.
Atomic == INSTANCE AtomicStore WITH
    stored <- Stored(directory), possible <- {Stored(directory), Stored(Left(disk))}
ImplementsAtomicStore == Atomic!Spec

\* Once Save has reported success, or Delete that it removed the file, neither a
\* power failure nor another process brings an older state back.
ReportedIsSafe == disk.changes >= reported /\ directory.changes >= reported

\* What Load returns was stored while it ran, and it reports ErrNotLoggedIn only if
\* there were no credentials at some moment: a login that is told so makes a new
\* local secret (login.go:83-95).
LoadIsCurrent ==
    \A p \in Processes :
        op[p] = "load" =>
            /\ result[p] \in Values => result[p] \in seen[p]
            /\ result[p] = "not_logged_in" => None \in seen[p]

================================================================================
