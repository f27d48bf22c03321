------------------------------ MODULE AppState ------------------------------
(***************************************************************************)
(* ApplicationState (cascadia/TerminalSettingsModel/ApplicationState.cpp): *)
(* the state that all processes of the terminal keep in memory, write to   *)
(* state.json (elevated processes: also to elevated-state.json) a second   *)
(* after a change, and read again when the folder watcher of AppLogic      *)
(* reports a change of those files.                                        *)
(*                                                                         *)
(* A setting is Shared (one value for everybody) or Local (one value for   *)
(* the elevated and one for the other processes); one of each stands for   *)
(* all.  A value is <<p, n>>: process p set it, as the n-th set.  Each     *)
(* process has three threads: the UI thread that sets values, the timer    *)
(* callback that runs _write, and the one that runs Reload.  The two       *)
(* throttlers are trailing ones (ThrottledFunc): a mark "due" that is      *)
(* cleared when the function starts.                                       *)
(*                                                                         *)
(* Files are external: names refer to file objects, a rename moves a name, *)
(* an open handle keeps its object.  CREATE_ALWAYS empties the object of   *)
(* an existing name, and fails while somebody else writes to it, for       *)
(* WriteUTF8File does not share write access.                              *)
(***************************************************************************)
EXTENDS Integers, FiniteSets

CONSTANTS
    Procs,       \* the processes
    Elevated,    \* those that run elevated
    MaxSets,     \* bound: values set in one behaviour
    MaxCrashes,  \* bound: processes killed
    MayReset     \* may the settings be reset in this instance

ASSUME AppStateAssumption ==
    /\ IsFiniteSet(Procs)
    /\ Elevated \subseteq Procs
    /\ MaxSets \in Nat
    /\ MaxCrashes \in Nat
    /\ MayReset \in BOOLEAN

Names == {"state", "tmp", "elevated"}
Watched == {"state", "elevated"}   \* IsStatePath

\* File objects: the three names and one open handle per process can keep
\* that many in use.
Objects == 1 .. Cardinality(Procs) + 3
NoObject == 0

NoValue == <<>>
Values == {NoValue} \cup (Procs \X (1 .. MaxSets))
Json == [shared : Values, local : Values]
Defaults == [shared |-> NoValue, local |-> NoValue]

\* The contents of a file object: a JSON document, or nothing yet.
Empty == [empty |-> TRUE]

VARIABLES
    dir,        \* the file object of each name, or NoObject
    content,    \* what each file object holds
    handle,     \* the object that each process has open for writing
    life,       \* "off", "up", "flush" (the destructor runs), or "gone"
    mem,        \* _state
    writeDue,   \* _throttler is pending
    reloadDue,  \* AppLogic::_reloadState is pending
    writer,     \* where _write is
    out,        \* the document that _write is about to write
    reader,     \* where Reload is
    in,         \* the document that Reload has read
    sets,       \* values set so far
    crashes,    \* processes killed so far
    latest,     \* history: the latest document each process asked for,
                \* as long as no Reload has touched its memory since
    published,  \* history: the values written to the final files
    failed,     \* history: processes that gave up a write
    raced       \* history: was the temporary file emptied under a writer

files == <<dir, content, handle>>
vars == <<dir, content, handle, life, mem, writeDue, reloadDue, writer, out,
          reader, in, sets, crashes, latest, published, failed, raced>>

TypeOK ==
    /\ dir \in [Names -> Objects \cup {NoObject}]
    /\ content \in [Objects -> Json \cup {Empty}]
    /\ handle \in [Procs -> Objects \cup {NoObject}]
    /\ life \in [Procs -> {"off", "up", "flush", "gone"}]
    /\ mem \in [Procs -> Json]
    /\ writeDue \in [Procs -> BOOLEAN]
    /\ reloadDue \in [Procs -> BOOLEAN]
    /\ writer \in [Procs -> {"idle", "blob", "create", "fill", "rename",
                             "createLocal", "fillLocal"}]
    /\ out \in [Procs -> Json]
    /\ reader \in [Procs -> {"idle", "apply", "readLocal", "applyLocal"}]
    /\ in \in [Procs -> Json]
    /\ sets \in 0 .. MaxSets
    /\ crashes \in 0 .. MaxCrashes
    /\ latest \in [Procs -> Json]
    /\ published \subseteq Values
    /\ failed \subseteq Procs
    /\ raced \in BOOLEAN

Init ==
    /\ dir = [n \in Names |-> NoObject]
    /\ content = [o \in Objects |-> Empty]
    /\ handle = [p \in Procs |-> NoObject]
    /\ life = [p \in Procs |-> "off"]
    /\ mem = [p \in Procs |-> Defaults]
    /\ writeDue = [p \in Procs |-> FALSE]
    /\ reloadDue = [p \in Procs |-> FALSE]
    /\ writer = [p \in Procs |-> "idle"]
    /\ out = mem
    /\ reader = [p \in Procs |-> "idle"]
    /\ in = mem
    /\ sets = 0
    /\ crashes = 0
    /\ latest = mem
    /\ published = {}
    /\ failed = {}
    /\ raced = FALSE

-----------------------------------------------------------------------------
(* Files and documents.                                                    *)

\* ReadUTF8FileIfExists(...).value_or(""): Empty also for a missing file.
Contents(n) == IF dir[n] = NoObject THEN Empty ELSE content[dir[n]]

\* SetValueForKey writes no empty optionals: it overlays what is there.
Overlay(value, below) == IF value # NoValue THEN value ELSE below

\* FromJson: the values of the requested source replace those in memory,
\* also by nothing.
Loaded(p, json, source) ==
    [shared |-> IF "shared" \in source THEN json.shared ELSE mem[p].shared,
     local |-> IF "local" \in source THEN json.local ELSE mem[p].local]

\* A free file object for a new file.
Fresh == CHOOSE o \in Objects :
            /\ \A n \in Names : dir[n] # o
            /\ \A p \in Procs : handle[p] # o

\* The folder watcher of every running process sees the change.
Notify == reloadDue' = [p \in Procs |-> reloadDue[p] \/ life[p] = "up"]

\* Somebody else writes to the file of that name: a sharing violation.
InUse(p, n) ==
    dir[n] # NoObject /\ \E q \in Procs \ {p} : handle[q] = dir[n]

\* _write ends; its document is gone.
Written(p) ==
    /\ writer' = [writer EXCEPT ![p] = "idle"]
    /\ out' = [out EXCEPT ![p] = Defaults]

\* An exception ends _write; CATCH_LOG.
GiveUp(p) == Written(p) /\ failed' = failed \cup {p}

\* The contents once the object o has lost its name: gone with it, unless
\* somebody still has it open.
Unlinked(objects) ==
    [o \in Objects |-> IF o \in objects /\ \A q \in Procs : handle[q] # o
                       THEN Empty ELSE content[o]]

\* The process is over: its memory and its threads are gone.
Over(p) ==
    /\ life' = [life EXCEPT ![p] = "gone"]
    /\ mem' = [mem EXCEPT ![p] = Defaults]
    /\ writeDue' = [writeDue EXCEPT ![p] = FALSE]
    /\ reloadDue' = [reloadDue EXCEPT ![p] = FALSE]
    /\ Written(p)
    /\ reader' = [reader EXCEPT ![p] = "idle"]
    /\ in' = [in EXCEPT ![p] = Defaults]

-----------------------------------------------------------------------------
(* The UI thread.                                                          *)

\* The constructor reads the files; nothing else runs in the process yet.
Start(p) ==
    LET shared == Contents("state")
        local == IF p \in Elevated THEN Contents("elevated") ELSE shared
    IN  /\ life[p] = "off"
        /\ life' = [life EXCEPT ![p] = "up"]
        /\ mem' = [mem EXCEPT ![p] =
              IF shared = Empty THEN Defaults
              ELSE [shared |-> shared.shared,
                    local |-> IF local = Empty THEN NoValue ELSE local.local]]
        /\ UNCHANGED <<files, writeDue, reloadDue, writer, out, reader, in,
                       sets, crashes, latest, published, failed, raced>>

\* A setter: the value goes into _state, then _throttler() is called.
Set(p, field) ==
    LET value == <<p, sets + 1>>
    IN  /\ life[p] = "up" /\ sets < MaxSets
        /\ sets' = sets + 1
        /\ mem' = [mem EXCEPT ![p][field] = value]
        /\ latest' = [latest EXCEPT ![p][field] = value]
        /\ writeDue' = [writeDue EXCEPT ![p] = TRUE]
        /\ UNCHANGED <<files, life, reloadDue, writer, out, reader, in,
                       crashes, published, failed, raced>>

\* Reset deletes both files and forgets the values; it schedules no write.
Reset(p) ==
    /\ MayReset /\ life[p] = "up"
    /\ dir' = [dir EXCEPT !["state"] = NoObject, !["elevated"] = NoObject]
    /\ content' = Unlinked({dir["state"], dir["elevated"]})
    /\ mem' = [mem EXCEPT ![p] = Defaults]
    /\ latest' = [latest EXCEPT ![p] = Defaults]
    /\ Notify
    /\ UNCHANGED <<handle, life, writeDue, writer, out, reader, in, sets,
                   crashes, published, failed, raced>>

\* The destructor starts: nobody calls a setter any more.
Quit(p) ==
    /\ life[p] = "up"
    /\ life' = [life EXCEPT ![p] = "flush"]
    /\ UNCHANGED <<files, mem, writeDue, reloadDue, writer, out, reader, in,
                   sets, crashes, latest, published, failed, raced>>

\* Mutant: the destructor only waits for a write that has begun.
ExitUnflushed(p) ==
    /\ life[p] = "flush" /\ writer[p] = "idle"
    /\ Over(p)
    /\ UNCHANGED <<files, sets, crashes, latest, published, failed, raced>>

\* flush() has returned, and the destructor of the throttler's timer has
\* waited for a callback that flush() missed: no write is pending or running.
Exit(p) ==
    /\ life[p] = "flush" /\ writer[p] = "idle" /\ ~writeDue[p]
    /\ Over(p)
    /\ UNCHANGED <<files, sets, crashes, latest, published, failed, raced>>

\* The process is killed; the system closes its handle.
Crash(p) ==
    /\ crashes < MaxCrashes /\ life[p] \in {"up", "flush"}
    /\ crashes' = crashes + 1
    /\ Over(p)
    /\ handle' = [handle EXCEPT ![p] = NoObject]
    /\ failed' = failed \cup {p}
    /\ UNCHANGED <<dir, content, sets, latest, published, raced>>

-----------------------------------------------------------------------------
(* _write, on the thread pool.                                             *)

\* The throttler runs _write.  An unelevated process writes all it has.
WriteBegin(p) ==
    /\ life[p] \in {"up", "flush"} /\ writeDue[p] /\ writer[p] = "idle"
    /\ writeDue' = [writeDue EXCEPT ![p] = FALSE]
    /\ IF p \in Elevated
       THEN writer' = [writer EXCEPT ![p] = "blob"] /\ UNCHANGED out
       ELSE /\ writer' = [writer EXCEPT ![p] = "create"]
            /\ out' = [out EXCEPT ![p] = mem[p]]
    /\ UNCHANGED <<files, life, mem, reloadDue, reader, in, sets, crashes,
                   latest, published, failed, raced>>

\* Mutant: the elevated process writes its Local values into state.json.
WriteBlobAll(p) ==
    /\ writer[p] = "blob"
    /\ out' = [out EXCEPT ![p] = mem[p]]
    /\ writer' = [writer EXCEPT ![p] = "create"]
    /\ UNCHANGED <<files, life, mem, writeDue, reloadDue, reader, in, sets,
                   crashes, latest, published, failed, raced>>

\* An elevated process loads state.json and lays its Shared values over it.
WriteBlob(p) ==
    LET root == IF Contents("state") = Empty THEN Defaults
                ELSE Contents("state")
    IN  /\ writer[p] = "blob"
        /\ out' = [out EXCEPT ![p] =
              [shared |-> Overlay(mem[p].shared, root.shared),
               local |-> root.local]]
        /\ writer' = [writer EXCEPT ![p] = "create"]
        /\ UNCHANGED <<files, life, mem, writeDue, reloadDue, reader, in,
                       sets, crashes, latest, published, failed, raced>>

\* Mutant: state.json is written without a temporary file.
TargetInPlace(p) ==
    IF writer[p] \in {"create", "fill"} THEN "state" ELSE "elevated"

\* The file that WriteUTF8File is about to write: the temporary one, or
\* elevated-state.json itself.
Target(p) == IF writer[p] \in {"create", "fill"} THEN "tmp" ELSE "elevated"

\* WriteUTF8File: CREATE_ALWAYS empties the file or makes a new one.  It
\* fails while another process writes to the file, and ends _write.
Create(p) ==
    LET n == Target(p)
        o == IF dir[n] = NoObject THEN Fresh ELSE dir[n]
    IN  /\ writer[p] \in {"create", "createLocal"}
        /\ \/ /\ InUse(p, n)
              /\ GiveUp(p)
              /\ UNCHANGED <<files, reloadDue, raced>>
           \/ /\ ~InUse(p, n)
              /\ dir' = [dir EXCEPT ![n] = o]
              /\ content' = [content EXCEPT ![o] = Empty]
              /\ handle' = [handle EXCEPT ![p] = o]
              /\ writer' = [writer EXCEPT ![p] =
                    IF @ = "create" THEN "fill" ELSE "fillLocal"]
              /\ IF n \in Watched THEN Notify ELSE UNCHANGED reloadDue
              /\ raced' = \/ raced
                          \/ n = "tmp" /\ \E q \in Procs : writer[q] = "rename"
              /\ UNCHANGED <<out, failed>>
        /\ UNCHANGED <<life, mem, writeDue, reader, in, sets, crashes, latest,
                       published>>

\* WriteUTF8File: write the document and close the file.  By now another
\* process may have renamed it to state.json.
Fill(p) ==
    /\ writer[p] \in {"fill", "fillLocal"}
    /\ content' = [content EXCEPT ![handle[p]] = out[p]]
    /\ handle' = [handle EXCEPT ![p] = NoObject]
    /\ IF \E n \in Watched : dir[n] = handle[p]
       THEN Notify
       ELSE UNCHANGED reloadDue
    /\ published' = IF writer[p] = "fillLocal" \/ dir["state"] = handle[p]
                    THEN published \cup {out[p].shared, out[p].local}
                    ELSE published
    /\ IF writer[p] = "fill"
       THEN writer' = [writer EXCEPT ![p] = "rename"] /\ UNCHANGED out
       ELSE Written(p)
    /\ UNCHANGED <<dir, life, mem, writeDue, reader, in, sets, crashes,
                   latest, failed, raced>>

\* WriteUTF8FileAtomic: rename the temporary file, if it is still there.
\* An elevated process goes on with its Local values.
Rename(p) ==
    /\ writer[p] = "rename"
    /\ \/ /\ dir["tmp"] = NoObject
          /\ GiveUp(p)
          /\ UNCHANGED <<dir, content, reloadDue, published>>
       \/ /\ dir["tmp"] # NoObject
          /\ dir' = [dir EXCEPT !["state"] = dir["tmp"], !["tmp"] = NoObject]
          /\ content' = Unlinked({dir["state"]})
          /\ IF p \in Elevated
             THEN /\ writer' = [writer EXCEPT ![p] = "createLocal"]
                  /\ out' = [out EXCEPT ![p] = [shared |-> NoValue,
                                                local |-> mem[p].local]]
             ELSE Written(p)
          /\ Notify
          /\ published' = IF content[dir["tmp"]] = Empty THEN published
                          ELSE published \cup {content[dir["tmp"]].shared,
                                               content[dir["tmp"]].local}
          /\ UNCHANGED failed
    /\ UNCHANGED <<handle, life, mem, writeDue, reader, in, sets, crashes,
                   latest, raced>>

-----------------------------------------------------------------------------
(* Reload, on the thread pool: the files are read first, _state is locked  *)
(* afterwards.                                                             *)

\* The throttler runs Reload.
ReloadRead(p) ==
    /\ life[p] = "up" /\ reloadDue[p] /\ reader[p] = "idle"
    /\ reloadDue' = [reloadDue EXCEPT ![p] = FALSE]
    /\ IF Contents("state") = Empty
       THEN UNCHANGED <<reader, in>>
       ELSE /\ in' = [in EXCEPT ![p] = Contents("state")]
            /\ reader' = [reader EXCEPT ![p] = "apply"]
    /\ UNCHANGED <<files, life, mem, writeDue, writer, out, sets, crashes,
                   latest, published, failed, raced>>

\* Mutant: the throttler's mark is cleared when Reload ends.
ReloadApplyTakes(p) ==
    LET source == IF p \in Elevated THEN {"shared"} ELSE {"shared", "local"}
    IN  /\ reader[p] = "apply"
        /\ mem' = [mem EXCEPT ![p] = Loaded(p, in[p], source)]
        /\ latest' = [latest EXCEPT ![p] =
              [shared |-> NoValue,
               local |-> IF p \in Elevated THEN @.local ELSE NoValue]]
        /\ reader' = [reader EXCEPT
                        ![p] = IF p \in Elevated THEN "readLocal" ELSE "idle"]
        /\ in' = [in EXCEPT ![p] = Defaults]
        /\ reloadDue' = [reloadDue EXCEPT ![p] = FALSE]
        /\ UNCHANGED <<files, life, writeDue, writer, out, sets,
                       crashes, published, failed, raced>>

\* FromJson of state.json: both sources, or the Shared one when elevated.
ReloadApply(p) ==
    LET source == IF p \in Elevated THEN {"shared"} ELSE {"shared", "local"}
    IN  /\ reader[p] = "apply"
        /\ mem' = [mem EXCEPT ![p] = Loaded(p, in[p], source)]
        /\ latest' = [latest EXCEPT ![p] =
              [shared |-> NoValue,
               local |-> IF p \in Elevated THEN @.local ELSE NoValue]]
        /\ reader' = [reader EXCEPT
                        ![p] = IF p \in Elevated THEN "readLocal" ELSE "idle"]
        /\ in' = [in EXCEPT ![p] = Defaults]
        /\ UNCHANGED <<files, life, writeDue, reloadDue, writer, out, sets,
                       crashes, published, failed, raced>>

ReloadReadLocal(p) ==
    /\ reader[p] = "readLocal"
    /\ IF Contents("elevated") = Empty
       THEN reader' = [reader EXCEPT ![p] = "idle"] /\ UNCHANGED in
       ELSE /\ reader' = [reader EXCEPT ![p] = "applyLocal"]
            /\ in' = [in EXCEPT ![p] = Contents("elevated")]
    /\ UNCHANGED <<files, life, mem, writeDue, reloadDue, writer, out, sets,
                   crashes, latest, published, failed, raced>>

ReloadApplyLocal(p) ==
    /\ reader[p] = "applyLocal"
    /\ mem' = [mem EXCEPT ![p] = Loaded(p, in[p], {"local"})]
    /\ latest' = [latest EXCEPT ![p].local = NoValue]
    /\ reader' = [reader EXCEPT ![p] = "idle"]
    /\ in' = [in EXCEPT ![p] = Defaults]
    /\ UNCHANGED <<files, life, writeDue, reloadDue, writer, out, sets,
                   crashes, published, failed, raced>>

-----------------------------------------------------------------------------

Write(p) ==
    \/ WriteBegin(p) \/ WriteBlob(p) \/ Create(p) \/ Fill(p) \/ Rename(p)

Reload(p) ==
    \/ ReloadRead(p) \/ ReloadApply(p) \/ ReloadReadLocal(p)
    \/ ReloadApplyLocal(p)

Next == \E p \in Procs :
    \/ Start(p) \/ Set(p, "shared") \/ Set(p, "local") \/ Reset(p)
    \/ Quit(p) \/ Exit(p) \/ Crash(p)
    \/ Write(p) \/ Reload(p)

Spec == Init /\ [][Next]_vars

-----------------------------------------------------------------------------
(* Properties.                                                             *)

\* A Local value of an elevated process is never seen in state.json or in
\* the memory of another process, and no Local value of the others in
\* elevated-state.json ("We don't want to write our window state, ... and
\* other Local properties into the shared `state.json`", 214-216).
SetBy(value, procs) == value = NoValue \/ value[1] \in procs
LocalsApart ==
    /\ \A p \in Procs :
          SetBy(mem[p].local, IF p \in Elevated THEN Elevated
                              ELSE Procs \ Elevated)
    /\ Contents("state") # Empty =>
          SetBy(Contents("state").local, Procs \ Elevated)
    /\ Contents("elevated") # Empty =>
          SetBy(Contents("elevated").local, Elevated)

\* Whoever reads state.json finds a whole document, also after a crash
\* ("this will atomically write to `state.json`", 363-364), as long as no two
\* processes met on the one temporary file.
IntactUnlessRaced ==
    dir["state"] # NoObject /\ ~raced => Contents("state") # Empty

\* "The destructor ensures that the last write is flushed to disk" (102):
\* when a process has ended its latest values were on disk, unless a Reload
\* has replaced them in memory, a write failed, or two writers met on the
\* temporary file.
FlushPublishes ==
    \A p \in Procs : life[p] = "gone" /\ p \notin failed /\ ~raced =>
        \A f \in {"shared", "local"} :
            latest[p][f] \in published \cup {NoValue}

\* The same without exceptions, for a process that is alone: the latest
\* value it has set was on disk.
LastSetFlushed ==
    \A p \in Procs :
        life[p] = "gone" /\ p \notin failed
        /\ (\A q \in Procs \ {p} : life[q] = "off") /\ sets > 0
            => <<p, sets>> \in published

\* When nothing is pending any more, all running processes agree on the
\* Shared value, unless a write failed or two writers met.
Settled ==
    \A p \in Procs : ~writeDue[p] /\ ~reloadDue[p] /\ writer[p] = "idle"
                     /\ reader[p] = "idle"
AgreeWhenSettled ==
    Settled /\ failed = {} /\ ~raced /\ Contents("state") # Empty =>
        \A p \in Procs : life[p] = "up" =>
            mem[p].shared = Contents("state").shared
=============================================================================
