--------------------------- MODULE AppStateProofs ---------------------------
(***************************************************************************)
(* Proofs about ApplicationState, for any number of processes, elevated or *)
(* not, of values and of crashes: the four invariants of AppState hold.    *)
(*                                                                         *)
(* The inductive invariant says which file objects the two kinds of        *)
(* writers can reach (FilesApart), which Local values each stage of _write *)
(* and Reload carries (LocalsKept), that without a race the temporary file *)
(* has one writer whose document it holds (OneWriter), where a value that  *)
(* is not on disk yet is to be found (Pending), and why a process that     *)
(* disagrees with state.json is going to read it (Told).                   *)
(***************************************************************************)
EXTENDS AppState, FiniteSetTheorems, TLAPS

Others == Procs \ Elevated
Live(p) == life[p] \in {"up", "flush"}

\* A handle is open exactly while a document is being written.  What the
\* writers of the temporary file hold is never elevated-state.json, and
\* the other way round.
FilesApart ==
    /\ \A m, n \in Names : m # n /\ dir[m] # NoObject => dir[m] # dir[n]
    /\ \A p \in Procs :
          /\ handle[p] # NoObject <=> writer[p] \in {"fill", "fillLocal"}
          /\ writer[p] = "fill" => handle[p] # dir["elevated"]
          /\ writer[p] = "fillLocal" => /\ handle[p] # dir["state"]
                                        /\ handle[p] # dir["tmp"]
          /\ writer[p] \in {"blob", "createLocal", "fillLocal"}
                => p \in Elevated
          /\ reader[p] \in {"readLocal", "applyLocal"} => p \in Elevated
          /\ reader[p] # "idle" => Live(p)
    /\ \A p, q \in Procs : writer[p] = "fill" /\ writer[q] = "fillLocal"
                              => handle[p] # handle[q]

\* The Local values in memory, on their way and in the files are those of
\* the right kind of process.
MemLocals ==
    \A p \in Procs :
        SetBy(mem[p].local, IF p \in Elevated THEN Elevated ELSE Others)
OutLocals ==
    \A p \in Procs :
        /\ writer[p] \in {"create", "fill"} => SetBy(out[p].local, Others)
        /\ writer[p] \in {"createLocal", "fillLocal"}
              => SetBy(out[p].local, Elevated)
InLocals ==
    \A p \in Procs :
        /\ reader[p] = "apply" => SetBy(in[p].local, Others)
        /\ reader[p] = "applyLocal" => SetBy(in[p].local, Elevated)
FileLocals ==
    \A n \in Names :
        dir[n] # NoObject /\ content[dir[n]] # Empty
           => SetBy(content[dir[n]].local,
                    IF n = "elevated" THEN Elevated ELSE Others)
LocalsKept == MemLocals /\ OutLocals /\ InLocals /\ FileLocals

\* Without a race, the temporary file belongs to the one process that
\* fills or renames it, and state.json is a whole document.
OneWriter ==
    ~raced =>
        /\ dir["state"] # NoObject => content[dir["state"]] # Empty
        /\ \A p \in Procs :
              /\ writer[p] = "fill" => handle[p] = dir["tmp"]
              /\ writer[p] = "rename" => /\ dir["tmp"] # NoObject
                                         /\ content[dir["tmp"]] = out[p]
        /\ \A p, q \in Procs :
              /\ writer[p] \in {"fill", "rename"}
              /\ writer[q] \in {"fill", "rename"}
              => p = q

\* The document on its way holds, or will hold, the latest value.
SharedInFlight(p) ==
    \/ writer[p] = "blob"
    \/ writer[p] \in {"create", "fill", "rename"}
       /\ out[p].shared = latest[p].shared
LocalInFlight(p) ==
    \/ p \in Elevated /\ writer[p] \in {"blob", "create", "fill", "rename"}
    \/ writer[p] \in {"createLocal", "fillLocal"}
       /\ out[p].local = latest[p].local
    \/ p \notin Elevated /\ writer[p] \in {"create", "fill", "rename"}
       /\ out[p].local = latest[p].local

\* A value asked for is on disk, in a document on its way, or in memory
\* with a write due; once the process is gone, it is on disk.
Pending ==
    \A p \in Procs :
        /\ life[p] = "off" => latest[p] = Defaults
        /\ Live(p) /\ latest[p].shared # NoValue
              => latest[p].shared = mem[p].shared
        /\ Live(p) /\ latest[p].local # NoValue
              => latest[p].local = mem[p].local
        /\ p \notin failed /\ ~raced =>
              /\ latest[p].shared # NoValue =>
                    \/ latest[p].shared \in published
                    \/ Live(p) /\ (writeDue[p] \/ SharedInFlight(p))
              /\ latest[p].local # NoValue =>
                    \/ latest[p].local \in published
                    \/ Live(p) /\ (writeDue[p] \/ LocalInFlight(p))

\* A running process that disagrees with state.json is about to write it
\* or to read it; one that has read it has read the present one, or will
\* read it again.
Told ==
    failed = {} /\ ~raced /\ dir["state"] # NoObject =>
        \A p \in Procs : life[p] = "up" =>
            /\ reader[p] = "apply" =>
                  reloadDue[p] \/ in[p].shared = content[dir["state"]].shared
            /\ reader[p] # "apply" =>
                  \/ mem[p].shared = content[dir["state"]].shared
                  \/ writeDue[p] \/ reloadDue[p]
                  \/ writer[p] \in {"blob", "create", "fill", "rename"}

IInv == TypeOK /\ FilesApart /\ LocalsKept /\ OneWriter /\ Pending /\ Told

-----------------------------------------------------------------------------
(* Files and documents.                                                    *)

\* A document is never mistaken for the contents of an empty file.
LEMMA JsonNotEmpty == \A j \in Json : j # Empty
  BY DEF Json, Empty

\* CREATE_ALWAYS of a missing file finds a free file object: fewer are in
\* use than there are.
LEMMA FreshFree ==
  ASSUME TypeOK, NEW n \in Names, dir[n] = NoObject
  PROVE  /\ Fresh \in Objects
         /\ \A m \in Names : dir[m] # Fresh
         /\ \A p \in Procs : handle[p] # Fresh
<1> DEFINE held == {handle[p] : p \in Procs}
           named == {dir[m] : m \in Names \ {n}}
           used == held \cup named
<1>1. IsFiniteSet(held) /\ Cardinality(held) <= Cardinality(Procs)
  <2>1. handle \in Surjection(Procs, held)
    BY Zenon DEF TypeOK, Surjection
  <2> QED BY <2>1, FS_Surjection, AppStateAssumption, Zenon
<1>2. PICK a, b \in Names : named = {dir[a], dir[b]}
  <2>1. \E a, b \in Names : Names \ {n} = {a, b}
    BY Zenon DEF Names
  <2> QED BY <2>1
<1>3. IsFiniteSet(named) /\ Cardinality(named) <= 2
  <2>1. IsFiniteSet({dir[a]}) /\ Cardinality({dir[a]}) = 1
    BY FS_Singleton, Zenon
  <2>2. named = {dir[a]} \cup {dir[b]}
    BY <1>2, Zenon
  <2> HIDE DEF named
  <2>3. IsFiniteSet({dir[a]} \cup {dir[b]})
        /\ Cardinality({dir[a]} \cup {dir[b]}) =
              IF dir[b] \in {dir[a]} THEN Cardinality({dir[a]})
              ELSE Cardinality({dir[a]}) + 1
    BY <2>1, FS_AddElement, Zenon
  <2>4. Cardinality(named) \in {1, 2}
    BY <2>1, <2>2, <2>3
  <2> QED BY <2>2, <2>3, <2>4
<1>4. IsFiniteSet(used)
      /\ Cardinality(used) <= Cardinality(Procs) + 2
  <2> HIDE DEF held, named
  <2>1. Cardinality(held) \in Nat /\ Cardinality(named) \in Nat
        /\ Cardinality(Procs) \in Nat /\ Cardinality(held \cap named) \in Nat
    BY <1>1, <1>3, AppStateAssumption, FS_CardinalityType, FS_Intersection,
       Zenon
  <2>2. IsFiniteSet(held \cup named)
        /\ Cardinality(held \cup named) = Cardinality(held)
              + Cardinality(named) - Cardinality(held \cap named)
    BY <1>1, <1>3, FS_Union, Zenon
  <2> QED BY <2>1, <2>2, <1>1, <1>3
<1>5. \E o \in Objects : o \notin used
  <2> HIDE DEF used
  <2>1. Cardinality(Procs) \in Nat
    BY AppStateAssumption, FS_CardinalityType, Zenon
  <2>2. Cardinality(Objects) = Cardinality(Procs) + 3
    BY <2>1, FS_Interval DEF Objects
  <2>3. Cardinality(used) \in Nat
    BY <1>4, FS_CardinalityType, Zenon
  <2>4. ~(Objects \subseteq used)
    <3>1. ASSUME Objects \subseteq used PROVE FALSE
      <4>1. Cardinality(Objects) <= Cardinality(used)
        BY <3>1, <1>4, FS_Subset, Zenon
      <4> QED BY <4>1, <2>1, <2>2, <2>3, <1>4
    <3> QED BY <3>1, Zenon
  <2> QED BY <2>4, Zenon
<1>6. PICK o \in Objects : o \notin used
  BY <1>5, Zenon
<1>7. 0 \notin Objects
  BY DEF Objects
<1>8. \A m \in Names : dir[m] # o
  BY <1>6, <1>7, Zenon DEF NoObject
<1>9. \A p \in Procs : handle[p] # o
  BY <1>6, Zenon
<1> QED BY <1>8, <1>9, Zenon DEF Fresh

LEMMA ContentsType ==
  ASSUME TypeOK, NEW n \in Names
  PROVE  Contents(n) \in Json \cup {Empty}
  BY DEF TypeOK, Contents

LEMMA DefaultsType == Defaults \in Json
  BY Zenon DEF Defaults, Json, Values

\* Documents are put together from values and taken apart into values.
LEMMA JsonParts ==
  /\ \A j \in Json : j.shared \in Values /\ j.local \in Values
  /\ \A a, b \in Values : [shared |-> a, local |-> b] \in Json
  BY Zenon DEF Json

LEMMA JsonExcept ==
  ASSUME NEW j \in Json, NEW v \in Values
  PROVE  /\ [j EXCEPT !["shared"] = v] \in Json
         /\ [j EXCEPT !["shared"] = v].shared = v
         /\ [j EXCEPT !["shared"] = v].local = j.local
         /\ [j EXCEPT !["local"] = v] \in Json
         /\ [j EXCEPT !["local"] = v].shared = j.shared
         /\ [j EXCEPT !["local"] = v].local = v
         /\ [j EXCEPT !.local = v] \in Json
         /\ [j EXCEPT !.local = v].shared = j.shared
         /\ [j EXCEPT !.local = v].local = v
  BY Zenon DEF Json

-----------------------------------------------------------------------------
(* WriteUTF8File opens its file, or is refused.                            *)

Refused(p) ==
    /\ writer[p] \in {"create", "createLocal"}
    /\ GiveUp(p)
    /\ UNCHANGED <<files, life, mem, writeDue, reloadDue, reader, in, sets,
                   crashes, latest, published, raced>>

\* The object that is opened is nobody else's; a new one has no name yet.
Opened(p, n, o) ==
    /\ writer[p] = IF n = "tmp" THEN "create" ELSE "createLocal"
    /\ \A q \in Procs \ {p} : handle[q] # o
    /\ dir[n] # o => dir[n] = NoObject /\ \A m \in Names : dir[m] # o
    /\ dir' = [dir EXCEPT ![n] = o]
    /\ content' = [content EXCEPT ![o] = Empty]
    /\ handle' = [handle EXCEPT ![p] = o]
    /\ writer' = [writer EXCEPT ![p] =
                     IF n = "tmp" THEN "fill" ELSE "fillLocal"]
    /\ reloadDue' = reloadDue \/ Notify
    /\ raced' = (\/ raced
                 \/ n = "tmp" /\ \E q \in Procs : writer[q] = "rename")
    /\ UNCHANGED <<life, mem, writeDue, out, reader, in, sets, crashes,
                   latest, published, failed>>

LEMMA CreateCases ==
  ASSUME TypeOK, NEW p \in Procs, Create(p)
  PROVE  \/ Refused(p)
         \/ \E n \in {"tmp", "elevated"}, o \in Objects : Opened(p, n, o)
<1> DEFINE n == Target(p)
           o == IF dir[n] = NoObject THEN Fresh ELSE dir[n]
<1>1. /\ n \in {"tmp", "elevated"}
      /\ writer[p] = IF n = "tmp" THEN "create" ELSE "createLocal"
  BY Zenon DEF Create, Target
<1>2. n \in Names
  BY <1>1, Zenon DEF Names
<1>3. /\ o \in Objects
      /\ dir[n] # o => /\ dir[n] = NoObject
                       /\ \A m \in Names : dir[m] # o
                       /\ \A q \in Procs : handle[q] # o
  BY <1>2, FreshFree, Zenon DEF TypeOK
<1>4. CASE InUse(p, n)
  BY <1>4, Zenon DEF Create, Refused
<1>5. CASE ~InUse(p, n)
  <2>1. \A q \in Procs \ {p} : handle[q] # o
    <3>1. CASE dir[n] = NoObject
      BY <3>1, <1>3 DEF Objects, NoObject
    <3>2. CASE dir[n] # NoObject
      BY <3>2, <1>5, Zenon DEF InUse
    <3> QED BY <3>1, <3>2, Zenon
  <2>2. /\ dir' = [dir EXCEPT ![n] = o]
        /\ content' = [content EXCEPT ![o] = Empty]
        /\ handle' = [handle EXCEPT ![p] = o]
        /\ UNCHANGED <<life, mem, writeDue, out, reader, in, sets, crashes,
                       latest, published, failed>>
    BY <1>5, Zenon DEF Create
  <2>3. writer' = [writer EXCEPT ![p] =
                     IF n = "tmp" THEN "fill" ELSE "fillLocal"]
    <3>1. writer' = [writer EXCEPT ![p] =
                       IF @ = "create" THEN "fill" ELSE "fillLocal"]
      BY <1>5, Zenon DEF Create
    <3> QED BY <3>1, <1>1, Zenon
  <2>4. reloadDue' = reloadDue \/ Notify
    BY <1>5, Zenon DEF Create
  <2>5. raced' = (\/ raced
                  \/ n = "tmp" /\ \E q \in Procs : writer[q] = "rename")
    BY <1>5, Zenon DEF Create
  <2> HIDE DEF n, o
  <2> QED BY <1>1, <1>3, <2>1, <2>2, <2>3, <2>4, <2>5, Zenon DEF Opened
<1> QED BY <1>4, <1>5, Zenon

-----------------------------------------------------------------------------
(* Type correctness.                                                       *)

\* Each step keeps the variables in their types.
LEMMA TypeStep == TypeOK /\ [Next]_vars => TypeOK'
<1> SUFFICES ASSUME TypeOK, [Next]_vars PROVE TypeOK'
  BY Zenon
<1>1. ASSUME NEW p \in Procs, Start(p) PROVE TypeOK'
  <2>1. /\ writeDue' \in [Procs -> BOOLEAN]
        /\ reloadDue' \in [Procs -> BOOLEAN]
        /\ raced' \in BOOLEAN
    BY <1>1, ZenonT(30) DEF TypeOK, files, Start
  <2>2. /\ dir' \in [Names -> Objects \cup {NoObject}]
        /\ content' \in [Objects -> Json \cup {Empty}]
        /\ handle' \in [Procs -> Objects \cup {NoObject}]
        /\ life' \in [Procs -> {"off", "up", "flush", "gone"}]
    BY <1>1, Zenon DEF TypeOK, files, Start
  <2>3. /\ mem' \in [Procs -> Json]
        /\ out' \in [Procs -> Json]
        /\ in' \in [Procs -> Json]
        /\ latest' \in [Procs -> Json]
    <3> DEFINE shared == Contents("state")
               local == IF p \in Elevated THEN Contents("elevated")
                        ELSE shared
               doc == IF shared = Empty THEN Defaults
                      ELSE [shared |-> shared.shared,
                            local |-> IF local = Empty THEN NoValue
                                      ELSE local.local]
    <3>1. shared \in Json \cup {Empty} /\ local \in Json \cup {Empty}
      BY ContentsType, Zenon DEF Names
    <3>2. doc \in Json
      <4> HIDE DEF shared, local
      <4> QED BY <3>1, JsonParts, DefaultsType, Zenon DEF Values
    <3>3. mem' = [mem EXCEPT ![p] = doc]
      BY <1>1, Zenon DEF Start
    <3> HIDE DEF doc
    <3> QED BY <1>1, <3>2, <3>3 DEF TypeOK, Start
  <2>4. /\ writer' \in [Procs -> {"idle", "blob", "create", "fill", "rename",
                                   "createLocal", "fillLocal"}]
        /\ reader' \in [Procs -> {"idle", "apply", "readLocal",
                                   "applyLocal"}]
        /\ sets' \in 0 .. MaxSets
        /\ crashes' \in 0 .. MaxCrashes
        /\ published' \subseteq Values
        /\ failed' \subseteq Procs
    BY <1>1, AppStateAssumption, Zenon DEF TypeOK, files, Start
  <2> QED BY <2>1, <2>2, <2>3, <2>4, Zenon DEF TypeOK
<1>2. ASSUME NEW p \in Procs, Set(p, "shared") PROVE TypeOK'
  <2>1. /\ writeDue' \in [Procs -> BOOLEAN]
        /\ reloadDue' \in [Procs -> BOOLEAN]
        /\ raced' \in BOOLEAN
    BY <1>2, ZenonT(30) DEF TypeOK, files, Set
  <2>2. /\ dir' \in [Names -> Objects \cup {NoObject}]
        /\ content' \in [Objects -> Json \cup {Empty}]
        /\ handle' \in [Procs -> Objects \cup {NoObject}]
        /\ life' \in [Procs -> {"off", "up", "flush", "gone"}]
    BY <1>2, Zenon DEF TypeOK, files, Set
  <2>3. /\ mem' \in [Procs -> Json]
        /\ out' \in [Procs -> Json]
        /\ in' \in [Procs -> Json]
        /\ latest' \in [Procs -> Json]
    <3>1. <<p, sets + 1>> \in Values
      BY <1>2, AppStateAssumption DEF TypeOK, Set, Values
    <3>2. [mem[p] EXCEPT !["shared"] = <<p, sets + 1>>] \in Json
          /\ [latest[p] EXCEPT !["shared"] = <<p, sets + 1>>] \in Json
      BY <3>1, JsonExcept, Zenon DEF TypeOK
    <3> QED BY <1>2, <3>2, Zenon DEF TypeOK, Set
  <2>4. /\ writer' \in [Procs -> {"idle", "blob", "create", "fill", "rename",
                                   "createLocal", "fillLocal"}]
        /\ reader' \in [Procs -> {"idle", "apply", "readLocal",
                                   "applyLocal"}]
        /\ sets' \in 0 .. MaxSets
        /\ crashes' \in 0 .. MaxCrashes
        /\ published' \subseteq Values
        /\ failed' \subseteq Procs
    BY <1>2, AppStateAssumption DEF TypeOK, files, Set
  <2> QED BY <2>1, <2>2, <2>3, <2>4, Zenon DEF TypeOK
<1>3. ASSUME NEW p \in Procs, Set(p, "local") PROVE TypeOK'
  <2>1. /\ writeDue' \in [Procs -> BOOLEAN]
        /\ reloadDue' \in [Procs -> BOOLEAN]
        /\ raced' \in BOOLEAN
    BY <1>3, ZenonT(30) DEF TypeOK, files, Set
  <2>2. /\ dir' \in [Names -> Objects \cup {NoObject}]
        /\ content' \in [Objects -> Json \cup {Empty}]
        /\ handle' \in [Procs -> Objects \cup {NoObject}]
        /\ life' \in [Procs -> {"off", "up", "flush", "gone"}]
    BY <1>3, Zenon DEF TypeOK, files, Set
  <2>3. /\ mem' \in [Procs -> Json]
        /\ out' \in [Procs -> Json]
        /\ in' \in [Procs -> Json]
        /\ latest' \in [Procs -> Json]
    <3>1. <<p, sets + 1>> \in Values
      BY <1>3, AppStateAssumption DEF TypeOK, Set, Values
    <3>2. [mem[p] EXCEPT !["local"] = <<p, sets + 1>>] \in Json
          /\ [latest[p] EXCEPT !["local"] = <<p, sets + 1>>] \in Json
      BY <3>1, JsonExcept, Zenon DEF TypeOK
    <3> QED BY <1>3, <3>2, Zenon DEF TypeOK, Set
  <2>4. /\ writer' \in [Procs -> {"idle", "blob", "create", "fill", "rename",
                                   "createLocal", "fillLocal"}]
        /\ reader' \in [Procs -> {"idle", "apply", "readLocal",
                                   "applyLocal"}]
        /\ sets' \in 0 .. MaxSets
        /\ crashes' \in 0 .. MaxCrashes
        /\ published' \subseteq Values
        /\ failed' \subseteq Procs
    BY <1>3, AppStateAssumption DEF TypeOK, files, Set
  <2> QED BY <2>1, <2>2, <2>3, <2>4, Zenon DEF TypeOK
<1>4. ASSUME NEW p \in Procs, Reset(p) PROVE TypeOK'
  <2>1. /\ writeDue' \in [Procs -> BOOLEAN]
        /\ reloadDue' \in [Procs -> BOOLEAN]
        /\ raced' \in BOOLEAN
    BY <1>4, ZenonT(30) DEF TypeOK, files, Reset, Notify, Unlinked
  <2>2. /\ dir' \in [Names -> Objects \cup {NoObject}]
        /\ content' \in [Objects -> Json \cup {Empty}]
        /\ handle' \in [Procs -> Objects \cup {NoObject}]
        /\ life' \in [Procs -> {"off", "up", "flush", "gone"}]
    BY <1>4, Zenon DEF TypeOK, files, Reset, Notify, Unlinked
  <2>3. /\ mem' \in [Procs -> Json]
        /\ out' \in [Procs -> Json]
        /\ in' \in [Procs -> Json]
        /\ latest' \in [Procs -> Json]
    BY <1>4, DefaultsType, Zenon DEF TypeOK, Reset, Notify, Unlinked
  <2>4. /\ writer' \in [Procs -> {"idle", "blob", "create", "fill", "rename",
                                   "createLocal", "fillLocal"}]
        /\ reader' \in [Procs -> {"idle", "apply", "readLocal",
                                   "applyLocal"}]
        /\ sets' \in 0 .. MaxSets
        /\ crashes' \in 0 .. MaxCrashes
        /\ published' \subseteq Values
        /\ failed' \subseteq Procs
    BY <1>4, AppStateAssumption, Zenon DEF TypeOK, files, Reset, Notify, Unlinked
  <2> QED BY <2>1, <2>2, <2>3, <2>4, Zenon DEF TypeOK
<1>5. ASSUME NEW p \in Procs, Quit(p) PROVE TypeOK'
  <2>1. /\ writeDue' \in [Procs -> BOOLEAN]
        /\ reloadDue' \in [Procs -> BOOLEAN]
        /\ raced' \in BOOLEAN
    BY <1>5, ZenonT(30) DEF TypeOK, files, Quit
  <2>2. /\ dir' \in [Names -> Objects \cup {NoObject}]
        /\ content' \in [Objects -> Json \cup {Empty}]
        /\ handle' \in [Procs -> Objects \cup {NoObject}]
        /\ life' \in [Procs -> {"off", "up", "flush", "gone"}]
    BY <1>5, Zenon DEF TypeOK, files, Quit
  <2>3. /\ mem' \in [Procs -> Json]
        /\ out' \in [Procs -> Json]
        /\ in' \in [Procs -> Json]
        /\ latest' \in [Procs -> Json]
    BY <1>5, DefaultsType, Zenon DEF TypeOK, Quit
  <2>4. /\ writer' \in [Procs -> {"idle", "blob", "create", "fill", "rename",
                                   "createLocal", "fillLocal"}]
        /\ reader' \in [Procs -> {"idle", "apply", "readLocal",
                                   "applyLocal"}]
        /\ sets' \in 0 .. MaxSets
        /\ crashes' \in 0 .. MaxCrashes
        /\ published' \subseteq Values
        /\ failed' \subseteq Procs
    BY <1>5, AppStateAssumption, Zenon DEF TypeOK, files, Quit
  <2> QED BY <2>1, <2>2, <2>3, <2>4, Zenon DEF TypeOK
<1>6. ASSUME NEW p \in Procs, Exit(p) PROVE TypeOK'
  <2>1. /\ writeDue' \in [Procs -> BOOLEAN]
        /\ reloadDue' \in [Procs -> BOOLEAN]
        /\ raced' \in BOOLEAN
    BY <1>6, ZenonT(30) DEF TypeOK, files, Exit, Over, Written
  <2>2. /\ dir' \in [Names -> Objects \cup {NoObject}]
        /\ content' \in [Objects -> Json \cup {Empty}]
        /\ handle' \in [Procs -> Objects \cup {NoObject}]
        /\ life' \in [Procs -> {"off", "up", "flush", "gone"}]
    BY <1>6, Zenon DEF TypeOK, files, Exit, Over, Written
  <2>3. /\ mem' \in [Procs -> Json]
        /\ out' \in [Procs -> Json]
        /\ in' \in [Procs -> Json]
        /\ latest' \in [Procs -> Json]
    BY <1>6, DefaultsType, Zenon DEF TypeOK, Exit, Over, Written
  <2>4. /\ writer' \in [Procs -> {"idle", "blob", "create", "fill", "rename",
                                   "createLocal", "fillLocal"}]
        /\ reader' \in [Procs -> {"idle", "apply", "readLocal",
                                   "applyLocal"}]
        /\ sets' \in 0 .. MaxSets
        /\ crashes' \in 0 .. MaxCrashes
        /\ published' \subseteq Values
        /\ failed' \subseteq Procs
    BY <1>6, AppStateAssumption, Zenon DEF TypeOK, files, Exit, Over, Written
  <2> QED BY <2>1, <2>2, <2>3, <2>4, Zenon DEF TypeOK
<1>7. ASSUME NEW p \in Procs, Crash(p) PROVE TypeOK'
  <2>1. /\ writeDue' \in [Procs -> BOOLEAN]
        /\ reloadDue' \in [Procs -> BOOLEAN]
        /\ raced' \in BOOLEAN
    BY <1>7, ZenonT(30) DEF TypeOK, files, Crash, Over, Written
  <2>2. /\ dir' \in [Names -> Objects \cup {NoObject}]
        /\ content' \in [Objects -> Json \cup {Empty}]
        /\ handle' \in [Procs -> Objects \cup {NoObject}]
        /\ life' \in [Procs -> {"off", "up", "flush", "gone"}]
    BY <1>7, Zenon DEF TypeOK, files, Crash, Over, Written
  <2>3. /\ mem' \in [Procs -> Json]
        /\ out' \in [Procs -> Json]
        /\ in' \in [Procs -> Json]
        /\ latest' \in [Procs -> Json]
    BY <1>7, DefaultsType, Zenon DEF TypeOK, Crash, Over, Written
  <2>4. /\ writer' \in [Procs -> {"idle", "blob", "create", "fill", "rename",
                                   "createLocal", "fillLocal"}]
        /\ reader' \in [Procs -> {"idle", "apply", "readLocal",
                                   "applyLocal"}]
        /\ sets' \in 0 .. MaxSets
        /\ crashes' \in 0 .. MaxCrashes
        /\ published' \subseteq Values
        /\ failed' \subseteq Procs
    BY <1>7, AppStateAssumption DEF TypeOK, files, Crash, Over, Written
  <2> QED BY <2>1, <2>2, <2>3, <2>4, Zenon DEF TypeOK
<1>8. ASSUME NEW p \in Procs, WriteBegin(p) PROVE TypeOK'
  <2>1. /\ writeDue' \in [Procs -> BOOLEAN]
        /\ reloadDue' \in [Procs -> BOOLEAN]
        /\ raced' \in BOOLEAN
    BY <1>8, ZenonT(30) DEF TypeOK, files, WriteBegin
  <2>2. /\ dir' \in [Names -> Objects \cup {NoObject}]
        /\ content' \in [Objects -> Json \cup {Empty}]
        /\ handle' \in [Procs -> Objects \cup {NoObject}]
        /\ life' \in [Procs -> {"off", "up", "flush", "gone"}]
    BY <1>8, Zenon DEF TypeOK, files, WriteBegin
  <2>3. /\ mem' \in [Procs -> Json]
        /\ out' \in [Procs -> Json]
        /\ in' \in [Procs -> Json]
        /\ latest' \in [Procs -> Json]
    BY <1>8 DEF TypeOK, WriteBegin
  <2>4. /\ writer' \in [Procs -> {"idle", "blob", "create", "fill", "rename",
                                   "createLocal", "fillLocal"}]
        /\ reader' \in [Procs -> {"idle", "apply", "readLocal",
                                   "applyLocal"}]
        /\ sets' \in 0 .. MaxSets
        /\ crashes' \in 0 .. MaxCrashes
        /\ published' \subseteq Values
        /\ failed' \subseteq Procs
    BY <1>8, AppStateAssumption, Zenon DEF TypeOK, files, WriteBegin
  <2> QED BY <2>1, <2>2, <2>3, <2>4, Zenon DEF TypeOK
<1>9. ASSUME NEW p \in Procs, WriteBlob(p) PROVE TypeOK'
  <2>1. /\ writeDue' \in [Procs -> BOOLEAN]
        /\ reloadDue' \in [Procs -> BOOLEAN]
        /\ raced' \in BOOLEAN
    BY <1>9, ZenonT(30) DEF TypeOK, files, WriteBlob, Overlay
  <2>2. /\ dir' \in [Names -> Objects \cup {NoObject}]
        /\ content' \in [Objects -> Json \cup {Empty}]
        /\ handle' \in [Procs -> Objects \cup {NoObject}]
        /\ life' \in [Procs -> {"off", "up", "flush", "gone"}]
    BY <1>9, Zenon DEF TypeOK, files, WriteBlob, Overlay
  <2>3. /\ mem' \in [Procs -> Json]
        /\ out' \in [Procs -> Json]
        /\ in' \in [Procs -> Json]
        /\ latest' \in [Procs -> Json]
    <3> DEFINE root == IF Contents("state") = Empty THEN Defaults
                       ELSE Contents("state")
               doc == [shared |-> Overlay(mem[p].shared, root.shared),
                       local |-> root.local]
    <3>1. root \in Json
      BY ContentsType, DefaultsType, Zenon DEF Names
    <3>2. doc \in Json
      <4> HIDE DEF root
      <4> QED BY <3>1, JsonParts, Zenon DEF TypeOK, Overlay
    <3>3. out' = [out EXCEPT ![p] = doc]
      BY <1>9, Zenon DEF WriteBlob
    <3> HIDE DEF doc
    <3> QED BY <1>9, <3>2, <3>3 DEF TypeOK, WriteBlob
  <2>4. /\ writer' \in [Procs -> {"idle", "blob", "create", "fill", "rename",
                                   "createLocal", "fillLocal"}]
        /\ reader' \in [Procs -> {"idle", "apply", "readLocal",
                                   "applyLocal"}]
        /\ sets' \in 0 .. MaxSets
        /\ crashes' \in 0 .. MaxCrashes
        /\ published' \subseteq Values
        /\ failed' \subseteq Procs
    BY <1>9, AppStateAssumption, Zenon DEF TypeOK, files, WriteBlob, Overlay
  <2> QED BY <2>1, <2>2, <2>3, <2>4, Zenon DEF TypeOK
<1>10. ASSUME NEW p \in Procs, Create(p) PROVE TypeOK'
  <2>1. CASE Refused(p)
    BY <2>1, DefaultsType, Zenon DEF TypeOK, Refused, GiveUp, Written, files
  <2>2. ASSUME NEW n \in {"tmp", "elevated"}, NEW o \in Objects,
               Opened(p, n, o)
        PROVE  TypeOK'
    <3>1. raced' \in BOOLEAN /\ reloadDue' \in [Procs -> BOOLEAN]
      <4>1. raced' \in BOOLEAN
        BY <2>2, Zenon DEF Opened
      <4>2. reloadDue' = reloadDue \/ Notify
        BY <2>2, Zenon DEF Opened
      <4>3. reloadDue' \in [Procs -> BOOLEAN]
        BY <4>2, Zenon DEF TypeOK, Notify
      <4> QED BY <4>1, <4>3, Zenon
    <3>2. /\ dir' \in [Names -> Objects \cup {NoObject}]
          /\ content' \in [Objects -> Json \cup {Empty}]
          /\ handle' \in [Procs -> Objects \cup {NoObject}]
      BY <2>2, Zenon DEF TypeOK, Opened
    <3>3. writer' \in [Procs -> {"idle", "blob", "create", "fill", "rename",
                                 "createLocal", "fillLocal"}]
      BY <2>2, Zenon DEF TypeOK, Opened
    <3>4. UNCHANGED <<life, mem, writeDue, out, reader, in, sets, crashes,
                      latest, published, failed>>
      BY <2>2, Zenon DEF Opened
    <3> QED BY <3>1, <3>2, <3>3, <3>4, Zenon DEF TypeOK
  <2> QED BY <1>10, <2>1, <2>2, CreateCases, Zenon
<1>11. ASSUME NEW p \in Procs, Fill(p) PROVE TypeOK'
  <2>1. /\ writeDue' \in [Procs -> BOOLEAN]
        /\ reloadDue' \in [Procs -> BOOLEAN]
        /\ raced' \in BOOLEAN
    BY <1>11, ZenonT(30) DEF TypeOK, files, Fill, Written, Notify
  <2>2. /\ dir' \in [Names -> Objects \cup {NoObject}]
        /\ content' \in [Objects -> Json \cup {Empty}]
        /\ handle' \in [Procs -> Objects \cup {NoObject}]
        /\ life' \in [Procs -> {"off", "up", "flush", "gone"}]
    BY <1>11, Zenon DEF TypeOK, files, Fill, Written, Notify
  <2>3. /\ mem' \in [Procs -> Json]
        /\ out' \in [Procs -> Json]
        /\ in' \in [Procs -> Json]
        /\ latest' \in [Procs -> Json]
    BY <1>11, DefaultsType DEF TypeOK, Fill, Written
  <2>4. /\ writer' \in [Procs -> {"idle", "blob", "create", "fill", "rename",
                                   "createLocal", "fillLocal"}]
        /\ reader' \in [Procs -> {"idle", "apply", "readLocal",
                                   "applyLocal"}]
        /\ sets' \in 0 .. MaxSets
        /\ crashes' \in 0 .. MaxCrashes
        /\ published' \subseteq Values
        /\ failed' \subseteq Procs
    <3>1. out[p].shared \in Values /\ out[p].local \in Values
      BY JsonParts, Zenon DEF TypeOK
    <3> QED BY <1>11, <3>1, Zenon DEF TypeOK, Fill, Written
  <2> QED BY <2>1, <2>2, <2>3, <2>4, Zenon DEF TypeOK
<1>12. ASSUME NEW p \in Procs, Rename(p) PROVE TypeOK'
  <2>1. /\ writeDue' \in [Procs -> BOOLEAN]
        /\ reloadDue' \in [Procs -> BOOLEAN]
        /\ raced' \in BOOLEAN
    BY <1>12, ZenonT(30) DEF TypeOK, files, Rename, GiveUp, Written, Notify,
       Unlinked
  <2>2. /\ dir' \in [Names -> Objects \cup {NoObject}]
        /\ content' \in [Objects -> Json \cup {Empty}]
        /\ handle' \in [Procs -> Objects \cup {NoObject}]
        /\ life' \in [Procs -> {"off", "up", "flush", "gone"}]
    BY <1>12 DEF TypeOK, Rename, Unlinked, Names
  <2>3. /\ mem' \in [Procs -> Json]
        /\ out' \in [Procs -> Json]
        /\ in' \in [Procs -> Json]
        /\ latest' \in [Procs -> Json]
    <3>1. [shared |-> NoValue, local |-> mem[p].local] \in Json
      BY JsonParts, Zenon DEF TypeOK, Values
    <3> QED BY <1>12, <3>1, DefaultsType DEF TypeOK, Rename, GiveUp, Written
  <2>4. /\ writer' \in [Procs -> {"idle", "blob", "create", "fill", "rename",
                                   "createLocal", "fillLocal"}]
        /\ reader' \in [Procs -> {"idle", "apply", "readLocal",
                                   "applyLocal"}]
        /\ sets' \in 0 .. MaxSets
        /\ crashes' \in 0 .. MaxCrashes
        /\ published' \subseteq Values
        /\ failed' \subseteq Procs
    <3>1. published' \subseteq Values
      <4>1. CASE dir["tmp"] # NoObject
        <5>1. content[dir["tmp"]] # Empty =>
                 /\ content[dir["tmp"]].shared \in Values
                 /\ content[dir["tmp"]].local \in Values
          BY <4>1, JsonParts DEF TypeOK, Names
        <5> QED BY <1>12, <4>1, <5>1 DEF TypeOK, Rename
      <4>2. CASE dir["tmp"] = NoObject
        BY <1>12, <4>2, Zenon DEF TypeOK, Rename
      <4> QED BY <4>1, <4>2, Zenon
    <3> QED BY <1>12, <3>1 DEF TypeOK, Rename, GiveUp, Written
  <2> QED BY <2>1, <2>2, <2>3, <2>4, Zenon DEF TypeOK
<1>13. ASSUME NEW p \in Procs, ReloadRead(p) PROVE TypeOK'
  <2>1. /\ writeDue' \in [Procs -> BOOLEAN]
        /\ reloadDue' \in [Procs -> BOOLEAN]
        /\ raced' \in BOOLEAN
    BY <1>13, ZenonT(30) DEF TypeOK, files, ReloadRead
  <2>2. /\ dir' \in [Names -> Objects \cup {NoObject}]
        /\ content' \in [Objects -> Json \cup {Empty}]
        /\ handle' \in [Procs -> Objects \cup {NoObject}]
        /\ life' \in [Procs -> {"off", "up", "flush", "gone"}]
    BY <1>13, Zenon DEF TypeOK, files, ReloadRead
  <2>3. /\ mem' \in [Procs -> Json]
        /\ out' \in [Procs -> Json]
        /\ in' \in [Procs -> Json]
        /\ latest' \in [Procs -> Json]
    BY <1>13, ContentsType DEF TypeOK, ReloadRead, Names
  <2>4. /\ writer' \in [Procs -> {"idle", "blob", "create", "fill", "rename",
                                   "createLocal", "fillLocal"}]
        /\ reader' \in [Procs -> {"idle", "apply", "readLocal",
                                   "applyLocal"}]
        /\ sets' \in 0 .. MaxSets
        /\ crashes' \in 0 .. MaxCrashes
        /\ published' \subseteq Values
        /\ failed' \subseteq Procs
    BY <1>13, AppStateAssumption, Zenon DEF TypeOK, files, ReloadRead
  <2> QED BY <2>1, <2>2, <2>3, <2>4, Zenon DEF TypeOK
<1>14. ASSUME NEW p \in Procs, ReloadApply(p) PROVE TypeOK'
  <2>1. /\ writeDue' \in [Procs -> BOOLEAN]
        /\ reloadDue' \in [Procs -> BOOLEAN]
        /\ raced' \in BOOLEAN
    BY <1>14, ZenonT(30) DEF TypeOK, files, ReloadApply, Loaded
  <2>2. /\ dir' \in [Names -> Objects \cup {NoObject}]
        /\ content' \in [Objects -> Json \cup {Empty}]
        /\ handle' \in [Procs -> Objects \cup {NoObject}]
        /\ life' \in [Procs -> {"off", "up", "flush", "gone"}]
    BY <1>14, Zenon DEF TypeOK, files, ReloadApply, Loaded
  <2>3. /\ mem' \in [Procs -> Json]
        /\ out' \in [Procs -> Json]
        /\ in' \in [Procs -> Json]
        /\ latest' \in [Procs -> Json]
    <3>1. /\ Loaded(p, in[p], {"shared"}) \in Json
          /\ Loaded(p, in[p], {"shared", "local"}) \in Json
      BY JsonParts, Zenon DEF TypeOK, Loaded
    <3>2. /\ [shared |-> NoValue, local |-> latest[p].local] \in Json
          /\ [shared |-> NoValue, local |-> NoValue] \in Json
      BY JsonParts, Zenon DEF TypeOK, Values
    <3> QED BY <1>14, <3>1, <3>2, DefaultsType, Zenon DEF TypeOK, ReloadApply
  <2>4. /\ writer' \in [Procs -> {"idle", "blob", "create", "fill", "rename",
                                   "createLocal", "fillLocal"}]
        /\ reader' \in [Procs -> {"idle", "apply", "readLocal",
                                   "applyLocal"}]
        /\ sets' \in 0 .. MaxSets
        /\ crashes' \in 0 .. MaxCrashes
        /\ published' \subseteq Values
        /\ failed' \subseteq Procs
    BY <1>14, AppStateAssumption, Zenon DEF TypeOK, files, ReloadApply, Loaded
  <2> QED BY <2>1, <2>2, <2>3, <2>4, Zenon DEF TypeOK
<1>15. ASSUME NEW p \in Procs, ReloadReadLocal(p) PROVE TypeOK'
  <2>1. /\ writeDue' \in [Procs -> BOOLEAN]
        /\ reloadDue' \in [Procs -> BOOLEAN]
        /\ raced' \in BOOLEAN
    BY <1>15, ZenonT(30) DEF TypeOK, files, ReloadReadLocal
  <2>2. /\ dir' \in [Names -> Objects \cup {NoObject}]
        /\ content' \in [Objects -> Json \cup {Empty}]
        /\ handle' \in [Procs -> Objects \cup {NoObject}]
        /\ life' \in [Procs -> {"off", "up", "flush", "gone"}]
    BY <1>15, Zenon DEF TypeOK, files, ReloadReadLocal
  <2>3. /\ mem' \in [Procs -> Json]
        /\ out' \in [Procs -> Json]
        /\ in' \in [Procs -> Json]
        /\ latest' \in [Procs -> Json]
    BY <1>15, ContentsType DEF TypeOK, ReloadReadLocal, Names
  <2>4. /\ writer' \in [Procs -> {"idle", "blob", "create", "fill", "rename",
                                   "createLocal", "fillLocal"}]
        /\ reader' \in [Procs -> {"idle", "apply", "readLocal",
                                   "applyLocal"}]
        /\ sets' \in 0 .. MaxSets
        /\ crashes' \in 0 .. MaxCrashes
        /\ published' \subseteq Values
        /\ failed' \subseteq Procs
    BY <1>15, AppStateAssumption, Zenon DEF TypeOK, files, ReloadReadLocal
  <2> QED BY <2>1, <2>2, <2>3, <2>4, Zenon DEF TypeOK
<1>16. ASSUME NEW p \in Procs, ReloadApplyLocal(p) PROVE TypeOK'
  <2>1. /\ writeDue' \in [Procs -> BOOLEAN]
        /\ reloadDue' \in [Procs -> BOOLEAN]
        /\ raced' \in BOOLEAN
    BY <1>16, ZenonT(30) DEF TypeOK, files, ReloadApplyLocal, Loaded
  <2>2. /\ dir' \in [Names -> Objects \cup {NoObject}]
        /\ content' \in [Objects -> Json \cup {Empty}]
        /\ handle' \in [Procs -> Objects \cup {NoObject}]
        /\ life' \in [Procs -> {"off", "up", "flush", "gone"}]
    BY <1>16, Zenon DEF TypeOK, files, ReloadApplyLocal, Loaded
  <2>3. /\ mem' \in [Procs -> Json]
        /\ out' \in [Procs -> Json]
        /\ in' \in [Procs -> Json]
        /\ latest' \in [Procs -> Json]
    <3>1. Loaded(p, in[p], {"local"}) \in Json
      BY JsonParts, Zenon DEF TypeOK, Loaded
    <3>2. [latest[p] EXCEPT !.local = NoValue] \in Json
      BY JsonExcept, Zenon DEF TypeOK, Values
    <3> QED BY <1>16, <3>1, <3>2, DefaultsType, Zenon DEF TypeOK, ReloadApplyLocal
  <2>4. /\ writer' \in [Procs -> {"idle", "blob", "create", "fill", "rename",
                                   "createLocal", "fillLocal"}]
        /\ reader' \in [Procs -> {"idle", "apply", "readLocal",
                                   "applyLocal"}]
        /\ sets' \in 0 .. MaxSets
        /\ crashes' \in 0 .. MaxCrashes
        /\ published' \subseteq Values
        /\ failed' \subseteq Procs
    BY <1>16, AppStateAssumption, Zenon DEF TypeOK, files, ReloadApplyLocal, Loaded
  <2> QED BY <2>1, <2>2, <2>3, <2>4, Zenon DEF TypeOK
<1>17. CASE UNCHANGED vars
  BY <1>17, Zenon DEF TypeOK, vars
<1> QED BY <1>1, <1>2, <1>3, <1>4, <1>5, <1>6, <1>7, <1>8, <1>9, <1>10, <1>11,
           <1>12, <1>13, <1>14, <1>15, <1>16, <1>17, Zenon DEF Next, Write, Reload

-----------------------------------------------------------------------------
(* The steps of the invariant.                                             *)

\* Each step keeps the files of the two kinds of writers apart.
LEMMA FilesStep == TypeOK /\ FilesApart /\ [Next]_vars => FilesApart'
<1> SUFFICES ASSUME TypeOK, FilesApart, [Next]_vars PROVE FilesApart'
  BY Zenon
<1>1. ASSUME NEW p \in Procs, Start(p) PROVE FilesApart'
  BY <1>1 DEF Start, files, FilesApart, Live
<1>2. ASSUME NEW p \in Procs, Set(p, "shared") PROVE FilesApart'
  BY <1>2, Zenon DEF Set, files, FilesApart, Live
<1>3. ASSUME NEW p \in Procs, Set(p, "local") PROVE FilesApart'
  BY <1>3, Zenon DEF Set, files, FilesApart, Live
<1>4. ASSUME NEW p \in Procs, Reset(p) PROVE FilesApart'
  BY <1>4 DEF Reset, Names, NoObject, Objects, TypeOK, FilesApart, Live
<1>5. ASSUME NEW p \in Procs, Quit(p) PROVE FilesApart'
  BY <1>5 DEF Quit, files, FilesApart, Live
<1>6. ASSUME NEW p \in Procs, Exit(p) PROVE FilesApart'
  BY <1>6 DEF Exit, Over, Written, files, TypeOK, FilesApart, Live
<1>7. ASSUME NEW p \in Procs, Crash(p) PROVE FilesApart'
  BY <1>7 DEF Crash, Over, Written, TypeOK, FilesApart, Live
<1>8. ASSUME NEW p \in Procs, WriteBegin(p) PROVE FilesApart'
  BY <1>8 DEF WriteBegin, files, TypeOK, FilesApart, Live
<1>9. ASSUME NEW p \in Procs, WriteBlob(p) PROVE FilesApart'
  BY <1>9 DEF WriteBlob, files, FilesApart, Live
<1>10. ASSUME NEW p \in Procs, Create(p) PROVE FilesApart'
  <2>1. CASE Refused(p)
    BY <2>1 DEF Refused, GiveUp, Written, files, FilesApart, Live
  <2>2. ASSUME NEW o \in Objects, Opened(p, "tmp", o) PROVE FilesApart'
    BY <2>2 DEF Opened, Names, NoObject, Objects, TypeOK, FilesApart, Live
  <2>3. ASSUME NEW o \in Objects, Opened(p, "elevated", o) PROVE FilesApart'
    BY <2>3 DEF Opened, Names, NoObject, Objects, TypeOK, FilesApart, Live
  <2> QED BY <1>10, <2>1, <2>2, <2>3, CreateCases, Zenon
<1>11. ASSUME NEW p \in Procs, Fill(p) PROVE FilesApart'
  BY <1>11 DEF Fill, Written, TypeOK, FilesApart, Live
<1>12. ASSUME NEW p \in Procs, Rename(p) PROVE FilesApart'
  <2>1. CASE dir["tmp"] = NoObject
    BY <1>12, <2>1 DEF Rename, GiveUp, Written, TypeOK, FilesApart, Live
  <2>2. CASE dir["tmp"] # NoObject
    BY <1>12, <2>2 DEF Rename, Written, Names, NoObject, TypeOK, FilesApart,
       Live
  <2> QED BY <2>1, <2>2, Zenon
<1>13. ASSUME NEW p \in Procs, ReloadRead(p) PROVE FilesApart'
  BY <1>13 DEF ReloadRead, files, TypeOK, FilesApart, Live
<1>14. ASSUME NEW p \in Procs, ReloadApply(p) PROVE FilesApart'
  BY <1>14 DEF ReloadApply, files, FilesApart, Live
<1>15. ASSUME NEW p \in Procs, ReloadReadLocal(p) PROVE FilesApart'
  BY <1>15 DEF ReloadReadLocal, files, TypeOK, FilesApart, Live
<1>16. ASSUME NEW p \in Procs, ReloadApplyLocal(p) PROVE FilesApart'
  BY <1>16 DEF ReloadApplyLocal, files, FilesApart, Live
<1>17. CASE UNCHANGED vars
  BY <1>17, Zenon DEF vars, FilesApart, Live
<1> QED BY <1>1, <1>2, <1>3, <1>4, <1>5, <1>6, <1>7, <1>8, <1>9, <1>10, <1>11,
           <1>12, <1>13, <1>14, <1>15, <1>16, <1>17, Zenon DEF Next, Write, Reload

\* No value, and a value of one of the processes, are set by them.
LEMMA SetByValues ==
  ASSUME NEW S
  PROVE  /\ SetBy(NoValue, S)
         /\ SetBy(Defaults.local, S)
         /\ \A p \in S : \A n : SetBy(<<p, n>>, S)
  BY Zenon DEF SetBy, Defaults

\* A setter changes one field of the document in memory, and of the one
\* asked for.
LEMMA SetEffect ==
  ASSUME TypeOK, NEW p \in Procs, NEW f \in {"shared", "local"}, Set(p, f)
  PROVE  /\ f = "shared" => /\ mem'[p].shared = <<p, sets + 1>>
                           /\ latest'[p].shared = <<p, sets + 1>>
                           /\ mem'[p].local = mem[p].local
                           /\ latest'[p].local = latest[p].local
         /\ f = "local" => /\ mem'[p].local = <<p, sets + 1>>
                          /\ latest'[p].local = <<p, sets + 1>>
                          /\ mem'[p].shared = mem[p].shared
                          /\ latest'[p].shared = latest[p].shared
<1> DEFINE v == <<p, sets + 1>>
<1>1. v \in Values
  BY AppStateAssumption DEF TypeOK, Set, Values
<1>2. /\ mem'[p] = [mem[p] EXCEPT ![f] = v]
      /\ latest'[p] = [latest[p] EXCEPT ![f] = v]
  BY Zenon DEF TypeOK, Set
<1>3. mem[p] \in Json /\ latest[p] \in Json
  BY Zenon DEF TypeOK
<1> HIDE DEF v
<1>4. CASE f = "shared"
  <2>1. /\ [mem[p] EXCEPT !["shared"] = v].shared = v
        /\ [mem[p] EXCEPT !["shared"] = v].local = mem[p].local
    BY <1>1, <1>3, JsonExcept, Zenon
  <2>2. /\ [latest[p] EXCEPT !["shared"] = v].shared = v
        /\ [latest[p] EXCEPT !["shared"] = v].local = latest[p].local
    BY <1>1, <1>3, JsonExcept, Zenon
  <2> QED BY <1>2, <1>4, <2>1, <2>2, Zenon DEF v
<1>5. CASE f = "local"
  <2>1. /\ [mem[p] EXCEPT !["local"] = v].local = v
        /\ [mem[p] EXCEPT !["local"] = v].shared = mem[p].shared
    BY <1>1, <1>3, JsonExcept, Zenon
  <2>2. /\ [latest[p] EXCEPT !["local"] = v].local = v
        /\ [latest[p] EXCEPT !["local"] = v].shared = latest[p].shared
    BY <1>1, <1>3, JsonExcept, Zenon
  <2> QED BY <1>2, <1>5, <2>1, <2>2, Zenon DEF v
<1> QED BY <1>4, <1>5, Zenon

\* Each step keeps the Local values apart.
LEMMA LocalsStep ==
  TypeOK /\ FilesApart /\ LocalsKept /\ [Next]_vars => LocalsKept'
<1> SUFFICES ASSUME TypeOK, FilesApart, LocalsKept, [Next]_vars
             PROVE  LocalsKept'
  BY Zenon
<1>1. ASSUME NEW p \in Procs, Start(p) PROVE LocalsKept'
  <2>1. MemLocals'
    <3> DEFINE shared == Contents("state")
               local == IF p \in Elevated THEN Contents("elevated")
                        ELSE shared
    <3>1. local # Empty =>
             SetBy(local.local, IF p \in Elevated THEN Elevated ELSE Others)
      BY Zenon DEF FileLocals, Contents, Names, LocalsKept
    <3>2. mem'[p].local = IF shared = Empty THEN Defaults.local
                          ELSE IF local = Empty THEN NoValue ELSE local.local
      BY <1>1, Zenon DEF Start, TypeOK
    <3>3. \A r \in Procs \ {p} : mem'[r] = mem[r]
      BY <1>1 DEF Start
    <3> HIDE DEF shared, local
    <3> QED BY <3>1, <3>2, <3>3, SetByValues DEF MemLocals, LocalsKept
  <2>2. OutLocals'
    BY <1>1, Zenon DEF OutLocals, Start, files, LocalsKept
  <2>3. InLocals'
    BY <1>1, Zenon DEF InLocals, Start, files, LocalsKept
  <2>4. FileLocals'
    BY <1>1, Zenon DEF FileLocals, Start, files, LocalsKept
  <2> QED BY <2>1, <2>2, <2>3, <2>4, Zenon DEF LocalsKept
<1>2. ASSUME NEW p \in Procs, Set(p, "shared") PROVE LocalsKept'
  <2>1. MemLocals'
    <3>4. \/ mem'[p].local = mem[p].local
          \/ mem'[p].local = <<p, sets + 1>>
      BY <1>2, SetEffect, Zenon
    <3>5. \A r \in Procs \ {p} : mem'[r] = mem[r]
      BY <1>2 DEF Set
    <3>6. SetBy(<<p, sets + 1>>, IF p \in Elevated THEN Elevated ELSE Others)
      BY Zenon DEF SetBy, Others
    <3> QED BY <3>4, <3>5, <3>6, Zenon DEF MemLocals, LocalsKept
  <2>2. OutLocals'
    BY <1>2, Zenon DEF OutLocals, Set, files, LocalsKept
  <2>3. InLocals'
    BY <1>2, Zenon DEF InLocals, Set, files, LocalsKept
  <2>4. FileLocals'
    BY <1>2, Zenon DEF FileLocals, Set, files, LocalsKept
  <2> QED BY <2>1, <2>2, <2>3, <2>4, Zenon DEF LocalsKept
<1>3. ASSUME NEW p \in Procs, Set(p, "local") PROVE LocalsKept'
  <2>1. MemLocals'
    <3>4. \/ mem'[p].local = mem[p].local
          \/ mem'[p].local = <<p, sets + 1>>
      BY <1>3, SetEffect, Zenon
    <3>5. \A r \in Procs \ {p} : mem'[r] = mem[r]
      BY <1>3 DEF Set
    <3>6. SetBy(<<p, sets + 1>>, IF p \in Elevated THEN Elevated ELSE Others)
      BY Zenon DEF SetBy, Others
    <3> QED BY <3>4, <3>5, <3>6, Zenon DEF MemLocals, LocalsKept
  <2>2. OutLocals'
    BY <1>3, Zenon DEF OutLocals, Set, files, LocalsKept
  <2>3. InLocals'
    BY <1>3, Zenon DEF InLocals, Set, files, LocalsKept
  <2>4. FileLocals'
    BY <1>3, Zenon DEF FileLocals, Set, files, LocalsKept
  <2> QED BY <2>1, <2>2, <2>3, <2>4, Zenon DEF LocalsKept
<1>4. ASSUME NEW p \in Procs, Reset(p) PROVE LocalsKept'
  <2>1. MemLocals'
    BY <1>4, SetByValues DEF MemLocals, Others, Reset, LocalsKept
  <2>2. OutLocals'
    BY <1>4, Zenon DEF OutLocals, Reset, LocalsKept
  <2>3. InLocals'
    BY <1>4, Zenon DEF InLocals, Reset, LocalsKept
  <2>4. FileLocals'
    BY <1>4, Zenon DEF FileLocals, TypeOK, Others, Reset, Unlinked, Names, NoObject,
       LocalsKept
  <2> QED BY <2>1, <2>2, <2>3, <2>4, Zenon DEF LocalsKept
<1>5. ASSUME NEW p \in Procs, Quit(p) PROVE LocalsKept'
  <2>1. MemLocals'
    BY <1>5, Zenon DEF MemLocals, Quit, files, LocalsKept
  <2>2. OutLocals'
    BY <1>5, Zenon DEF OutLocals, Quit, files, LocalsKept
  <2>3. InLocals'
    BY <1>5, Zenon DEF InLocals, Quit, files, LocalsKept
  <2>4. FileLocals'
    BY <1>5, Zenon DEF FileLocals, Quit, files, LocalsKept
  <2> QED BY <2>1, <2>2, <2>3, <2>4, Zenon DEF LocalsKept
<1>6. ASSUME NEW p \in Procs, Exit(p) PROVE LocalsKept'
  <2>1. MemLocals'
    BY <1>6, SetByValues, Zenon DEF MemLocals, TypeOK, Others, Exit, Over,
       LocalsKept
  <2>2. OutLocals'
    BY <1>6, SetByValues, Zenon DEF OutLocals, TypeOK, Others, Exit, Over,
       Written, LocalsKept
  <2>3. InLocals'
    BY <1>6, SetByValues, Zenon DEF InLocals, TypeOK, Others, Exit, Over,
       LocalsKept
  <2>4. FileLocals'
    BY <1>6, Zenon DEF FileLocals, Exit, files, LocalsKept
  <2> QED BY <2>1, <2>2, <2>3, <2>4, Zenon DEF LocalsKept
<1>7. ASSUME NEW p \in Procs, Crash(p) PROVE LocalsKept'
  <2>1. MemLocals'
    BY <1>7, SetByValues, Zenon DEF MemLocals, TypeOK, Others, Crash, Over,
       LocalsKept
  <2>2. OutLocals'
    BY <1>7, SetByValues, Zenon DEF OutLocals, TypeOK, Others, Crash, Over,
       Written, LocalsKept
  <2>3. InLocals'
    BY <1>7, SetByValues, Zenon DEF InLocals, TypeOK, Others, Crash, Over,
       LocalsKept
  <2>4. FileLocals'
    BY <1>7, Zenon DEF FileLocals, Crash, LocalsKept
  <2> QED BY <2>1, <2>2, <2>3, <2>4, Zenon DEF LocalsKept
<1>8. ASSUME NEW p \in Procs, WriteBegin(p) PROVE LocalsKept'
  <2>1. MemLocals'
    BY <1>8, Zenon DEF MemLocals, WriteBegin, files, LocalsKept
  <2>2. OutLocals'
    BY <1>8, ZenonT(30)
    DEF OutLocals, TypeOK, Others, MemLocals, WriteBegin, LocalsKept
  <2>3. InLocals'
    BY <1>8, Zenon DEF InLocals, WriteBegin, files, LocalsKept
  <2>4. FileLocals'
    BY <1>8, Zenon DEF FileLocals, WriteBegin, files, LocalsKept
  <2> QED BY <2>1, <2>2, <2>3, <2>4, Zenon DEF LocalsKept
<1>9. ASSUME NEW p \in Procs, WriteBlob(p) PROVE LocalsKept'
  <2>1. MemLocals'
    BY <1>9, Zenon DEF MemLocals, WriteBlob, files, LocalsKept
  <2>2. OutLocals'
    <3>1. out'[p].local = IF Contents("state") = Empty THEN Defaults.local
                          ELSE Contents("state").local
      BY <1>9, Zenon DEF WriteBlob, TypeOK
    <3>2. SetBy(out'[p].local, Others)
      BY <3>1, SetByValues, Zenon DEF FileLocals, Contents, Names, LocalsKept
    <3>3. \A r \in Procs \ {p} : out'[r] = out[r] /\ writer'[r] = writer[r]
      BY <1>9 DEF WriteBlob
    <3>4. writer'[p] = "create"
      BY <1>9, Zenon DEF WriteBlob, TypeOK
    <3> QED BY <3>2, <3>3, <3>4, Zenon DEF OutLocals, LocalsKept
  <2>3. InLocals'
    BY <1>9, Zenon DEF InLocals, WriteBlob, files, LocalsKept
  <2>4. FileLocals'
    BY <1>9, Zenon DEF FileLocals, WriteBlob, files, LocalsKept
  <2> QED BY <2>1, <2>2, <2>3, <2>4, Zenon DEF LocalsKept
<1>10. ASSUME NEW p \in Procs, Create(p) PROVE LocalsKept'
  <2>1. CASE Refused(p)
    BY <2>1, Zenon DEF Refused, GiveUp, Written, files, TypeOK, LocalsKept, MemLocals,
       OutLocals, InLocals, FileLocals
  <2>2. ASSUME NEW n \in {"tmp", "elevated"}, NEW o \in Objects,
               Opened(p, n, o)
        PROVE  LocalsKept'
    <3>1. MemLocals' /\ InLocals'
      BY <2>2, Zenon DEF Opened, MemLocals, InLocals, LocalsKept
    <3>2. OutLocals'
      BY <2>2 DEF Opened, OutLocals, LocalsKept
    <3>3. FileLocals'
      BY <2>2, Zenon DEF Opened, FileLocals, TypeOK, Names, LocalsKept
    <3> QED BY <3>1, <3>2, <3>3, Zenon DEF LocalsKept
  <2> QED BY <1>10, <2>1, <2>2, CreateCases, Zenon
<1>11. ASSUME NEW p \in Procs, Fill(p) PROVE LocalsKept'
  <2>1. MemLocals'
    BY <1>11, Zenon DEF MemLocals, Fill, LocalsKept
  <2>2. OutLocals'
    BY <1>11, Zenon DEF OutLocals, TypeOK, Others, Fill, Written, LocalsKept
  <2>3. InLocals'
    BY <1>11, Zenon DEF InLocals, Fill, LocalsKept
  <2>4. FileLocals'
    <3>1. CASE writer[p] = "fill"
      BY <1>11, <3>1 DEF Fill, FileLocals, OutLocals, FilesApart, Names,
         LocalsKept
    <3>2. CASE writer[p] = "fillLocal"
      BY <1>11, <3>2 DEF Fill, FileLocals, OutLocals, FilesApart, Names,
         LocalsKept
    <3> QED BY <1>11, <3>1, <3>2, Zenon DEF Fill
  <2> QED BY <2>1, <2>2, <2>3, <2>4, Zenon DEF LocalsKept
<1>12. ASSUME NEW p \in Procs, Rename(p) PROVE LocalsKept'
  <2>1. MemLocals'
    BY <1>12, Zenon DEF MemLocals, Rename, LocalsKept
  <2>2. OutLocals'
    <3>1. \A r \in Procs \ {p} : out'[r] = out[r] /\ writer'[r] = writer[r]
      BY <1>12 DEF Rename, GiveUp, Written, TypeOK
    <3>2. \/ writer'[p] = "idle"
          \/ /\ p \in Elevated
             /\ writer'[p] = "createLocal" /\ out'[p].local = mem[p].local
      BY <1>12 DEF Rename, GiveUp, Written, TypeOK
    <3> QED BY <3>1, <3>2, Zenon DEF OutLocals, MemLocals, LocalsKept
  <2>3. InLocals'
    BY <1>12, Zenon DEF InLocals, Rename, LocalsKept
  <2>4. FileLocals'
    <3>1. CASE dir["tmp"] = NoObject
      BY <1>12, <3>1, Zenon DEF Rename, FileLocals, LocalsKept
    <3>2. CASE dir["tmp"] # NoObject
      <4>1. /\ dir' = [dir EXCEPT !["state"] = dir["tmp"], !["tmp"] = NoObject]
            /\ content' = Unlinked({dir["state"]})
        BY <1>12, <3>2, Zenon DEF Rename
      <4>2. /\ dir'["tmp"] = NoObject
            /\ dir'["state"] = dir["tmp"]
            /\ dir'["elevated"] = dir["elevated"]
        BY <4>1, Zenon DEF TypeOK, Names
      <4>3. \A o \in Objects : content'[o] = content[o] \/ content'[o] = Empty
        BY <4>1, Zenon DEF Unlinked
      <4> QED BY <4>2, <4>3 DEF FileLocals, TypeOK, Names, LocalsKept
    <3> QED BY <3>1, <3>2, Zenon
  <2> QED BY <2>1, <2>2, <2>3, <2>4, Zenon DEF LocalsKept
<1>13. ASSUME NEW p \in Procs, ReloadRead(p) PROVE LocalsKept'
  <2>1. MemLocals'
    BY <1>13, Zenon DEF MemLocals, ReloadRead, files, LocalsKept
  <2>2. OutLocals'
    BY <1>13, Zenon DEF OutLocals, ReloadRead, files, LocalsKept
  <2>3. InLocals'
    <3>1. \A r \in Procs \ {p} : in'[r] = in[r] /\ reader'[r] = reader[r]
      BY <1>13, Zenon DEF ReloadRead, TypeOK
    <3>2. \/ in'[p] = in[p] /\ reader'[p] = reader[p]
          \/ /\ Contents("state") # Empty /\ reader'[p] = "apply"
             /\ in'[p] = Contents("state")
      BY <1>13, Zenon DEF ReloadRead, TypeOK
    <3> QED BY <3>1, <3>2, Zenon DEF InLocals, FileLocals, Contents, Names, LocalsKept
  <2>4. FileLocals'
    BY <1>13, Zenon DEF FileLocals, ReloadRead, files, LocalsKept
  <2> QED BY <2>1, <2>2, <2>3, <2>4, Zenon DEF LocalsKept
<1>14. ASSUME NEW p \in Procs, ReloadApply(p) PROVE LocalsKept'
  <2>1. MemLocals'
    BY <1>14, Zenon DEF MemLocals, TypeOK, Others, InLocals, ReloadApply,
       Loaded, LocalsKept
  <2>2. OutLocals'
    BY <1>14, Zenon DEF OutLocals, ReloadApply, files, LocalsKept
  <2>3. InLocals'
    BY <1>14, SetByValues, Zenon DEF InLocals, TypeOK, Others, ReloadApply,
       LocalsKept
  <2>4. FileLocals'
    BY <1>14, Zenon DEF FileLocals, ReloadApply, files, LocalsKept
  <2> QED BY <2>1, <2>2, <2>3, <2>4, Zenon DEF LocalsKept
<1>15. ASSUME NEW p \in Procs, ReloadReadLocal(p) PROVE LocalsKept'
  <2>1. MemLocals'
    BY <1>15, Zenon DEF MemLocals, ReloadReadLocal, files, LocalsKept
  <2>2. OutLocals'
    BY <1>15, Zenon DEF OutLocals, ReloadReadLocal, files, LocalsKept
  <2>3. InLocals'
    <3>1. \A r \in Procs \ {p} : in'[r] = in[r] /\ reader'[r] = reader[r]
      BY <1>15, Zenon DEF ReloadReadLocal, TypeOK
    <3>2. \/ reader'[p] = "idle"
          \/ /\ Contents("elevated") # Empty /\ reader'[p] = "applyLocal"
             /\ in'[p] = Contents("elevated")
      BY <1>15, Zenon DEF ReloadReadLocal, TypeOK
    <3> QED BY <3>1, <3>2, Zenon DEF InLocals, FileLocals, Contents, Names, LocalsKept
  <2>4. FileLocals'
    BY <1>15, Zenon DEF FileLocals, ReloadReadLocal, files, LocalsKept
  <2> QED BY <2>1, <2>2, <2>3, <2>4, Zenon DEF LocalsKept
<1>16. ASSUME NEW p \in Procs, ReloadApplyLocal(p) PROVE LocalsKept'
  <2>1. MemLocals'
    BY <1>16, Zenon DEF MemLocals, TypeOK, Others, InLocals, FilesApart,
       ReloadApplyLocal, Loaded, LocalsKept
  <2>2. OutLocals'
    BY <1>16, Zenon DEF OutLocals, ReloadApplyLocal, files, LocalsKept
  <2>3. InLocals'
    BY <1>16, SetByValues DEF InLocals, Others, ReloadApplyLocal, LocalsKept
  <2>4. FileLocals'
    BY <1>16, Zenon DEF FileLocals, ReloadApplyLocal, files, LocalsKept
  <2> QED BY <2>1, <2>2, <2>3, <2>4, Zenon DEF LocalsKept
<1>17. CASE UNCHANGED vars
  BY <1>17, Zenon DEF vars, MemLocals, OutLocals, InLocals, FileLocals, LocalsKept
<1> QED BY <1>1, <1>2, <1>3, <1>4, <1>5, <1>6, <1>7, <1>8, <1>9, <1>10, <1>11,
           <1>12, <1>13, <1>14, <1>15, <1>16, <1>17, Zenon DEF Next, Write, Reload

\* Each step leaves the temporary file to one writer, or is a race.
LEMMA WriterStep ==
  TypeOK /\ FilesApart /\ OneWriter /\ [Next]_vars => OneWriter'
<1> SUFFICES ASSUME TypeOK, FilesApart, OneWriter, [Next]_vars
             PROVE  OneWriter'
  BY Zenon
<1>1. ASSUME NEW p \in Procs, Start(p) PROVE OneWriter'
  BY <1>1, JsonNotEmpty, Zenon DEF Start, files, OneWriter
<1>2. ASSUME NEW p \in Procs, Set(p, "shared") PROVE OneWriter'
  BY <1>2, JsonNotEmpty, Zenon DEF Set, files, OneWriter
<1>3. ASSUME NEW p \in Procs, Set(p, "local") PROVE OneWriter'
  BY <1>3, JsonNotEmpty, Zenon DEF Set, files, OneWriter
<1>4. ASSUME NEW p \in Procs, Reset(p) PROVE OneWriter'
  BY <1>4, JsonNotEmpty, Zenon DEF Reset, Notify, Unlinked, Names, NoObject, TypeOK,
     FilesApart, OneWriter
<1>5. ASSUME NEW p \in Procs, Quit(p) PROVE OneWriter'
  BY <1>5, JsonNotEmpty, Zenon DEF Quit, files, OneWriter
<1>6. ASSUME NEW p \in Procs, Exit(p) PROVE OneWriter'
  BY <1>6, JsonNotEmpty DEF Exit, Over, Written, files, OneWriter
<1>7. ASSUME NEW p \in Procs, Crash(p) PROVE OneWriter'
  BY <1>7, JsonNotEmpty DEF Crash, Over, Written, TypeOK, OneWriter
<1>8. ASSUME NEW p \in Procs, WriteBegin(p) PROVE OneWriter'
  BY <1>8, JsonNotEmpty DEF WriteBegin, files, TypeOK, OneWriter
<1>9. ASSUME NEW p \in Procs, WriteBlob(p) PROVE OneWriter'
  BY <1>9, JsonNotEmpty DEF WriteBlob, Overlay, Contents, files, Names,
     OneWriter
<1>10. ASSUME NEW p \in Procs, Create(p) PROVE OneWriter'
  <2>1. CASE Refused(p)
    BY <2>1, JsonNotEmpty DEF Refused, GiveUp, Written, files, OneWriter
  <2>2. ASSUME NEW o \in Objects, Opened(p, "tmp", o) PROVE OneWriter'
    BY <2>2, JsonNotEmpty DEF Opened, Names, NoObject, Objects, TypeOK,
       FilesApart, OneWriter
  <2>3. ASSUME NEW o \in Objects, Opened(p, "elevated", o) PROVE OneWriter'
    BY <2>3, JsonNotEmpty DEF Opened, Names, NoObject, Objects, FilesApart,
       OneWriter
  <2> QED BY <1>10, <2>1, <2>2, <2>3, CreateCases, Zenon
<1>11. ASSUME NEW p \in Procs, Fill(p) PROVE OneWriter'
  BY <1>11, JsonNotEmpty DEF Fill, Written, Notify, Names, TypeOK, FilesApart,
     OneWriter
<1>12. ASSUME NEW p \in Procs, Rename(p) PROVE OneWriter'
  <2>1. CASE dir["tmp"] = NoObject
    BY <1>12, <2>1, JsonNotEmpty, Zenon DEF Rename, GiveUp, Written, OneWriter
  <2>2. CASE dir["tmp"] # NoObject
    BY <1>12, <2>2, JsonNotEmpty DEF Rename, Written, Unlinked, Notify, Names,
       NoObject, TypeOK, FilesApart, OneWriter
  <2> QED BY <2>1, <2>2, Zenon
<1>13. ASSUME NEW p \in Procs, ReloadRead(p) PROVE OneWriter'
  BY <1>13, JsonNotEmpty, Zenon DEF ReloadRead, Contents, files, Names, OneWriter
<1>14. ASSUME NEW p \in Procs, ReloadApply(p) PROVE OneWriter'
  BY <1>14, JsonNotEmpty, Zenon DEF ReloadApply, Loaded, files, OneWriter
<1>15. ASSUME NEW p \in Procs, ReloadReadLocal(p) PROVE OneWriter'
  BY <1>15, JsonNotEmpty, Zenon DEF ReloadReadLocal, Contents, files, Names, OneWriter
<1>16. ASSUME NEW p \in Procs, ReloadApplyLocal(p) PROVE OneWriter'
  BY <1>16, JsonNotEmpty, Zenon DEF ReloadApplyLocal, Loaded, files, OneWriter
<1>17. CASE UNCHANGED vars
  BY <1>17, Zenon DEF vars, OneWriter
<1> QED BY <1>1, <1>2, <1>3, <1>4, <1>5, <1>6, <1>7, <1>8, <1>9, <1>10, <1>11,
           <1>12, <1>13, <1>14, <1>15, <1>16, <1>17, Zenon DEF Next, Write, Reload

\* Each step keeps track of the values that are not on disk yet.
LEMMA PendingStep ==
  TypeOK /\ FilesApart /\ OneWriter /\ Pending /\ [Next]_vars => Pending'
<1> SUFFICES ASSUME TypeOK, FilesApart, OneWriter, Pending, [Next]_vars
             PROVE  Pending'
  BY Zenon
<1>1. ASSUME NEW p \in Procs, Start(p) PROVE Pending'
  <2>1. latest'[p].shared = NoValue /\ latest'[p].local = NoValue
    BY <1>1 DEF Start, Defaults, Pending
  <2>2. /\ UNCHANGED <<latest, writer, writeDue, out, published, failed, raced>>
        /\ life'[p] = "up"
        /\ \A r \in Procs \ {p} : mem'[r] = mem[r] /\ life'[r] = life[r]
    BY <1>1, Zenon DEF Start, TypeOK
  <2> QED BY <2>1, <2>2 DEF Pending, SharedInFlight, LocalInFlight, Live
<1>2. ASSUME NEW p \in Procs, Set(p, "shared") PROVE Pending'
  <2>1. /\ mem'[p].shared = latest'[p].shared
        /\ mem'[p].local = mem[p].local
        /\ latest'[p].local = latest[p].local
    BY <1>2, SetEffect, Zenon
  <2>2. /\ \A r \in Procs \ {p} : /\ mem'[r] = mem[r] /\ latest'[r] = latest[r]
                                  /\ writeDue'[r] = writeDue[r]
        /\ writeDue'[p] /\ life[p] = "up"
        /\ UNCHANGED <<life, writer, out, published, failed, raced>>
    BY <1>2, Zenon DEF Set, TypeOK
  <2> QED BY <2>1, <2>2 DEF Pending, SharedInFlight, LocalInFlight, Live
<1>3. ASSUME NEW p \in Procs, Set(p, "local") PROVE Pending'
  <2>1. /\ mem'[p].local = latest'[p].local
        /\ mem'[p].shared = mem[p].shared
        /\ latest'[p].shared = latest[p].shared
    BY <1>3, SetEffect, Zenon
  <2>2. /\ \A r \in Procs \ {p} : /\ mem'[r] = mem[r] /\ latest'[r] = latest[r]
                                  /\ writeDue'[r] = writeDue[r]
        /\ writeDue'[p] /\ life[p] = "up"
        /\ UNCHANGED <<life, writer, out, published, failed, raced>>
    BY <1>3, Zenon DEF Set, TypeOK
  <2> QED BY <2>1, <2>2 DEF Pending, SharedInFlight, LocalInFlight, Live
<1>4. ASSUME NEW p \in Procs, Reset(p) PROVE Pending'
  <2>1. latest'[p].shared = NoValue /\ latest'[p].local = NoValue
    BY <1>4, Zenon DEF Reset, Defaults, TypeOK
  <2>2. /\ UNCHANGED <<life, writer, writeDue, out, published, failed, raced>>
        /\ life[p] = "up"
        /\ \A r \in Procs \ {p} : mem'[r] = mem[r] /\ latest'[r] = latest[r]
    BY <1>4 DEF Reset
  <2> QED BY <2>1, <2>2 DEF Pending, SharedInFlight, LocalInFlight, Live
<1>5. ASSUME NEW p \in Procs, Quit(p) PROVE Pending'
  BY <1>5 DEF Quit, files, Pending, SharedInFlight, LocalInFlight, Live
<1>6. ASSUME NEW p \in Procs, Exit(p) PROVE Pending'
  BY <1>6 DEF Exit, Over, Written, files, TypeOK, Pending, SharedInFlight,
     LocalInFlight, Live
<1>7. ASSUME NEW p \in Procs, Crash(p) PROVE Pending'
  BY <1>7 DEF Crash, Over, Written, TypeOK, Pending, SharedInFlight,
     LocalInFlight, Live
<1>8. ASSUME NEW p \in Procs, WriteBegin(p) PROVE Pending'
  BY <1>8 DEF WriteBegin, files, TypeOK, Pending, SharedInFlight,
     LocalInFlight, Live
<1>9. ASSUME NEW p \in Procs, WriteBlob(p) PROVE Pending'
  BY <1>9 DEF WriteBlob, Overlay, Contents, files, Names, TypeOK, Pending,
     SharedInFlight, LocalInFlight, Live
<1>10. ASSUME NEW p \in Procs, Create(p) PROVE Pending'
  <2>1. CASE Refused(p)
    BY <2>1 DEF Refused, GiveUp, Written, files, Pending, SharedInFlight,
       LocalInFlight, Live
  <2>2. ASSUME NEW o \in Objects, Opened(p, "tmp", o) PROVE Pending'
    BY <2>2 DEF Opened, Names, NoObject, Objects, Pending, SharedInFlight,
       LocalInFlight, Live
  <2>3. ASSUME NEW o \in Objects, Opened(p, "elevated", o) PROVE Pending'
    BY <2>3 DEF Opened, Names, NoObject, Objects, Pending, SharedInFlight,
       LocalInFlight, Live
  <2> QED BY <1>10, <2>1, <2>2, <2>3, CreateCases, Zenon
<1>11. ASSUME NEW p \in Procs, Fill(p) PROVE Pending'
  BY <1>11 DEF Fill, Written, Notify, Names, TypeOK, Pending, SharedInFlight,
     LocalInFlight, Live
<1>12. ASSUME NEW p \in Procs, Rename(p) PROVE Pending'
  <2>1. CASE dir["tmp"] = NoObject
    BY <1>12, <2>1 DEF Rename, GiveUp, Written, TypeOK, Pending,
       SharedInFlight, LocalInFlight, Live
  <2>2. CASE dir["tmp"] # NoObject
    <3>1. /\ \A r \in Procs \ {p} : out'[r] = out[r] /\ writer'[r] = writer[r]
          /\ UNCHANGED <<life, mem, writeDue, latest, failed, raced>>
          /\ writer[p] = "rename"
      BY <1>12, <2>2, Zenon DEF Rename, Written, TypeOK, SharedInFlight, LocalInFlight
    <3>2. p \in Elevated => /\ writer'[p] = "createLocal"
                            /\ out'[p].local = mem[p].local
      BY <1>12, <2>2 DEF Rename, TypeOK
    <3>3. published \subseteq published'
      BY <1>12, <2>2, Zenon DEF Rename
    <3>4. ~raced => out[p].shared \in published' /\ out[p].local \in published'
      BY <1>12, <2>2, JsonNotEmpty, Zenon DEF Rename, OneWriter, TypeOK
    <3> QED BY <3>1, <3>2, <3>3, <3>4 DEF Pending, SharedInFlight,
               LocalInFlight, Live
  <2> QED BY <2>1, <2>2, Zenon
<1>13. ASSUME NEW p \in Procs, ReloadRead(p) PROVE Pending'
  BY <1>13, Zenon DEF ReloadRead, Contents, files, Names, Pending, SharedInFlight,
     LocalInFlight, Live
<1>14. ASSUME NEW p \in Procs, ReloadApply(p) PROVE Pending'
  <2>1. /\ latest'[p].shared = NoValue
        /\ p \notin Elevated => latest'[p].local = NoValue
        /\ p \in Elevated => latest'[p].local = latest[p].local
    BY <1>14, Zenon DEF ReloadApply, TypeOK
  <2>2. p \in Elevated => mem'[p].local = mem[p].local
    BY <1>14 DEF ReloadApply, Loaded
  <2>3. /\ UNCHANGED <<life, writer, writeDue, out, published, failed, raced>>
        /\ \A r \in Procs \ {p} : mem'[r] = mem[r] /\ latest'[r] = latest[r]
    BY <1>14 DEF ReloadApply
  <2>4. life[p] # "off"
    BY <1>14, Zenon DEF ReloadApply, FilesApart, Live
  <2> QED BY <2>1, <2>2, <2>3, <2>4 DEF Pending, SharedInFlight, LocalInFlight,
             Live
<1>15. ASSUME NEW p \in Procs, ReloadReadLocal(p) PROVE Pending'
  BY <1>15, Zenon DEF ReloadReadLocal, Contents, files, Names, Pending,
     SharedInFlight, LocalInFlight, Live
<1>16. ASSUME NEW p \in Procs, ReloadApplyLocal(p) PROVE Pending'
  <2>1. latest'[p] = [latest[p] EXCEPT !.local = NoValue]
    BY <1>16, Zenon DEF ReloadApplyLocal, TypeOK
  <2>2. latest[p] \in Json /\ NoValue \in Values
    BY Zenon DEF Values, TypeOK
  <2>3. latest'[p].shared = latest[p].shared /\ latest'[p].local = NoValue
    BY <2>1, <2>2, JsonExcept
  <2>4. mem'[p].shared = mem[p].shared
    BY <1>16 DEF ReloadApplyLocal, Loaded
  <2>5. /\ UNCHANGED <<life, writer, writeDue, out, published, failed, raced>>
        /\ \A r \in Procs \ {p} : mem'[r] = mem[r] /\ latest'[r] = latest[r]
    BY <1>16 DEF ReloadApplyLocal
  <2>6. life[p] # "off"
    BY <1>16, Zenon DEF ReloadApplyLocal, FilesApart, TypeOK, Pending, SharedInFlight,
       LocalInFlight, Live
  <2> QED BY <2>3, <2>4, <2>5, <2>6 DEF Pending, SharedInFlight, LocalInFlight,
             Live
<1>17. CASE UNCHANGED vars
  BY <1>17, Zenon DEF vars, Pending, SharedInFlight, LocalInFlight, Live
<1> QED BY <1>1, <1>2, <1>3, <1>4, <1>5, <1>6, <1>7, <1>8, <1>9, <1>10, <1>11,
           <1>12, <1>13, <1>14, <1>15, <1>16, <1>17, Zenon DEF Next, Write, Reload,
           TypeOK, Pending, SharedInFlight, LocalInFlight, Live

\* Each step that makes a process disagree with state.json has it told.
LEMMA ToldStep ==
  TypeOK /\ FilesApart /\ OneWriter /\ Told /\ [Next]_vars => Told'
<1> SUFFICES ASSUME TypeOK, FilesApart, OneWriter, Told, [Next]_vars
             PROVE  Told'
  BY Zenon
<1>1. ASSUME NEW p \in Procs, Start(p) PROVE Told'
  <2>1. /\ UNCHANGED <<dir, content, reader, in, writer, writeDue, reloadDue,
                       failed, raced>>
        /\ \A r \in Procs \ {p} : mem'[r] = mem[r] /\ life'[r] = life[r]
        /\ reader[p] = "idle"
    BY <1>1 DEF Start, files, FilesApart, Live
  <2>2. dir["state"] # NoObject /\ content[dir["state"]] # Empty =>
           mem'[p].shared = content[dir["state"]].shared
    BY <1>1, Zenon DEF Start, Contents, TypeOK
  <2> QED BY <2>1, <2>2, Zenon DEF OneWriter, Told
<1>2. ASSUME NEW p \in Procs, Set(p, "shared") PROVE Told'
  BY <1>2, Zenon DEF Set, files, TypeOK, Told
<1>3. ASSUME NEW p \in Procs, Set(p, "local") PROVE Told'
  BY <1>3 DEF Set, files, Told
<1>4. ASSUME NEW p \in Procs, Reset(p) PROVE Told'
  BY <1>4, Zenon DEF Reset, Notify, Unlinked, Names, NoObject, TypeOK, Told
<1>5. ASSUME NEW p \in Procs, Quit(p) PROVE Told'
  BY <1>5 DEF Quit, files, Told
<1>6. ASSUME NEW p \in Procs, Exit(p) PROVE Told'
  BY <1>6 DEF Exit, Over, Written, files, Told
<1>7. ASSUME NEW p \in Procs, Crash(p) PROVE Told'
  BY <1>7, Zenon DEF Crash, Over, Written, TypeOK, Told
<1>8. ASSUME NEW p \in Procs, WriteBegin(p) PROVE Told'
  BY <1>8 DEF WriteBegin, files, TypeOK, Told
<1>9. ASSUME NEW p \in Procs, WriteBlob(p) PROVE Told'
  BY <1>9 DEF WriteBlob, Overlay, Contents, files, Names, Told
<1>10. ASSUME NEW p \in Procs, Create(p) PROVE Told'
  <2>1. CASE Refused(p)
    BY <2>1, Zenon DEF Refused, GiveUp, Written, files, Told
  <2>2. ASSUME NEW n \in {"tmp", "elevated"}, NEW o \in Objects,
               Opened(p, n, o)
        PROVE  Told'
    <3>1. /\ dir'["state"] = dir["state"]
          /\ o # dir["state"]
      BY <2>2 DEF Opened, Names, NoObject, Objects, FilesApart
    <3>2. content'[dir["state"]] = content[dir["state"]] \/ dir["state"] = NoObject
      BY <2>2, <3>1 DEF Opened, Names
    <3>3. \A r \in Procs : reloadDue[r] => reloadDue'[r]
      BY <2>2, Zenon DEF Opened, Notify
    <3>4. /\ UNCHANGED <<life, mem, writeDue, reader, in, failed>>
          /\ \A r \in Procs \ {p} : writer'[r] = writer[r]
          /\ raced => raced'
      BY <2>2 DEF Opened
    <3>5. writer[p] \in {"blob", "create", "fill", "rename"}
             => writer'[p] \in {"blob", "create", "fill", "rename"}
      BY <2>2 DEF Opened
    <3> QED BY <3>1, <3>2, <3>3, <3>4, <3>5, Zenon DEF Told
  <2> QED BY <1>10, <2>1, <2>2, CreateCases, Zenon
<1>11. ASSUME NEW p \in Procs, Fill(p) PROVE Told'
  <2>1. /\ UNCHANGED <<dir, life, mem, writeDue, reader, in, failed, raced>>
        /\ \A r \in Procs \ {p} : writer'[r] = writer[r]
        /\ \A r \in Procs : reloadDue[r] => reloadDue'[r]
    BY <1>11, Zenon DEF Fill, Written, Notify, TypeOK
  <2>2. writer[p] = "fill" => writer'[p] = "rename"
    BY <1>11, Zenon DEF Fill, TypeOK
  <2>3. CASE handle[p] = dir["state"]
    <3>1. \A r \in Procs : life[r] = "up" => reloadDue'[r]
      <4>1. Notify
        BY <1>11, <2>3, Zenon DEF Fill, Watched
      <4> QED BY <4>1, Zenon DEF Notify
    <3> QED BY <2>1, <3>1, Zenon DEF Told
  <2>4. CASE handle[p] # dir["state"]
    <3>1. dir["state"] # NoObject => content'[dir["state"]] = content[dir["state"]]
      BY <1>11, <2>4 DEF Fill, Names
    <3> QED BY <1>11, <2>1, <2>2, <3>1 DEF Fill, Told
  <2> QED BY <2>3, <2>4, Zenon
<1>12. ASSUME NEW p \in Procs, Rename(p) PROVE Told'
  <2>1. CASE dir["tmp"] = NoObject
    BY <1>12, <2>1, Zenon DEF Rename, GiveUp, Written, Told
  <2>2. CASE dir["tmp"] # NoObject
    <3>1. \A r \in Procs : life[r] = "up" => reloadDue'[r]
      <4>1. Notify
        BY <1>12, <2>2, Zenon DEF Rename
      <4> QED BY <4>1, Zenon DEF Notify
    <3>2. UNCHANGED life
      BY <1>12, Zenon DEF Rename
    <3> QED BY <3>1, <3>2, Zenon DEF Told
  <2> QED BY <2>1, <2>2, Zenon
<1>13. ASSUME NEW p \in Procs, ReloadRead(p) PROVE Told'
  <2>1. /\ UNCHANGED <<dir, content, life, mem, writeDue, writer, failed, raced>>
        /\ \A r \in Procs \ {p} : /\ reader'[r] = reader[r] /\ in'[r] = in[r]
                                  /\ reloadDue'[r] = reloadDue[r]
    BY <1>13, Zenon DEF ReloadRead, files, TypeOK
  <2>2. dir["state"] # NoObject /\ content[dir["state"]] # Empty =>
           reader'[p] = "apply" /\ in'[p] = content[dir["state"]]
    BY <1>13, Zenon DEF ReloadRead, Contents, TypeOK
  <2> QED BY <2>1, <2>2 DEF OneWriter, Told
<1>14. ASSUME NEW p \in Procs, ReloadApply(p) PROVE Told'
  BY <1>14, Zenon DEF ReloadApply, Loaded, files, TypeOK, Told
<1>15. ASSUME NEW p \in Procs, ReloadReadLocal(p) PROVE Told'
  BY <1>15 DEF ReloadReadLocal, Contents, files, Names, TypeOK, Told
<1>16. ASSUME NEW p \in Procs, ReloadApplyLocal(p) PROVE Told'
  BY <1>16 DEF ReloadApplyLocal, Loaded, files, Told
<1>17. CASE UNCHANGED vars
  BY <1>17, Zenon DEF vars, Told
<1> QED BY <1>1, <1>2, <1>3, <1>4, <1>5, <1>6, <1>7, <1>8, <1>9, <1>10, <1>11,
           <1>12, <1>13, <1>14, <1>15, <1>16, <1>17, Zenon DEF Next, Write, Reload

-----------------------------------------------------------------------------
(* The theorems.                                                           *)

\* The initial state satisfies the invariant.
LEMMA InitHolds == Init => IInv
<1> SUFFICES ASSUME Init PROVE IInv
  BY Zenon
<1>1. TypeOK
  <2>1. writeDue \in [Procs -> BOOLEAN] /\ reloadDue \in [Procs -> BOOLEAN]
        /\ raced \in BOOLEAN
    BY Zenon DEF Init
  <2> QED BY <2>1, DefaultsType, AppStateAssumption DEF Init, TypeOK
<1>2. FilesApart
  BY Zenon DEF Init, FilesApart
<1>3. LocalsKept
  BY SetByValues, Zenon DEF Init, LocalsKept, MemLocals, OutLocals, InLocals,
                     FileLocals
<1>4. OneWriter
  BY Zenon DEF Init, OneWriter, Names
<1>5. Pending
  BY Zenon DEF Init, Pending, Defaults, Live
<1>6. Told
  BY Zenon DEF Init, Told, Names
<1> QED BY <1>1, <1>2, <1>3, <1>4, <1>5, <1>6, Zenon DEF IInv

\* The inductive invariant holds in every state.
THEOREM Invariance == Spec => []IInv
<1>1. Init => IInv
  BY InitHolds, Zenon
<1>2. IInv /\ [Next]_vars => IInv'
  BY TypeStep, FilesStep, LocalsStep, WriterStep, PendingStep, ToldStep, Zenon
     DEF IInv
<1> QED BY <1>1, <1>2, PTL DEF Spec

\* The Local values of elevated processes and of the others are never mixed,
\* in memory or in the two files.
THEOREM LocalsAlwaysApart == Spec => []LocalsApart
<1>1. IInv => LocalsApart
  BY Zenon DEF IInv, LocalsKept, MemLocals, FileLocals, LocalsApart, Contents,
         Others, Names
<1> QED BY <1>1, Invariance, PTL

\* Unless two writers met on the temporary file, state.json is missing or
\* a whole document, also after a process was killed.
THEOREM StateIntact == Spec => []IntactUnlessRaced
<1>1. IInv => IntactUnlessRaced
  BY Zenon DEF IInv, OneWriter, IntactUnlessRaced, Contents
<1> QED BY <1>1, Invariance, PTL

\* What a process asked for last was on disk before the process ended.
THEOREM FlushAlwaysPublishes == Spec => []FlushPublishes
<1>1. IInv => FlushPublishes
  <2> SUFFICES ASSUME IInv, NEW p \in Procs,
                      life[p] = "gone" /\ p \notin failed /\ ~raced
               PROVE  /\ latest[p].shared \in published \cup {NoValue}
                      /\ latest[p].local \in published \cup {NoValue}
    BY Zenon DEF FlushPublishes
  <2> QED BY Zenon DEF IInv, Pending, Live
<1> QED BY <1>1, Invariance, PTL

\* Once nothing is pending, all running processes hold the Shared value of
\* state.json.
THEOREM SettledAgree == Spec => []AgreeWhenSettled
<1>1. IInv => AgreeWhenSettled
  BY Zenon DEF IInv, Told, OneWriter, AgreeWhenSettled, Settled, Contents
<1> QED BY <1>1, Invariance, PTL
=============================================================================
