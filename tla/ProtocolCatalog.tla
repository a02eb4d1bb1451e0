-------------------------- MODULE ProtocolCatalog --------------------------
(***************************************************************************)
(* The catalogue of protocol files (aos/sp_mngr/protocol_catalog.c): a scan*)
(* of the protocols directory, entry by entry, while other programs change *)
(* the disk, and the look-up of a listed path.                             *)
(*                                                                         *)
(* A path is the sequence of its names below the root.  An entry is visited*)
(* as enumerateDirectory (filesystem_platform_posix.c) does: the names are *)
(* those of when the directory was opened, in any order, and the kind is   *)
(* that of when it is visited.                                             *)
(***************************************************************************)
EXTENDS Naturals, Sequences, FiniteSets, Functions

CONSTANTS
  Kinds,      (* the kinds each path may be of; the paths are its domain    *)
  Json,       (* the names that end in .json                                *)
  TooLong,    (* the paths of PROTOCOL_CATALOG_PATH_CAPACITY bytes or more  *)
  Order,      (* the paths in the order of strcmp                           *)
  MaxFiles,   (* PROTOCOL_CATALOG_MAX_FILES                                 *)
  MaxDepth,   (* PROTOCOL_CATALOG_MAX_DEPTH                                 *)
  MaxChanges  (* bound: the changes of the disk                             *)

Path == DOMAIN Kinds
Root == <<>>
EntryKind == {"directory", "file", "link", "other", "absent"}

Parent(p) == SubSeq(p, 1, Len(p) - 1)
Name(p) == p[Len(p)]
Below(d) == {p \in Path : Len(p) > Len(d) /\ SubSeq(p, 1, Len(d)) = d}
Position(p) == CHOOSE i \in DOMAIN Order : Order[i] = p
FileNames == UNION {Range(p) : p \in Path}

ASSUME CatalogAssumption ==
  /\ Root \in Path /\ Kinds \in [Path -> SUBSET EntryKind]
  /\ Path \subseteq Seq(FileNames)
  /\ \A p \in Path : \A n \in 0..Len(p) : SubSeq(p, 1, n) \in Path
  /\ Order \in Seq(Path) /\ Path \subseteq Range(Order)
  /\ MaxFiles \in Nat /\ MaxDepth \in Nat /\ MaxChanges \in Nat

Result == {"OK", "EXECUTABLE_PATH_FAILED", "ROOT_NOT_FOUND", "SCAN_FAILED",
           "TOO_MANY_FILES", "PATH_TOO_LONG", "ENTRY_NOT_FOUND"}

VARIABLES
  disk,     (* the kind of every path, changed by other programs            *)
  entries,  (* the two lists of paths                                       *)
  activeCatalog, (* which of the two is in force                            *)
  result,   (* error.result                                                 *)
  frames,   (* the scan's open directories, the innermost first:            *)
            (* [dir |-> path, left |-> names still to visit]                *)
  steady,   (* history: the paths that have not changed since the scan began*)
  changes

scanVars == <<disk, entries, activeCatalog, result, frames, steady, changes>>

Scanning == frames # <<>>

(* A slip for Candidate: the list in force is scanned into.                *)
CandidateInForce == activeCatalog

Candidate == 1 - activeCatalog
Active == entries[activeCatalog]

-----------------------------------------------------------------------------
\* Other programs

(* A path becomes of another kind; what was below it is gone.              *)
DiskChanges(p, kind) ==
  /\ changes < MaxChanges
  /\ kind # disk[p]
  /\ p # Root => disk[Parent(p)] = "directory"
  /\ LET now == [q \in Path |-> IF q = p THEN kind
                                ELSE IF q \in Below(p) THEN "absent" ELSE disk[q]]
     IN  disk' = now /\ steady' = {q \in steady : now[q] = disk[q]}
  /\ changes' = changes + 1
  /\ UNCHANGED <<entries, activeCatalog, result, frames>>

-----------------------------------------------------------------------------
\* The scan

ScanInit ==
  /\ disk \in {d \in [Path -> EntryKind] :
                 \A p \in Path :
                   d[p] \in Kinds[p] /\ \A q \in Below(p) : d[q] # "absent" => d[p] = "directory"}
  /\ entries = [c \in {0, 1} |-> <<>>]
  /\ activeCatalog = 0
  /\ result = "OK"
  /\ frames = <<>>
  /\ steady = {}
  /\ changes = 0

Fails(why) ==
  /\ result' = why
  /\ frames' = <<>>

Opened(dir) == [dir |-> dir,
                left |-> {Name(p) : p \in {q \in Below(dir) : /\ Len(q) = Len(dir) + 1
                                                              /\ disk[q] # "absent"}}]

(* opendir, which fails where there is no directory and may fail anyway.   *)
Opens(dir, below) ==
  \/ disk[dir] = "directory" /\ frames' = <<Opened(dir)>> \o below /\ result' = "OK"
  \/ Fails("SCAN_FAILED")

(* How looking for the running program and the directory beside it fails.  *)
ExecutableUnknown == {"EXECUTABLE_PATH_FAILED", "PATH_TOO_LONG"}
RootUnresolved == ExecutableUnknown \union {"PATH_TOO_LONG"}

RootValid == disk[Root] = "directory"

(* ProtocolCatalog_scan up to the first entry.                             *)
Scan ==
  /\ ~Scanning
  /\ steady' = Path
  /\ \/ \E why \in RootUnresolved : Fails(why) /\ UNCHANGED entries
     \/ ~RootValid /\ Fails("ROOT_NOT_FOUND") /\ UNCHANGED entries
     \/ /\ RootValid
        /\ entries' = [entries EXCEPT ![Candidate] = <<>>]
        /\ Opens(Root, <<>>)
  /\ UNCHANGED <<disk, activeCatalog, changes>>

(* A slip for Entered: directories at the limit are scanned too.           *)
EnteredDeeper(dir) == Len(dir) <= MaxDepth

Entered(dir) == Len(dir) < MaxDepth

Skipped(p, kind) ==
  \/ kind \in {"link", "other"}
  \/ p \notin TooLong /\ kind = "directory" /\ ~Entered(Parent(p))
  \/ p \notin TooLong /\ kind = "file" /\ Name(p) \notin Json

(* ProtocolCatalog_add_.                                                   *)
Adds(p, rest) ==
  IF Len(entries[Candidate]) >= MaxFiles
  THEN Fails("TOO_MANY_FILES") /\ UNCHANGED entries
  ELSE /\ entries' = [entries EXCEPT ![Candidate] = Append(@, p)]
       /\ frames' = rest /\ UNCHANGED result

(* ProtocolCatalog_visitEntry_ on an entry of the innermost directory.     *)
Visit(name) ==
  LET top == Head(frames)
      p == Append(top.dir, name)
      rest == <<[dir |-> top.dir, left |-> top.left \ {name}]>> \o Tail(frames)
  IN  /\ Scanning /\ name \in top.left
      /\ \/ disk[p] = "absent" /\ Fails("SCAN_FAILED") /\ UNCHANGED entries
         \/ Skipped(p, disk[p]) /\ frames' = rest /\ UNCHANGED <<result, entries>>
         \/ /\ disk[p] \in {"directory", "file"} /\ p \in TooLong
            /\ Fails("PATH_TOO_LONG") /\ UNCHANGED entries
         \/ /\ disk[p] = "directory" /\ p \notin TooLong /\ Entered(top.dir)
            /\ Opens(p, rest) /\ UNCHANGED entries
         \/ /\ disk[p] = "file" /\ p \notin TooLong /\ name \in Json
            /\ Adds(p, rest)
      /\ UNCHANGED <<disk, activeCatalog, steady, changes>>

(* A slip for Sorted: the list is left in the order of the directory.      *)
SortedNot(s) == s

(* ProtocolCatalog_sort_.                                                  *)
Before(s, i, j) ==
  Position(s[i]) < Position(s[j]) \/ (Position(s[i]) = Position(s[j]) /\ i <= j)
Sorted(s) ==
  [n \in DOMAIN s |->
     s[CHOOSE j \in DOMAIN s : Cardinality({i \in DOMAIN s : Before(s, i, j)}) = n]]

(* The innermost directory has been read; with the root the scan is over.  *)
EndOfDirectory ==
  /\ Scanning /\ Head(frames).left = {}
  /\ \/ /\ frames' = Tail(frames)
        /\ UNCHANGED result
        /\ IF Tail(frames) = <<>>
           THEN /\ entries' = [entries EXCEPT ![Candidate] = Sorted(@)]
                /\ activeCatalog' = Candidate
           ELSE UNCHANGED <<entries, activeCatalog>>
     \/ Fails("SCAN_FAILED") /\ UNCHANGED <<entries, activeCatalog>>
  /\ UNCHANGED <<disk, steady, changes>>

(* readdir fails part of the way.                                          *)
ReadFails ==
  /\ Scanning
  /\ Fails("SCAN_FAILED")
  /\ UNCHANGED <<disk, entries, activeCatalog, steady, changes>>

-----------------------------------------------------------------------------
\* Look-up

ResolvePath(p) ==
  /\ ~Scanning
  /\ result' = IF p \in Range(Active) THEN "OK" ELSE "ENTRY_NOT_FOUND"
  /\ UNCHANGED <<disk, entries, activeCatalog, frames, steady, changes>>

ScanNext ==
  \/ \E p \in Path : \E kind \in Kinds[p] : DiskChanges(p, kind)
  \/ Scan
  \/ \E p \in Path \ {Root} : Visit(Name(p))
  \/ EndOfDirectory
  \/ ReadFails
  \/ \E p \in Path : ResolvePath(p)

ScanSpec == ScanInit /\ [][ScanNext]_scanVars

-----------------------------------------------------------------------------
\* Properties

ScanTypeOK ==
  /\ disk \in [Path -> EntryKind]
  /\ entries \in [{0, 1} -> Seq(Path)] /\ \A c \in {0, 1} : Len(entries[c]) <= MaxFiles
  /\ activeCatalog \in {0, 1}
  /\ result \in Result
  /\ frames \in Seq([dir : Path, left : SUBSET FileNames])
  /\ steady \subseteq Path
  /\ changes \in 0..MaxChanges

(* protocol_catalog_priv.h:48, "Transactional snapshot", "Failed scans     *)
(* preserve the active snapshot": the list in force is replaced by the last*)
(* step of a scan without a failure, and by nothing else.                  *)
SnapshotKept ==
  [][Active' # Active => Scanning /\ ~Scanning' /\ result' = "OK"]_scanVars

Listable(p) ==
  /\ Name(p) \in Json /\ p \notin TooLong /\ Len(p) <= MaxDepth + 1

(* What a completed scan lists: every JSON file that was there throughout, *)
(* down to the limit (and so was each directory on the way to it: when one *)
(* goes, all below it goes); nothing but such files; and nothing that was  *)
(* of another kind throughout.                                             *)
ScanListsTheDisk ==
  [][(Scanning /\ ~Scanning' /\ result' = "OK") =>
       /\ \A p \in Path \ {Root} :
            (disk[p] = "file" /\ Listable(p) /\ p \in steady) => p \in Range(Active')
       /\ \A p \in Range(Active') : Listable(p) /\ (p \in steady => disk[p] = "file")]_scanVars

(* The list in force is in order and names no file twice, also after the   *)
(* buffer has been used before: the composer's suggestions rely on it.     *)
ListedInOrder ==
  \A i, j \in DOMAIN Active : i < j => Position(Active[i]) < Position(Active[j])

(* The list in force has the limits, the order and the names it should; it *)
(* is replaced only by a scan that completes, and then by what was on the  *)
(* disk throughout (ProtocolCatalog_scan).                                 *)
CatalogIsASnapshot == [](ScanTypeOK /\ ListedInOrder) /\ SnapshotKept /\ ScanListsTheDisk
=============================================================================
