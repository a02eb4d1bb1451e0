---------------------------- MODULE MCCatalogLink ----------------------------
(***************************************************************************)
(* The lists of ports and protocols between SpMngr and the UI, and the     *)
(* scan the second comes from.  One of the two moves in a behaviour.       *)
(***************************************************************************)
EXTENDS CatalogLink, ProtocolCatalog, TLC

CONSTANTS a, b, b1, b2, b3

MCNames == {a, b}
MCBuffers == {b1, b2, b3}

VARIABLE moving

-----------------------------------------------------------------------------
\* Files beside and in a directory, one of them below the depth limit, a name
\* that is no JSON file and a path beyond the capacity, which is a link at times.

A == <<"a.json">>
D == <<"d">>
DB == <<"d", "b.json">>
DF == <<"d", "f.json">>
DE == <<"d", "e">>
DEC == <<"d", "e", "c.json">>
N == <<"n.txt">>
Z == <<"long.json">>

SomeKinds ==
  (<<>> :> {"directory", "absent"})
    @@ (A :> {"file", "absent"}) @@ (D :> {"directory", "absent"})
    @@ (DB :> {"file", "absent"}) @@ (DF :> {"file", "absent"})
    @@ (DE :> {"directory", "absent"}) @@ (DEC :> {"file", "absent"})
    @@ (N :> {"file"}) @@ (Z :> {"file", "link"})
JsonNames == {"a.json", "b.json", "c.json", "f.json", "long.json"}
LongPaths == {Z}
StrcmpOrder == <<<<>>, A, D, DB, DE, DEC, DF, Z, N>>

-----------------------------------------------------------------------------

(* The disk that stands still while another part moves.                    *)
QuietDisk ==
  [p \in Path |->
     CASE p = <<>> -> "directory" [] p = N -> "file" [] p = Z -> "link" [] OTHER -> "absent"]

CatalogsInit ==
  /\ moving \in {"lists", "scan"}
  /\ Init
  /\ ScanInit /\ (moving = "scan" \/ disk = QuietDisk)

CatalogsNext ==
  /\ UNCHANGED moving
  /\ \/ moving = "lists" /\ Next /\ UNCHANGED scanVars
     \/ moving = "scan" /\ ScanNext /\ UNCHANGED vars

CatalogsSpec ==
  /\ CatalogsInit /\ [][CatalogsNext]_<<moving, vars, scanVars>>
  /\ WF_vars(moving = "lists" /\ SpMngrDispatch) /\ WF_vars(moving = "lists" /\ UiDispatch)
=============================================================================
