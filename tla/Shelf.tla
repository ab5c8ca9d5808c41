-------------------------------- MODULE Shelf --------------------------------
(***************************************************************************)
(* The shared OPDS shelf (shelf.go: shelfHandler).  It has one source, set *)
(* by MOONDAV_SHELF_MODE at the start: the proxied catalog of ShelfLinks,  *)
(* the directory of ShelfIndex, or none, and then every request is         *)
(* answered 404.                                                           *)
(***************************************************************************)
EXTENDS ShelfLinks, ShelfIndex

VARIABLE mode    \* MOONDAV_SHELF_MODE

shelfVars == <<mode, linkVars, indexVars>>

TypeOK == mode \in {"off", "opds", "filesystem"} /\ LinksTypeOK /\ IndexTypeOK

Init == mode \in {"off", "opds", "filesystem"} /\ LinksInit /\ IndexInit

\* Both sources are read-only: no method but GET and HEAD reaches them, and
\* neither touches the other's state.
Next ==
    /\ UNCHANGED mode
    /\ \/ mode = "opds" /\ LinksNext /\ UNCHANGED indexVars
       \/ mode = "filesystem" /\ IndexNext /\ UNCHANGED linkVars

Spec == Init /\ [][Next]_shelfVars
=============================================================================
