--------------------------- MODULE MCCatalogStore ---------------------------
(***************************************************************************)
(* A source returns nothing, one blank chapter, a short or a long catalog; *)
(* with the threshold scaled down to 3 the long one is guarded against the *)
(* short one and the blank one.  One web thread and the refresh worker     *)
(* work on one connection.                                                 *)
(***************************************************************************)
EXTENDS CatalogStore

CONSTANTS blank, first, second

MCTitles == {first, second}
MCCatalogs == {<<>>, <<blank>>, <<first>>, <<second, first, second, second>>}
=============================================================================
