-------------------------------- MODULE MCShelf --------------------------------
(* Instances of Shelf for TLC. *)
EXTENDS Shelf, TLC

CONSTANTS l1, l2, l3, f1, f2, f3

\* A catalog that fills the table, one that overlaps it, one with a link twice.
SomeFeeds == {<<l1, l2>>, <<l3>>, <<l2, l1, l2>>}

\* Two files of one title, as an epub and a pdf of one book have.
SomeTitles == (f1 :> 2) @@ (f2 :> 1) @@ (f3 :> 2)

\* As many files as an index holds, and more.
SomeLibraries == {{f1, f3}, {f1, f2, f3}}

\* No search, and one that leaves a file out.
SomeQueries == {{f1, f2, f3}, {f1, f3}}

ShelfBound == [asks |-> 3, changes |-> 1, expiries |-> 1, faults |-> 1]

\* Goroutines of one kind are interchangeable.
ShelfSymmetry == Permutations(Proxies) \union Permutations(Visitors)
=============================================================================
