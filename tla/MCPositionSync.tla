---------------------------- MODULE MCPositionSync ----------------------------
(* Instances of PositionSync for TLC: every document of up to MaxPieces      *)
(* pieces as the first chapter of books that are laid out in several ways.   *)
EXTENDS PositionSync, TLC

CONSTANT MaxPieces

\* A sentence, an image, and the space between them.
Pieces == {[span |-> TRUE, len |-> 2], [span |-> TRUE, len |-> 0],
           [span |-> FALSE, len |-> 1]}

Docs == UNION {[1 .. n -> Pieces] : n \in 0 .. MaxPieces}

Second == <<[span |-> TRUE, len |-> 1], [span |-> TRUE, len |-> 2]>>

\* A directory with the package and two chapters.
Plain(doc) ==
    [dir |-> <<"o">>, spine |-> <<"i1", "i2">>,
     manifest |-> [i1 |-> <<"a">>, i2 |-> <<"b">>],
     docs |-> (<<"o", "a">> :> doc) @@ (<<"o", "b">> :> Second)]

\* The second chapter's path in the archive is the first one's in the manifest.
TwoNames(doc) ==
    [dir |-> <<"o">>, spine |-> <<"i1", "i2">>,
     manifest |-> [i1 |-> <<"o", "a">>, i2 |-> <<"a">>],
     docs |-> (<<"o", "o", "a">> :> doc) @@ (<<"o", "a">> :> Second)]

\* The first chapter lies above the package; the second one's path in the
\* manifest is the first one's in the archive.
Above(doc) ==
    [dir |-> <<"o">>, spine |-> <<"i1", "i2">>,
     manifest |-> [i1 |-> <<"..", "a">>, i2 |-> <<"a">>],
     docs |-> (<<"a">> :> doc) @@ (<<"o", "a">> :> Second)]

\* A chapter that occurs twice, an item without a document, one without an entry.
Odd(doc) ==
    [dir |-> <<>>, spine |-> <<"i1", "i2", "i1", "i3">>,
     manifest |-> [i1 |-> <<"a">>, i2 |-> <<"b">>],
     docs |-> (<<"a">> :> doc)]

\* Editions that have the same names and other texts.
SomeReplacements == {Plain(Second), Odd(Second)}

SomeBooks == SomeReplacements \union UNION {{Plain(d), TwoNames(d), Above(d), Odd(d)} : d \in Docs}
=============================================================================
