---------------------------- MODULE EpubPositions ----------------------------
(***************************************************************************)
(* The two translations of epub_position.go, as functions of a book:       *)
(* moonToKobo turns a Moon+ position (a chapter of the spine and a number  *)
(* of characters into it) into a Kobo location (a document and one of the  *)
(* spans kepubify puts around its sentences and images), koboToMoon turns  *)
(* a location back.                                                        *)
(*                                                                         *)
(* A path is the sequence of its components, cleaned and unescaped.  A     *)
(* document is what the translation counts of it: the pieces of text and   *)
(* images in order, each with its length in characters and whether a span  *)
(* is around it (spaces between sentences are in none, an image is a span  *)
(* without text).  kepubify, which is external, numbers the spans of a     *)
(* document; spans are not nested.                                         *)
(***************************************************************************)
EXTENDS Naturals, Sequences

CONSTANT None    \* no location, no position, no EPUB

(* A book has dir: the directory of the package file; manifest: the path    *)
(* of each item, relative to it; spine: the items in reading order; docs:   *)
(* what is in the archive.                                                  *)

\* How often a path goes up: a cleaned one does so only at its beginning.
Ups(href) ==
    CHOOSE n \in 0 .. Len(href) :
        /\ \A i \in 1 .. n : href[i] = ".."
        /\ n < Len(href) => href[n + 1] # ".."

\* An item's path in the archive: each ".." a cleaned path begins with takes
\* the last component of the directory away, while there is one.
Full(book, href) ==
    LET depth == Len(book.dir)
        up == IF Ups(href) < depth THEN Ups(href) ELSE depth
    IN  SubSeq(book.dir, 1, depth - up) \o SubSeq(href, up + 1, Len(href))

Chapters(book) == 0 .. Len(book.spine) - 1

Item(book, c) == book.spine[c + 1]

----------------------------------------------------------------------------
(* koboSpans. *)

Piece == [span : BOOLEAN, len : Nat]

\* The walk passes a piece: it counts its characters and appends its span.
Passed(walk, piece) ==
    LET offset == walk.offset + piece.len
        span == [id |-> Len(walk.spans) + 1, start |-> walk.offset, end |-> offset]
    IN  [offset |-> offset,
         spans |-> IF piece.span THEN Append(walk.spans, span) ELSE walk.spans]

\* The walk of a document, up to each of its pieces and of all of them.
WalkTo(doc) ==
    LET walk[i \in 0 .. Len(doc)] ==
            IF i = 0 THEN [offset |-> 0, spans |-> <<>>] ELSE Passed(walk[i - 1], doc[i])
    IN  walk

Walk(doc) == WalkTo(doc)[Len(doc)]

\* A span that still has end 0 after the walk, which one without text at the
\* very start of a document has, gets the start of the next span (or the whole
\* length) for an end.
KoboSpans(doc) ==
    LET spans == Walk(doc).spans
        after == [k \in DOMAIN spans |->
                     IF k < Len(spans) THEN spans[k + 1].start ELSE Walk(doc).offset]
    IN  [k \in DOMAIN spans |-> [spans[k] EXCEPT !.end = IF @ = 0 THEN after[k] ELSE @]]

\* Whether a chapter's item is in the manifest and its document in the archive.
HasDocument(book, c) ==
    /\ Item(book, c) \in DOMAIN book.manifest
    /\ Full(book, book.manifest[Item(book, c)]) \in DOMAIN book.docs

Document(book, c) == book.docs[Full(book, book.manifest[Item(book, c)])]

\* The spans of a chapter; without a document both directions give an error.
Spans(book, c) == IF HasDocument(book, c) THEN KoboSpans(Document(book, c)) ELSE <<>>

\* The characters of a chapter.
Length(book, c) ==
    IF HasDocument(book, c) THEN Walk(Document(book, c)).offset ELSE 0

----------------------------------------------------------------------------
(* The translations. *)

Lowest(S) == CHOOSE i \in S : \A j \in S : i <= j

\* Fault: a position at the end of a span still counts as in it.
SpanAtInclusive(spans, o) ==
    LET after == {i \in DOMAIN spans : o <= spans[i].end} IN
    IF after = {} THEN Len(spans) ELSE Lowest(after)

\* The first span that ends after the offset, else the last one.
SpanAt(spans, o) ==
    LET after == {i \in DOMAIN spans : o < spans[i].end} IN
    IF after = {} THEN Len(spans) ELSE Lowest(after)

MoonToKobo(book, pos) ==
    IF pos.chapter \in Chapters(book) /\ Spans(book, pos.chapter) # <<>>
    THEN LET spans == Spans(book, pos.chapter) IN
         [source |-> book.manifest[Item(book, pos.chapter)],
          span |-> spans[SpanAt(spans, pos.offset)].id]
    ELSE None

\* The paths a location may name a chapter's document by.
Sources(book, c) ==
    IF Item(book, c) \in DOMAIN book.manifest
    THEN LET href == book.manifest[Item(book, c)] IN {href, Full(book, href)}
    ELSE {}

Matches(book, source) == {c \in Chapters(book) : source \in Sources(book, c)}

WithId(spans, id) == {i \in DOMAIN spans : spans[i].id = id}

\* Fault: the end of the span instead of its start.
KoboToMoonEnd(book, loc) ==
    LET c == Lowest(Matches(book, loc.source))
        spans == Spans(book, c) IN
    IF Matches(book, loc.source) # {} /\ WithId(spans, loc.span) # {}
    THEN [chapter |-> c, offset |-> spans[Lowest(WithId(spans, loc.span))].end]
    ELSE None

\* The first chapter of the spine that has the location's document, and the
\* start of the span; timestamp and section stay those of the old position.
KoboToMoon(book, loc) ==
    LET c == Lowest(Matches(book, loc.source))
        spans == Spans(book, c) IN
    IF Matches(book, loc.source) # {} /\ WithId(spans, loc.span) # {}
    THEN [chapter |-> c, offset |-> spans[Lowest(WithId(spans, loc.span))].start]
    ELSE None

----------------------------------------------------------------------------
(* What the translations rest on, and what they keep. *)

\* Spans follow each other: what the walk's running offset gives them.
Ordered(spans) ==
    /\ spans \in Seq([id : Nat, start : Nat, end : Nat])
    /\ \A i \in DOMAIN spans : spans[i].start <= spans[i].end /\ spans[i].id = i
    /\ \A i, j \in DOMAIN spans : i < j => spans[i].end <= spans[j].start

HoldsText(span) == span.start < span.end

\* No other chapter before c goes by a name of c's document.
Clear(book, c) == \A d \in Chapters(book) : d < c => Sources(book, d) \intersect Sources(book, c) = {}

\* Span i stands for a reader at offset o: the reader is in it, or before it
\* with no text between, or behind all text with i the last span.
StandsFor(spans, i, o) ==
    \/ o < spans[i].end /\ \A k \in 1 .. i - 1 : HoldsText(spans[k]) => spans[k].end <= o
    \/ i = Len(spans) /\ \A k \in DOMAIN spans : spans[k].end <= o
=============================================================================
