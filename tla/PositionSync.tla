----------------------------- MODULE PositionSync -----------------------------
(***************************************************************************)
(* A place in a book as it travels between Moon+ and Kobo: Moon+ leaves it *)
(* in the .po file, pushBackendState sends its translation, Kobo readers   *)
(* move it, applyRemoteExact writes it back (app.go, with the translations *)
(* of epub_position.go), any number of times in any order.  Which way it   *)
(* goes when is decided by percentages, in SyncEngine.tla; here it may go  *)
(* either way at any time.                                                 *)
(*                                                                         *)
(* fileRead and locationRead are history variables: the place where a      *)
(* person really was, which the file and the backend's location come from. *)
(***************************************************************************)
EXTENDS EpubPositions

CONSTANTS
    Books,         \* EPUB files a book may be mapped to
    Replacements   \* those it may be mapped to later

\* A book has a spine, and its documents are sequences of pieces.
ASSUME BooksAssumption ==
    /\ Replacements \subseteq Books
    /\ \A b \in Books :
          /\ Len(b.spine) \in Nat \ {0}
          /\ \A c \in Chapters(b) : HasDocument(b, c) => Document(b, c) \in Seq(Piece)

Position == [chapter: Nat, offset: Nat]

ASSUME NoneAssumption == None \notin Books \union Position

VARIABLES
    edition,       \* the mounted EPUB the mapping names; None without one
    file,          \* the .po file: chapter and offset
    location,      \* the backend's location
    fileRead,      \* history: the place the file's position comes from
    locationRead   \* history: the place the backend's location comes from

posVars == <<edition, file, location, fileRead, locationRead>>

\* Types; a place without the position it led to is no place.
PositionTypeOK ==
    /\ edition \in Books \union {None}
    /\ file \in Position \union {None}
    /\ location # None => DOMAIN location = {"source", "span"}
    /\ fileRead \in Position \union {None}
    /\ locationRead \in Position \union {None}
    /\ fileRead # None => file # None /\ edition # None
    /\ locationRead # None => edition # None

PositionInit ==
    /\ edition \in Books \union {None}
    /\ file = None /\ location = None
    /\ fileRead = None /\ locationRead = None

----------------------------------------------------------------------------
\* Moon+ uploads where its reader is, in a copy of the mounted EPUB.
MoonReads(c, o) ==
    /\ file' = [chapter |-> c, offset |-> o]
    /\ fileRead' = file'
    /\ UNCHANGED <<edition, location, locationRead>>

\* A Kobo reader is at a span.
KoboReads(c, i, source) ==
    /\ location' = [source |-> source, span |-> Spans(edition, c)[i].id]
    /\ locationRead' = [chapter |-> c, offset |-> Spans(edition, c)[i].start]
    /\ UNCHANGED <<edition, file, fileRead>>

\* A push with exact positions; without a translation it sends the percentage
\* alone, and the backend has no location then.
Push ==
    /\ file # None
    /\ location' = IF edition = None THEN None ELSE MoonToKobo(edition, file)
    /\ locationRead' = IF location' = None THEN None ELSE fileRead
    /\ UNCHANGED <<edition, file, fileRead>>

\* Fault: writes whatever the translation gives.
PullUnchecked ==
    /\ file # None /\ location # None /\ edition # None
    /\ file' = KoboToMoon(edition, location)
    /\ fileRead' = locationRead
    /\ UNCHANGED <<edition, location, locationRead>>

\* A pull: there is a file to take the timestamp from, and a translation.
Pull ==
    /\ file # None /\ location # None /\ edition # None
    /\ KoboToMoon(edition, location) # None
    /\ file' = KoboToMoon(edition, location)
    /\ fileRead' = locationRead
    /\ UNCHANGED <<edition, location, locationRead>>

\* The mapping names another EPUB, or the file was replaced: what was read
\* before has no known place in it.
Replace(b) ==
    /\ edition' = b
    /\ fileRead' = None /\ locationRead' = None
    /\ UNCHANGED <<file, location>>

PositionNext ==
    \/ /\ edition # None
       /\ \E c \in Chapters(edition) :
              \/ \E o \in 0 .. Length(edition, c) : MoonReads(c, o)
              \/ \E i \in DOMAIN Spans(edition, c), s \in Sources(edition, c) : KoboReads(c, i, s)
    \/ Push \/ Pull
    \/ \E b \in Replacements \union {None} : Replace(b)

PositionSpec == PositionInit /\ [][PositionNext]_posVars

----------------------------------------------------------------------------
\* Where a chapter's names are its own, a position that has gone back and forth
\* any number of times still stands for the place where somebody was: it has
\* skipped no text and lies no further back than the start of a span.
FileKeepsPlace ==
    fileRead # None /\ Clear(edition, fileRead.chapter) =>
        /\ file.chapter = fileRead.chapter
        /\ \/ file = fileRead
           \/ LET spans == Spans(edition, file.chapter) IN
              \E i \in DOMAIN spans : /\ file.offset = spans[i].start
                                      /\ StandsFor(spans, i, fileRead.offset)

LocationKeepsPlace ==
    locationRead # None /\ Clear(edition, locationRead.chapter) =>
        LET spans == Spans(edition, locationRead.chapter) IN
        /\ location.source \in Sources(edition, locationRead.chapter)
        /\ \E i \in DOMAIN spans : /\ location.span = spans[i].id
                                   /\ \/ locationRead.offset = spans[i].start
                                      \/ StandsFor(spans, i, locationRead.offset)

PlaceKept == FileKeepsPlace /\ LocationKeepsPlace

\* The inductive invariant: a place is in a chapter of the edition.
PositionInv ==
    /\ PositionTypeOK
    /\ fileRead # None => fileRead.chapter \in Chapters(edition)
    /\ locationRead # None => locationRead.chapter \in Chapters(edition)
    /\ PlaceKept

\* A location adopted from Kobo comes back as the same span: sync alone does
\* not move a Kobo reader, unless it is at an image or the chapter's document
\* has a second name.
NoDrift ==
    [][Pull =>
        LET c == file'.chapter IN
        (\A i \in WithId(Spans(edition, c), location.span) : HoldsText(Spans(edition, c)[i]))
            => MoonToKobo(edition, file').span = location.span]_posVars
=============================================================================
