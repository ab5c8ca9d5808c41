-------------------------- MODULE PositionSyncProofs --------------------------
(***************************************************************************)
(* Places survive the translations of PositionSync: for any books, any     *)
(* edits of the mapping, and pushes and pulls in any number and order.     *)
(*                                                                         *)
(* koboSpans makes spans that follow each other of any document: what the  *)
(* walk has made so far ends where the walk is (SpansOrdered).             *)
(*                                                                         *)
(* The argument: the start of a span with text is translated to that very  *)
(* span; the start of one without text to the next span that ends after    *)
(* it, and what lies between is without text too (StartKeepsStanding).  So *)
(* going round never moves a place beyond text nobody read.                *)
(***************************************************************************)
EXTENDS PositionSync, FiniteSetTheorems, SequenceTheorems, TLAPS

\* A minimal initial part of S ends in the lowest element of S.
LEMMA LowestIsLowest ==
    ASSUME NEW S, S \subseteq Nat, S # {}
    PROVE  Lowest(S) \in S /\ \A j \in S : Lowest(S) <= j
<1> DEFINE Part(x) == S \intersect (0 .. x)
           Parts == {Part(x) : x \in S}
<1>1. Parts \subseteq FiniteSubsetsOf(Nat) /\ Parts # {}
  <2>1. \A x \in S : IsFiniteSet(0 .. x) BY FS_Interval
  <2>2. \A x \in S : Part(x) \subseteq 0 .. x /\ Part(x) \subseteq Nat OBVIOUS
  <2>3. \A x \in S : IsFiniteSet(Part(x)) BY <2>1, <2>2, FS_Subset
  <2> QED BY <2>2, <2>3 DEF FiniteSubsetsOf
<1>2. PICK P \in Parts : \A Q \in Parts : <<Q, P>> \notin StrictSubsetOrdering(Nat)
  <2>1. IsWellFoundedOn(StrictSubsetOrdering(Nat), FiniteSubsetsOf(Nat))
    BY FS_StrictSubsetOrderingWellFounded
  <2> HIDE DEF Parts
  <2> QED BY <1>1, <2>1, WFMin
<1>3. PICK x \in S : P = Part(x) OBVIOUS
<1>4. ASSUME NEW y \in S, y < x PROVE FALSE
  <2>1. Part(y) \subseteq Part(x) /\ Part(y) # Part(x) /\ Part(y) \subseteq Nat /\ Part(x) \subseteq Nat
    <3>1. x \in Part(x) /\ x \notin Part(y) BY <1>4
    <3>2. Part(y) \subseteq Part(x) BY <1>4
    <3> QED BY <3>1, <3>2
  <2>2. <<Part(y), P>> \in StrictSubsetOrdering(Nat)
    BY <1>3, <2>1 DEF StrictSubsetOrdering
  <2> QED BY <1>2, <2>2
<1>5. \A j \in S : x <= j BY <1>4
<1> QED BY <1>5 DEF Lowest

----------------------------------------------------------------------------
(* Spans that follow each other. *)

LEMMA SpansTyped ==
    ASSUME NEW spans, Ordered(spans)
    PROVE  /\ Len(spans) \in Nat /\ DOMAIN spans = 1 .. Len(spans)
           /\ \A i \in DOMAIN spans : /\ spans[i].start \in Nat /\ spans[i].end \in Nat
                                      /\ spans[i].start <= spans[i].end
                                      /\ spans[i].id = i
           /\ \A i, j \in DOMAIN spans : i < j => spans[i].end <= spans[j].start
<1>1. spans \in Seq([id : Nat, start : Nat, end : Nat]) BY DEF Ordered
<1>2. Len(spans) \in Nat /\ DOMAIN spans = 1 .. Len(spans) BY <1>1
<1>3. \A i \in DOMAIN spans : spans[i] \in [id : Nat, start : Nat, end : Nat]
  <2> DEFINE Span == [id : Nat, start : Nat, end : Nat]
  <2>1. spans \in Seq(Span) BY <1>1
  <2> HIDE DEF Span
  <2>2. \A i \in DOMAIN spans : spans[i] \in Span BY <1>2, <2>1
  <2> QED BY <2>2 DEF Span
<1>4. \A i \in DOMAIN spans : spans[i].start \in Nat /\ spans[i].end \in Nat
  BY <1>3
<1> QED BY <1>2, <1>4 DEF Ordered

----------------------------------------------------------------------------
(***************************************************************************)
(* The walk of a document.  It is a recursive function: that there is one, *)
(* and what holds at each of its steps, is shown by the least step at      *)
(* which it would fail.                                                    *)
(***************************************************************************)

\* g is the walk of the first n pieces.
Walks(g, doc, n) ==
    g = [i \in 0 .. n |-> IF i = 0 THEN [offset |-> 0, spans |-> <<>>]
                                   ELSE Passed(g[i - 1], doc[i])]

\* A walk of n pieces goes on with piece n + 1.
LEMMA WalkGoesOn ==
    ASSUME NEW doc, NEW n \in Nat, NEW g, Walks(g, doc, n)
    PROVE  \E h : Walks(h, doc, n + 1)
<1> DEFINE h == [i \in 0 .. n + 1 |-> IF i = n + 1 THEN Passed(g[n], doc[n + 1]) ELSE g[i]]
<1>1. \A i \in 0 .. n : g[i] = IF i = 0 THEN [offset |-> 0, spans |-> <<>>]
                                        ELSE Passed(g[i - 1], doc[i])
  BY DEF Walks
<1>2. \A i \in 0 .. n + 1 : h[i] = IF i = 0 THEN [offset |-> 0, spans |-> <<>>]
                                            ELSE Passed(h[i - 1], doc[i])
  <2> SUFFICES ASSUME NEW i \in 0 .. n + 1
               PROVE  h[i] = IF i = 0 THEN [offset |-> 0, spans |-> <<>>]
                                      ELSE Passed(h[i - 1], doc[i])
    OBVIOUS
  <2>1. CASE i = n + 1
    <3>1. i # 0 /\ i - 1 = n /\ i - 1 \in 0 .. n + 1 /\ n # n + 1 BY <2>1
    <3>2. h[i - 1] = g[n] BY <3>1
    <3> QED BY <2>1, <3>1, <3>2
  <2>2. CASE i # n + 1 /\ i # 0
    <3>1. i \in 0 .. n /\ i - 1 \in 0 .. n + 1 /\ i - 1 # n + 1 BY <2>2
    <3>2. h[i - 1] = g[i - 1] /\ h[i] = g[i] BY <2>2, <3>1
    <3> QED BY <1>1, <2>2, <3>1, <3>2
  <2>3. CASE i # n + 1 /\ i = 0
    BY <1>1, <2>3
  <2> QED BY <2>1, <2>2, <2>3
<1>3. Walks(h, doc, n + 1)
  <2>1. h = [i \in 0 .. n + 1 |-> h[i]] OBVIOUS
  <2> HIDE DEF h
  <2> QED BY <1>2, <2>1 DEF Walks
<1> QED BY <1>3

LEMMA WalkExists ==
    ASSUME NEW doc, NEW n \in Nat
    PROVE  \E g : Walks(g, doc, n)
<1> DEFINE Short == {m \in Nat : ~ \E g : Walks(g, doc, m)}
<1>1. ASSUME Short # {} PROVE FALSE
  <2> DEFINE m == Lowest(Short)
  <2>1. m \in Short /\ \A j \in Short : m <= j
    <3>1. Short \subseteq Nat OBVIOUS
    <3> HIDE DEF Short
    <3> QED BY <1>1, <3>1, LowestIsLowest
  <2> HIDE DEF m
  <2>2. m \in Nat /\ ~ \E g : Walks(g, doc, m) BY <2>1
  <2>3. CASE m = 0
    <3> DEFINE h == [i \in 0 .. 0 |-> [offset |-> 0, spans |-> <<>>]]
    <3>1. Walks(h, doc, 0) BY DEF Walks
    <3> QED BY <2>2, <2>3, <3>1
  <2>4. CASE m # 0
    <3>1. m - 1 \in Nat /\ (m - 1) + 1 = m /\ ~(m <= m - 1) BY <2>2, <2>4
    <3>2. PICK g : Walks(g, doc, m - 1) BY <2>1, <3>1
    <3>3. \E h : Walks(h, doc, m) BY <3>1, <3>2, WalkGoesOn
    <3> QED BY <2>2, <3>3
  <2> QED BY <2>3, <2>4
<1> QED BY <1>1

\* The walk is what its definition says.
LEMMA WalkToDef ==
    ASSUME NEW doc, Len(doc) \in Nat
    PROVE  Walks(WalkTo(doc), doc, Len(doc))
<1>1. \E g : Walks(g, doc, Len(doc)) BY WalkExists
<1>2. WalkTo(doc) = CHOOSE g : Walks(g, doc, Len(doc)) BY DEF WalkTo, Walks
<1> QED BY <1>1, <1>2

\* What the walk has at each piece: numbered spans that follow each other and
\* end where it is at the latest.
Sound(walk) ==
    /\ walk.offset \in Nat
    /\ Ordered(walk.spans)
    /\ \A k \in DOMAIN walk.spans : walk.spans[k].end <= walk.offset

LEMMA PassedSound ==
    ASSUME NEW walk, Sound(walk), NEW piece \in Piece
    PROVE  Sound(Passed(walk, piece))
<1> DEFINE spans == walk.spans
           offset == walk.offset + piece.len
           span == [id |-> Len(spans) + 1, start |-> walk.offset, end |-> offset]
           more == Append(spans, span)
           Span == [id : Nat, start : Nat, end : Nat]
<1>1. /\ walk.offset \in Nat /\ offset \in Nat /\ walk.offset <= offset
      /\ spans \in Seq(Span) /\ Len(spans) \in Nat /\ DOMAIN spans = 1 .. Len(spans)
  BY DEF Sound, Piece, Ordered
<1>2. /\ \A i \in DOMAIN spans : /\ spans[i].start \in Nat /\ spans[i].end \in Nat
                                  /\ spans[i].start <= spans[i].end /\ spans[i].id = i
                                  /\ spans[i].end <= walk.offset
      /\ \A i, j \in DOMAIN spans : i < j => spans[i].end <= spans[j].start
  BY SpansTyped DEF Sound
<1>3. span \in Span /\ span.id = Len(spans) + 1 /\ span.start = walk.offset /\ span.end = offset
  BY <1>1
<1>4. CASE ~piece.span
  <2>1. Passed(walk, piece) = [offset |-> offset, spans |-> spans] BY <1>4 DEF Passed
  <2>2. /\ Passed(walk, piece).offset = offset
        /\ Passed(walk, piece).spans = spans
    BY <2>1
  <2>3. Ordered(spans) BY DEF Sound
  <2>4. \A k \in DOMAIN spans : spans[k].end <= offset BY <1>1, <1>2
  <2> HIDE DEF spans, offset
  <2> QED BY <1>1, <2>2, <2>3, <2>4 DEF Sound
<1>5. CASE piece.span
  <2>1. Passed(walk, piece) = [offset |-> offset, spans |-> more] BY <1>5 DEF Passed
  <2> HIDE DEF Span, span, spans
  <2>2. /\ more \in Seq(Span) /\ DOMAIN more = 1 .. Len(spans) + 1
        /\ more[Len(spans) + 1] = span
        /\ \A i \in DOMAIN spans : more[i] = spans[i]
    BY <1>1, <1>3, AppendProperties
  <2> HIDE DEF more, spans, offset
  <2>3. \A i \in DOMAIN more : i \in DOMAIN spans \/ i = Len(spans) + 1
    BY <1>1, <2>2
  <2>4. \A i \in DOMAIN more : /\ more[i].start <= more[i].end /\ more[i].id = i
                               /\ more[i].end <= offset
    BY <1>1, <1>2, <1>3, <2>2, <2>3
  <2>5. \A i, j \in DOMAIN more : i < j => more[i].end <= more[j].start
    BY <1>1, <1>2, <1>3, <2>2, <2>3
  <2>6. Ordered(more) BY <2>2, <2>4, <2>5 DEF Ordered, Span
  <2> QED BY <1>1, <2>1, <2>4, <2>6 DEF Sound
<1> QED BY <1>4, <1>5 DEF Piece

LEMMA WalkIsSound ==
    ASSUME NEW doc \in Seq(Piece)
    PROVE  Sound(Walk(doc))
<1> DEFINE walk == WalkTo(doc)
           Unsound == {i \in 0 .. Len(doc) : ~Sound(walk[i])}
<1>1. Len(doc) \in Nat BY LenProperties
<1>2. \A i \in 0 .. Len(doc) : walk[i] = IF i = 0 THEN [offset |-> 0, spans |-> <<>>]
                                                  ELSE Passed(walk[i - 1], doc[i])
  BY <1>1, WalkToDef DEF Walks
<1> HIDE DEF walk
<1>3. ASSUME Unsound # {} PROVE FALSE
  <2> DEFINE i == Lowest(Unsound)
  <2>1. i \in Unsound /\ \A j \in Unsound : i <= j
    <3>1. Unsound \subseteq Nat OBVIOUS
    <3> HIDE DEF Unsound
    <3> QED BY <1>3, <3>1, LowestIsLowest
  <2> HIDE DEF i
  <2>2. i \in 0 .. Len(doc) /\ ~Sound(walk[i]) BY <2>1
  <2>3. CASE i = 0
    <3>1. walk[i] = [offset |-> 0, spans |-> <<>>] BY <1>2, <2>2, <2>3
    <3>2. Ordered(<<>>) BY DEF Ordered
    <3> QED BY <2>2, <3>1, <3>2 DEF Sound
  <2>4. CASE i # 0
    <3>1. i - 1 \in 0 .. Len(doc) /\ i \in 1 .. Len(doc) /\ ~(i <= i - 1)
      BY <1>1, <2>2, <2>4
    <3>2. Sound(walk[i - 1]) BY <2>1, <3>1
    <3>3. doc[i] \in Piece BY <3>1, ElementOfSeq
    <3>4. walk[i] = Passed(walk[i - 1], doc[i]) BY <1>2, <2>2, <2>4
    <3> QED BY <2>2, <3>2, <3>3, <3>4, PassedSound
  <2> QED BY <2>3, <2>4
<1>4. Len(doc) \in 0 .. Len(doc) BY <1>1
<1> QED BY <1>3, <1>4 DEF Walk, walk

\* The spans of every document follow each other, also those without text at
\* its start, whose ends are set when the walk is over.
THEOREM SpansOrdered ==
    ASSUME NEW doc \in Seq(Piece)
    PROVE  Ordered(KoboSpans(doc)) /\ Walk(doc).offset \in Nat
<1> DEFINE spans == Walk(doc).spans
           offset == Walk(doc).offset
           after == [k \in DOMAIN spans |-> IF k < Len(spans) THEN spans[k + 1].start ELSE offset]
           Span == [id : Nat, start : Nat, end : Nat]
           fixed == [k \in DOMAIN spans |-> [spans[k] EXCEPT !.end = IF @ = 0 THEN after[k] ELSE @]]
<1>1. /\ offset \in Nat /\ Ordered(spans)
      /\ \A k \in DOMAIN spans : spans[k].end <= offset
  BY WalkIsSound DEF Sound
<1>2. KoboSpans(doc) = fixed BY DEF KoboSpans
<1> HIDE DEF spans, offset
<1>3. /\ Len(spans) \in Nat /\ DOMAIN spans = 1 .. Len(spans)
      /\ \A i \in DOMAIN spans : /\ spans[i].start \in Nat /\ spans[i].end \in Nat
                                  /\ spans[i].start <= spans[i].end
                                  /\ spans[i].id = i
      /\ \A i, j \in DOMAIN spans : i < j => spans[i].end <= spans[j].start
  BY <1>1, SpansTyped
<1>4. \A k \in DOMAIN spans : /\ after[k] \in Nat
                              /\ spans[k].end <= after[k]
                              /\ \A j \in DOMAIN spans : k < j => after[k] <= spans[j].start
  <2> SUFFICES ASSUME NEW k \in DOMAIN spans
               PROVE  /\ after[k] \in Nat
                      /\ spans[k].end <= after[k]
                      /\ \A j \in DOMAIN spans : k < j => after[k] <= spans[j].start
    OBVIOUS
  <2>1. CASE k < Len(spans)
    <3>1. k + 1 \in DOMAIN spans /\ k < k + 1 /\ after[k] = spans[k + 1].start
      BY <1>3, <2>1
    <3>2. \A j \in DOMAIN spans : k < j => j = k + 1 \/ k + 1 < j BY <1>3
    <3>3. \A j \in DOMAIN spans : k < j => spans[k + 1].start <= spans[j].start
      BY <1>3, <3>1, <3>2
    <3> HIDE DEF after
    <3> QED BY <1>3, <3>1, <3>3
  <2>2. CASE ~(k < Len(spans))
    <3>1. after[k] = offset /\ \A j \in DOMAIN spans : ~(k < j) BY <1>3, <2>2
    <3> HIDE DEF after
    <3> QED BY <1>1, <3>1
  <2> QED BY <2>1, <2>2
<1> HIDE DEF after
<1>5. spans \in Seq(Span) BY <1>1 DEF Ordered
<1>6. \A k \in DOMAIN spans : spans[k] \in Span
  <2> HIDE DEF Span
  <2> QED BY <1>3, <1>5
<1>7. \A k \in DOMAIN spans :
          /\ fixed[k] \in Span /\ fixed[k].id = k /\ fixed[k].start = spans[k].start
          /\ fixed[k].end = IF spans[k].end = 0 THEN after[k] ELSE spans[k].end
  BY <1>3, <1>4, <1>6
<1>8. fixed \in Seq(Span) /\ DOMAIN fixed = DOMAIN spans
  <2>1. DOMAIN fixed = 1 .. Len(spans) BY <1>3
  <2> HIDE DEF Span
  <2>2. fixed \in [1 .. Len(spans) -> Span] BY <1>3, <1>7, <2>1
  <2> QED BY <1>3, <2>1, <2>2, SeqDef
<1> HIDE DEF fixed
<1>9. \A k \in DOMAIN fixed : fixed[k].start <= fixed[k].end /\ fixed[k].id = k
  BY <1>3, <1>4, <1>7, <1>8
<1>10. \A i, j \in DOMAIN fixed : i < j => fixed[i].end <= fixed[j].start
  <2> SUFFICES ASSUME NEW i \in DOMAIN spans, NEW j \in DOMAIN spans, i < j
               PROVE  fixed[i].end <= fixed[j].start
    BY <1>8
  <2>1. fixed[j].start = spans[j].start BY <1>7
  <2>2. spans[i].end <= spans[j].start BY <1>3
  <2>3. after[i] <= spans[j].start BY <1>4
  <2>4. fixed[i].end = spans[i].end \/ fixed[i].end = after[i] BY <1>7
  <2> QED BY <2>1, <2>2, <2>3, <2>4
<1> QED BY <1>1, <1>2, <1>8, <1>9, <1>10 DEF Ordered, offset

----------------------------------------------------------------------------
(* The span an offset leads to. *)

\* The span chosen for an offset is the first that ends after it.
LEMMA SpanAtIsFirst ==
    ASSUME NEW spans, Ordered(spans), spans # <<>>, NEW o \in Nat
    PROVE  /\ SpanAt(spans, o) \in DOMAIN spans
           /\ \/ /\ o < spans[SpanAt(spans, o)].end
                 /\ \A k \in DOMAIN spans : k < SpanAt(spans, o) => spans[k].end <= o
              \/ /\ SpanAt(spans, o) = Len(spans)
                 /\ \A k \in DOMAIN spans : spans[k].end <= o
<1> DEFINE after == {i \in DOMAIN spans : o < spans[i].end}
<1>1. /\ Len(spans) \in Nat /\ DOMAIN spans = 1 .. Len(spans)
      /\ \A i \in DOMAIN spans : spans[i].end \in Nat
  BY SpansTyped
<1>2. Len(spans) \in DOMAIN spans
  <2>1. spans \in Seq([id : Nat, start : Nat, end : Nat]) BY DEF Ordered
  <2> QED BY <1>1, <2>1
<1>3. CASE after = {}
  BY <1>1, <1>2, <1>3 DEF SpanAt
<1>4. CASE after # {}
  <2>1. SpanAt(spans, o) = Lowest(after) BY <1>4 DEF SpanAt
  <2>2. after \subseteq Nat BY <1>1
  <2>3. Lowest(after) \in after /\ \A j \in after : Lowest(after) <= j
    <3> HIDE DEF after
    <3> QED BY <1>4, <2>2, LowestIsLowest
  <2>4. \A k \in DOMAIN spans : k < Lowest(after) => spans[k].end <= o
    <3>1. ASSUME NEW k \in DOMAIN spans, k < Lowest(after) PROVE ~(o < spans[k].end)
      <4>1. k \in Nat /\ Lowest(after) \in Nat BY <1>1, <2>2, <2>3
      <4>2. k \notin after
        <5> HIDE DEF after
        <5> QED BY <2>3, <3>1, <4>1
      <4> QED BY <4>2
    <3>2. \A k \in DOMAIN spans : ~(o < spans[k].end) => spans[k].end <= o
      BY <1>1
    <3> QED BY <3>1, <3>2
  <2> QED BY <2>1, <2>3, <2>4
<1> QED BY <1>3, <1>4

LEMMA SpanAtStands ==
    ASSUME NEW spans, Ordered(spans), spans # <<>>, NEW o \in Nat
    PROVE  StandsFor(spans, SpanAt(spans, o), o)
<1> DEFINE at == SpanAt(spans, o)
<1>1. Len(spans) \in Nat /\ DOMAIN spans = 1 .. Len(spans) BY SpansTyped
<1>2. /\ at \in DOMAIN spans
      /\ \/ /\ o < spans[at].end
            /\ \A k \in DOMAIN spans : k < at => spans[k].end <= o
         \/ at = Len(spans) /\ \A k \in DOMAIN spans : spans[k].end <= o
  BY SpanAtIsFirst
<1> HIDE DEF at
<1>3. \A k \in 1 .. at - 1 : k \in DOMAIN spans /\ k < at BY <1>1, <1>2
<1>4. StandsFor(spans, at, o) BY <1>2, <1>3 DEF StandsFor
<1> QED BY <1>4 DEF at

\* The start of a span with text lies in that very span.
LEMMA StartOfText ==
    ASSUME NEW spans, Ordered(spans), NEW i \in DOMAIN spans, HoldsText(spans[i])
    PROVE  SpanAt(spans, spans[i].start) = i
<1> DEFINE at == SpanAt(spans, spans[i].start)
<1>1. /\ DOMAIN spans = 1 .. Len(spans) /\ Len(spans) \in Nat
      /\ \A k \in DOMAIN spans : spans[k].start \in Nat /\ spans[k].end \in Nat
      /\ \A k, m \in DOMAIN spans : k < m => spans[k].end <= spans[m].start
  BY SpansTyped
<1>2. /\ at \in DOMAIN spans
      /\ \/ /\ spans[i].start < spans[at].end
            /\ \A k \in DOMAIN spans : k < at => spans[k].end <= spans[i].start
         \/ \A k \in DOMAIN spans : spans[k].end <= spans[i].start
  <2>1. spans[i].start \in Nat /\ spans # <<>> BY <1>1
  <2> QED BY <2>1, SpanAtIsFirst
<1> HIDE DEF at
<1>3. spans[i].start < spans[i].end BY DEF HoldsText
<1>4. at = i BY <1>1, <1>2, <1>3
<1> QED BY <1>4 DEF at

\* A span that stands for a reader still does after its start was translated:
\* only spans without text lie between it and the span its start leads to.
LEMMA StartKeepsStanding ==
    ASSUME NEW spans, Ordered(spans), NEW i \in DOMAIN spans, NEW o \in Nat,
           StandsFor(spans, i, o)
    PROVE  StandsFor(spans, SpanAt(spans, spans[i].start), o)
<1> DEFINE at == SpanAt(spans, spans[i].start)
<1>1. /\ DOMAIN spans = 1 .. Len(spans) /\ Len(spans) \in Nat
      /\ \A k \in DOMAIN spans : /\ spans[k].start \in Nat /\ spans[k].end \in Nat
                                 /\ spans[k].start <= spans[k].end
      /\ \A k, m \in DOMAIN spans : k < m => spans[k].end <= spans[m].start
  BY SpansTyped
<1>2. CASE HoldsText(spans[i])
  BY <1>2, StartOfText
<1>3. CASE ~HoldsText(spans[i])
  <2>1. spans[i].start = spans[i].end BY <1>1, <1>3 DEF HoldsText
  <2>2. /\ at \in DOMAIN spans
        /\ \/ /\ spans[i].end < spans[at].end
              /\ \A k \in DOMAIN spans : k < at => spans[k].end <= spans[i].end
           \/ /\ at = Len(spans)
              /\ \A k \in DOMAIN spans : spans[k].end <= spans[i].end
    <3>1. spans[i].start \in Nat /\ spans # <<>> BY <1>1
    <3>2. /\ at \in DOMAIN spans
          /\ \/ /\ spans[i].start < spans[at].end
                /\ \A k \in DOMAIN spans : k < at => spans[k].end <= spans[i].start
             \/ /\ at = Len(spans)
                /\ \A k \in DOMAIN spans : spans[k].end <= spans[i].start
      BY <3>1, SpanAtIsFirst
    <3> QED BY <2>1, <3>2
  <2> HIDE DEF at
  <2>3. i <= at BY <1>1, <2>2
  <2>4. CASE /\ o < spans[i].end
             /\ \A k \in 1 .. i - 1 : HoldsText(spans[k]) => spans[k].end <= o
    <3>1. spans[i].end <= spans[at].end BY <1>1, <2>2, <2>3
    <3>2. ASSUME NEW k \in 1 .. at - 1, HoldsText(spans[k]) PROVE spans[k].end <= o
      <4>1. k \in DOMAIN spans /\ spans[k].end <= spans[i].end
        BY <1>1, <2>2
      <4>2. spans[k].start < spans[k].end BY <3>2 DEF HoldsText
      <4>3. ~(k > i) BY <1>1, <4>1, <4>2
      <4>4. k # i BY <1>3, <3>2
      <4> QED BY <1>1, <2>4, <3>2, <4>1, <4>3, <4>4
    <3>3. o < spans[at].end BY <1>1, <2>2, <2>4, <3>1
    <3> QED BY <3>2, <3>3 DEF StandsFor, at
  <2>5. CASE i = Len(spans) /\ \A k \in DOMAIN spans : spans[k].end <= o
    <3>1. at = Len(spans) BY <1>1, <2>2, <2>3, <2>5
    <3> QED BY <2>5, <3>1 DEF StandsFor, at
  <2> QED BY <2>4, <2>5 DEF StandsFor
<1> QED BY <1>2, <1>3

----------------------------------------------------------------------------
(* The translations. *)

\* What the assumption and the walk give for a book.
LEMMA BookFacts ==
    ASSUME NEW b \in Books, NEW c \in Chapters(b)
    PROVE  c \in Nat /\ Ordered(Spans(b, c)) /\ Length(b, c) \in Nat
<1>1. Len(b.spine) \in Nat BY BooksAssumption
<1>2. c \in Nat BY <1>1 DEF Chapters
<1>3. CASE HasDocument(b, c)
  <2>1. Document(b, c) \in Seq(Piece) BY <1>3, BooksAssumption
  <2>2. Ordered(KoboSpans(Document(b, c))) /\ Walk(Document(b, c)).offset \in Nat
    BY <2>1, SpansOrdered
  <2> QED BY <1>2, <1>3, <2>2 DEF Spans, Length
<1>4. CASE ~HasDocument(b, c)
  <2>1. Ordered(<<>>) BY DEF Ordered
  <2> QED BY <1>2, <1>4, <2>1 DEF Spans, Length
<1> QED BY <1>3, <1>4

\* In ordered spans an id names one span.
LEMMA IdNamesOne ==
    ASSUME NEW spans, Ordered(spans), NEW id, WithId(spans, id) # {}
    PROVE  /\ id \in DOMAIN spans /\ WithId(spans, id) = {id}
           /\ Lowest(WithId(spans, id)) = id
<1>1. \A i \in DOMAIN spans : spans[i].id = i BY DEF Ordered
<1>2. id \in DOMAIN spans /\ WithId(spans, id) = {id} BY <1>1 DEF WithId
<1>3. DOMAIN spans \subseteq Nat BY SpansTyped
<1>4. Lowest({id}) = id BY <1>2, <1>3, LowestIsLowest
<1> QED BY <1>2, <1>4

\* What a push finds.
LEMMA MoonToKoboFacts ==
    ASSUME NEW b \in Books, NEW pos \in Position, MoonToKobo(b, pos) # None
    PROVE  LET spans == Spans(b, pos.chapter)
               at == SpanAt(spans, pos.offset) IN
           /\ pos.chapter \in Chapters(b) /\ Ordered(spans) /\ spans # <<>>
           /\ at \in DOMAIN spans
           /\ DOMAIN MoonToKobo(b, pos) = {"source", "span"}
           /\ MoonToKobo(b, pos).source \in Sources(b, pos.chapter)
           /\ MoonToKobo(b, pos).span = spans[at].id
<1> DEFINE spans == Spans(b, pos.chapter)
           at == SpanAt(spans, pos.offset)
<1>1. pos.chapter \in Chapters(b) /\ spans # <<>> /\ pos.offset \in Nat
  BY DEF MoonToKobo, Position
<1>2. MoonToKobo(b, pos) = [source |-> b.manifest[Item(b, pos.chapter)], span |-> spans[at].id]
  BY <1>1 DEF MoonToKobo
<1>3. Ordered(spans) BY <1>1, BookFacts
<1>4. at \in DOMAIN spans BY <1>1, <1>3, SpanAtIsFirst
<1>5. Item(b, pos.chapter) \in DOMAIN b.manifest BY <1>1 DEF Spans, HasDocument
<1>6. b.manifest[Item(b, pos.chapter)] \in Sources(b, pos.chapter)
  BY <1>5 DEF Sources
<1> QED BY <1>1, <1>2, <1>3, <1>4, <1>6

\* What a pull finds: the first chapter with the location's document, and the
\* start of the location's span.
LEMMA KoboToMoonFacts ==
    ASSUME NEW b \in Books, NEW loc, KoboToMoon(b, loc) # None
    PROVE  LET c == Lowest(Matches(b, loc.source))
               spans == Spans(b, c) IN
           /\ c \in Matches(b, loc.source) /\ c \in Chapters(b)
           /\ \A d \in Matches(b, loc.source) : c <= d
           /\ Ordered(spans) /\ WithId(spans, loc.span) # {}
           /\ loc.span \in DOMAIN spans
           /\ KoboToMoon(b, loc) = [chapter |-> c, offset |-> spans[loc.span].start]
           /\ KoboToMoon(b, loc) \in Position
<1> DEFINE c == Lowest(Matches(b, loc.source))
           spans == Spans(b, c)
<1>1. Matches(b, loc.source) # {} /\ WithId(spans, loc.span) # {}
  BY DEF KoboToMoon
<1>2. Matches(b, loc.source) \subseteq Nat /\ Matches(b, loc.source) \subseteq Chapters(b)
  BY BookFacts DEF Matches
<1>3. c \in Matches(b, loc.source) /\ \A d \in Matches(b, loc.source) : c <= d
  BY <1>1, <1>2, LowestIsLowest
<1>4. c \in Chapters(b) /\ c \in Nat /\ Ordered(spans) BY <1>2, <1>3, BookFacts
<1>5. loc.span \in DOMAIN spans /\ Lowest(WithId(spans, loc.span)) = loc.span
  BY <1>1, <1>4, IdNamesOne
<1>6. KoboToMoon(b, loc) = [chapter |-> c, offset |-> spans[loc.span].start]
  BY <1>1, <1>5 DEF KoboToMoon
<1>7. spans[loc.span].start \in Nat BY <1>4, <1>5, SpansTyped
<1> QED BY <1>1, <1>3, <1>4, <1>5, <1>6, <1>7 DEF Position

----------------------------------------------------------------------------
(* The invariant. *)

LEMMA PositionInitOK == PositionInit => PositionInv
BY DEF PositionInit, PositionInv, PositionTypeOK, PlaceKept, FileKeepsPlace, LocationKeepsPlace

LEMMA MoonReadsKeeps ==
    ASSUME PositionInv, edition # None, NEW c \in Chapters(edition),
           NEW o \in 0 .. Length(edition, c), MoonReads(c, o)
    PROVE  PositionInv'
<1>1. edition \in Books BY DEF PositionInv, PositionTypeOK
<1>2. c \in Nat /\ o \in Nat BY <1>1, BookFacts
<1>3. /\ file' = [chapter |-> c, offset |-> o] /\ fileRead' = file'
      /\ file' \in Position /\ file' # None
      /\ UNCHANGED <<edition, location, locationRead>>
  BY <1>2, NoneAssumption DEF MoonReads, Position
<1>4. PositionTypeOK' BY <1>3 DEF PositionInv, PositionTypeOK
<1>5. fileRead'.chapter \in Chapters(edition') BY <1>3
<1>6. FileKeepsPlace' BY <1>3 DEF FileKeepsPlace
<1>7. LocationKeepsPlace' BY <1>3 DEF PositionInv, PlaceKept, LocationKeepsPlace
<1> QED BY <1>3, <1>4, <1>5, <1>6, <1>7 DEF PositionInv, PlaceKept

LEMMA KoboReadsKeeps ==
    ASSUME PositionInv, edition # None, NEW c \in Chapters(edition),
           NEW i \in DOMAIN Spans(edition, c), NEW s \in Sources(edition, c),
           KoboReads(c, i, s)
    PROVE  PositionInv'
<1>1. edition \in Books BY DEF PositionInv, PositionTypeOK
<1>2. c \in Nat /\ Ordered(Spans(edition, c)) BY <1>1, BookFacts
<1>3. Spans(edition, c)[i].start \in Nat BY <1>2, SpansTyped
<1>4. /\ location' = [source |-> s, span |-> Spans(edition, c)[i].id]
      /\ locationRead' = [chapter |-> c, offset |-> Spans(edition, c)[i].start]
      /\ locationRead' \in Position /\ UNCHANGED <<edition, file, fileRead>>
  BY <1>2, <1>3 DEF KoboReads, Position
<1>5. PositionTypeOK' BY <1>4 DEF PositionInv, PositionTypeOK
<1>6. locationRead'.chapter \in Chapters(edition') BY <1>4
<1>7. FileKeepsPlace' BY <1>4 DEF PositionInv, PlaceKept, FileKeepsPlace
<1>8. LocationKeepsPlace' BY <1>4 DEF LocationKeepsPlace
<1> QED BY <1>4, <1>5, <1>6, <1>7, <1>8 DEF PositionInv, PlaceKept

\* A push: the span of the file's offset stands for where the reader was.
LEMMA PushKeeps == ASSUME PositionInv, Push PROVE PositionInv'
<1>1. UNCHANGED <<edition, file, fileRead>> /\ file \in Position
  BY DEF Push, PositionInv, PositionTypeOK
<1>2. CASE location' = None
  <2>1. locationRead' = None BY <1>2 DEF Push
  <2> QED BY <1>1, <1>2, <2>1 DEF PositionInv, PositionTypeOK, PlaceKept,
                                  FileKeepsPlace, LocationKeepsPlace
<1>3. CASE location' # None
  <2> DEFINE spans == Spans(edition, file.chapter)
             at == SpanAt(spans, file.offset)
  <2>1. /\ edition # None /\ edition \in Books
        /\ location' = MoonToKobo(edition, file) /\ locationRead' = fileRead
    BY <1>3 DEF Push, PositionInv, PositionTypeOK
  <2>2. /\ file.chapter \in Chapters(edition) /\ Ordered(spans) /\ spans # <<>>
        /\ at \in DOMAIN spans
        /\ DOMAIN location' = {"source", "span"}
        /\ location'.source \in Sources(edition, file.chapter)
        /\ location'.span = spans[at].id
    BY <1>1, <1>3, <2>1, MoonToKoboFacts
  <2>3. PositionTypeOK'
    BY <1>1, <2>1, <2>2 DEF PositionInv, PositionTypeOK
  <2>4. FileKeepsPlace' BY <1>1 DEF PositionInv, PlaceKept, FileKeepsPlace
  <2>5. LocationKeepsPlace'
    <3> SUFFICES ASSUME fileRead # None, Clear(edition, fileRead.chapter)
                 PROVE  /\ file.chapter = fileRead.chapter
                        /\ StandsFor(spans, at, fileRead.offset)
      BY <1>1, <2>1, <2>2 DEF LocationKeepsPlace
    <3>1. fileRead \in Position /\ fileRead.offset \in Nat
      BY DEF PositionInv, PositionTypeOK, Position
    <3>2. /\ file.chapter = fileRead.chapter
          /\ \/ file = fileRead
             \/ \E i \in DOMAIN spans : /\ file.offset = spans[i].start
                                        /\ StandsFor(spans, i, fileRead.offset)
      BY DEF PositionInv, PlaceKept, FileKeepsPlace
    <3>3. CASE file = fileRead BY <2>2, <3>1, <3>3, SpanAtStands
    <3>4. CASE \E i \in DOMAIN spans : /\ file.offset = spans[i].start
                                       /\ StandsFor(spans, i, fileRead.offset)
      BY <2>2, <3>1, <3>2, <3>4, StartKeepsStanding
    <3> QED BY <3>2, <3>3, <3>4
  <2> QED BY <1>1, <2>1, <2>3, <2>4, <2>5 DEF PositionInv, PlaceKept
<1> QED BY <1>2, <1>3

\* A pull: where the chapter's names are its own it is found again, and the
\* offset is the start of the location's span.
LEMMA PullKeeps == ASSUME PositionInv, Pull PROVE PositionInv'
<1> DEFINE c == Lowest(Matches(edition, location.source))
           spans == Spans(edition, c)
<1>1. /\ edition \in Books /\ KoboToMoon(edition, location) # None
      /\ file' = KoboToMoon(edition, location) /\ fileRead' = locationRead
      /\ UNCHANGED <<edition, location, locationRead>>
  BY DEF Pull, PositionInv, PositionTypeOK
<1>2. /\ c \in Matches(edition, location.source)
      /\ \A d \in Matches(edition, location.source) : c <= d
      /\ Ordered(spans) /\ location.span \in DOMAIN spans
      /\ file' = [chapter |-> c, offset |-> spans[location.span].start]
      /\ file' \in Position
  BY <1>1, KoboToMoonFacts
<1>3. file' # None BY <1>2, NoneAssumption
<1>4. PositionTypeOK' BY <1>1, <1>2, <1>3 DEF PositionInv, PositionTypeOK
<1>5. LocationKeepsPlace' BY <1>1 DEF PositionInv, PlaceKept, LocationKeepsPlace
<1>6. FileKeepsPlace'
  <2> SUFFICES ASSUME locationRead # None, Clear(edition, locationRead.chapter)
               PROVE  /\ c = locationRead.chapter
                      /\ \/ file' = locationRead
                         \/ StandsFor(spans, location.span, locationRead.offset)
    BY <1>1, <1>2 DEF FileKeepsPlace
  <2> DEFINE r == locationRead.chapter
  <2>1. /\ locationRead \in Position /\ r \in Chapters(edition) /\ r \in Nat
        /\ location.source \in Sources(edition, r)
    BY DEF PositionInv, PositionTypeOK, Position, PlaceKept, LocationKeepsPlace
  <2>2. c = r
    <3>1. r \in Matches(edition, location.source) BY <2>1 DEF Matches
    <3>2. c <= r /\ c \in Nat BY <1>1, <1>2, <3>1, BookFacts DEF Matches
    <3>3. ~(c < r)
      <4>1. location.source \in Sources(edition, c) BY <1>2 DEF Matches
      <4> QED BY <1>2, <2>1, <4>1 DEF Clear, Matches
    <3> QED BY <2>1, <3>2, <3>3
  <2>3. PICK i \in DOMAIN spans :
           /\ location.span = spans[i].id
           /\ \/ locationRead.offset = spans[i].start
              \/ StandsFor(spans, i, locationRead.offset)
    BY <2>2 DEF PositionInv, PlaceKept, LocationKeepsPlace
  <2>4. i = location.span BY <1>2, <2>3 DEF Ordered
  <2>5. CASE locationRead.offset = spans[i].start
    BY <1>2, <2>1, <2>2, <2>4, <2>5 DEF Position
  <2> QED BY <2>2, <2>3, <2>4, <2>5
<1>7. fileRead' # None => fileRead'.chapter \in Chapters(edition')
  BY <1>1 DEF PositionInv
<1> QED BY <1>1, <1>4, <1>5, <1>6, <1>7 DEF PositionInv, PlaceKept

LEMMA ReplaceKeeps ==
    ASSUME PositionInv, NEW b \in Replacements \union {None}, Replace(b)
    PROVE  PositionInv'
<1>1. b \in Books \union {None} BY BooksAssumption
<1> QED BY <1>1 DEF Replace, PositionInv, PositionTypeOK, PlaceKept,
                    FileKeepsPlace, LocationKeepsPlace

LEMMA PositionStep == PositionInv /\ [PositionNext]_posVars => PositionInv'
<1> SUFFICES ASSUME PositionInv, [PositionNext]_posVars PROVE PositionInv' OBVIOUS
<1>1. CASE /\ edition # None
           /\ \E c \in Chapters(edition) :
                  \/ \E o \in 0 .. Length(edition, c) : MoonReads(c, o)
                  \/ \E i \in DOMAIN Spans(edition, c), s \in Sources(edition, c) :
                         KoboReads(c, i, s)
  BY <1>1, MoonReadsKeeps, KoboReadsKeeps
<1>2. CASE Push BY <1>2, PushKeeps
<1>3. CASE Pull BY <1>3, PullKeeps
<1>4. CASE \E b \in Replacements \union {None} : Replace(b)
  BY <1>4, ReplaceKeeps
<1>5. CASE UNCHANGED posVars
  BY <1>5 DEF posVars, PositionInv, PositionTypeOK, PlaceKept, FileKeepsPlace, LocationKeepsPlace
<1> QED BY <1>1, <1>2, <1>3, <1>4, <1>5 DEF PositionNext

----------------------------------------------------------------------------
\* The inductive invariant: types, a place lies in a chapter, and it is kept.
THEOREM PositionInvariant == PositionSpec => []PositionInv
<1> QED BY PositionInitOK, PositionStep, PTL DEF PositionSpec

\* Types: a file's position is always one, so no failed translation is written.
THEOREM PositionTyped == PositionSpec => []PositionTypeOK
<1>1. PositionInv => PositionTypeOK BY DEF PositionInv
<1> QED BY <1>1, PositionInvariant, PTL

\* moonToKobo and koboToMoon, any number of times: no text is skipped and no
\* more than a span is lost.
THEOREM PositionKept == PositionSpec => []PlaceKept
<1>1. PositionInv => PlaceKept BY DEF PositionInv
<1> QED BY <1>1, PositionInvariant, PTL

\* A pull does not move the location it came from when it is pushed back.
THEOREM PositionNoDrift == PositionSpec => NoDrift
<1> DEFINE Back ==
        LET c == file'.chapter IN
        (\A i \in WithId(Spans(edition, c), location.span) : HoldsText(Spans(edition, c)[i]))
            => MoonToKobo(edition, file').span = location.span
<1>1. ASSUME PositionInv, Pull PROVE Back
  <2> DEFINE c == Lowest(Matches(edition, location.source))
             spans == Spans(edition, c)
  <2>1. edition \in Books /\ file' = KoboToMoon(edition, location) /\ file' # None
    BY <1>1 DEF Pull, PositionInv, PositionTypeOK
  <2>2. /\ c \in Chapters(edition) /\ Ordered(spans) /\ location.span \in DOMAIN spans
        /\ WithId(spans, location.span) # {}
        /\ file' = [chapter |-> c, offset |-> spans[location.span].start]
    BY <2>1, KoboToMoonFacts
  <2> SUFFICES ASSUME \A i \in WithId(spans, location.span) : HoldsText(spans[i])
               PROVE  MoonToKobo(edition, file').span = location.span
    BY <2>2
  <2>3. HoldsText(spans[location.span]) BY <2>2, IdNamesOne
  <2>4. SpanAt(spans, spans[location.span].start) = location.span
    BY <2>2, <2>3, StartOfText
  <2>5. spans # <<>> BY <2>2
  <2>6. MoonToKobo(edition, file') =
            [source |-> edition.manifest[Item(edition, c)], span |-> spans[location.span].id]
    BY <2>2, <2>4, <2>5 DEF MoonToKobo
  <2>7. spans[location.span].id = location.span BY <2>2 DEF Ordered
  <2> QED BY <2>6, <2>7
<1>2. PositionInv /\ [PositionNext]_posVars => [Pull => Back]_posVars
  BY <1>1
<1> QED BY <1>2, PositionInvariant, PTL DEF PositionSpec, NoDrift
=============================================================================
