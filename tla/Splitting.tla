----------------------------- MODULE Splitting -----------------------------
(***************************************************************************)
(* index/split: a document becomes chunks that are exact slices of it.     *)
(* A text is a sequence of characters, each a letter that stands for its   *)
(* class; offsets count from 0, and a span [start, end) is kept whole when *)
(* it is atomic and never mixed with a span of another group.              *)
(***************************************************************************)
EXTENDS Lists

CONSTANT Abbreviations   \* words, in lower case, whose full stop ends nothing

Space == "_"
Newline == "/"
White == {Space, Newline}
Digit == "1"
Upper == "A"
Lower == "a"
Stop == "."
Letters == {Upper, Lower}

Span(a, b) == [start |-> a, end |-> b, atomic |-> FALSE, group |-> 0]
Length(s) == s.end - s.start
Slice(text, a, b) == SubSeq(text, a + 1, b)

\* Where a separator begins inside [lo, hi), which is what find and rfind look for.
Found(text, sep, lo, hi) ==
    {p \in lo .. hi - Len(sep) : Slice(text, p, p + Len(sep)) = sep}

Ink(text, a, b) == {p \in a .. b - 1 : text[p + 1] \notin White}

----------------------------------------------------------------------------
(* index/split/base.py. *)

\* The slice without the white space around it.
Trimmed(text, s) ==
    LET ink == Ink(text, Max({s.start, 0}), Min({s.end, Len(text)}))
    IN  IF ink = {} THEN [s EXCEPT !.end = s.start]
        ELSE [s EXCEPT !.start = Min(ink), !.end = Max(ink) + 1]

\* normalize_spans: trimmed, in order, none inside another.
Normalized(spans, text) ==
    LET trimmed == SelectSeq([i \in DOMAIN spans |-> Trimmed(text, spans[i])],
                             LAMBDA s : Length(s) > 0)
        order == Ordered(DOMAIN trimmed, LAMBDA i, j :
                    LET s == trimmed[i] t == trimmed[j] IN
                    \/ s.start < t.start \/ (s.start = t.start /\ s.end < t.end)
                    \/ s.start = t.start /\ s.end = t.end /\ i < j)
        place(out, s) ==
            IF out = <<>> THEN <<s>>
            ELSE IF s.end <= Last(out).end THEN out
            ELSE IF s.start <= Last(out).start THEN Front(out) \o <<s>>
            ELSE Append(out, s)
    IN  FoldLeft(LAMBDA out, i : place(out, trimmed[i]), <<>>, order)

\* Span.merged_with.
MergedWith(s, t) == [s EXCEPT !.end = t.end, !.atomic = s.atomic \/ t.atomic]

\* Mutation: an atomic span is merged like any other.
MergeAll(spans, least, most) ==
    FoldLeft(LAMBDA out, s :
        IF out # <<>> /\ Length(s) < least /\ s.end - Last(out).start <= most
        THEN Front(out) \o <<MergedWith(Last(out), s)>> ELSE Append(out, s), <<>>, spans)

\* merge_small_spans: a fragment joins its neighbour when both may be mixed.
MergeSmall(spans, least, most) ==
    LET joins(p, s) ==
            /\ s.start >= p.end
            /\ Length(p) < least \/ Length(s) < least
            /\ ~p.atomic /\ ~s.atomic /\ p.group = s.group
            /\ s.end - p.start <= most
        add(out, s) == IF out # <<>> /\ joins(Last(out), s)
                       THEN Front(out) \o <<MergedWith(Last(out), s)>> ELSE Append(out, s)
    IN  IF least <= 0 THEN spans ELSE FoldLeft(add, <<>>, spans)

\* The separators of _best_cut, coarsest first.
CutMarks == <<<<Newline, Newline>>, <<Newline>>, <<Stop, Space>>, <<Space>>>>

\* _best_cut: after the last mark before the ideal place, or else before the
\* ceiling; a mark at the floor itself does not count.
BestCut(text, floor, ideal, ceiling) ==
    LET near(m) == Found(text, m, floor, Max({ideal, floor + 1}))
        hits(m) == IF near(m) # {} THEN near(m) ELSE Found(text, m, floor, ceiling)
        usable == {k \in DOMAIN CutMarks : \E p \in hits(CutMarks[k]) : p > floor}
        mark == CutMarks[Min(usable)]
    IN  IF usable = {} THEN ceiling ELSE Min({Max(hits(mark)) + Len(mark), ceiling})

\* _cut_to_size.
CutToSize(span, text, most, goal) ==
    LET half == Max({goal \div 2, 1})
        next(c) == LET ceiling == Min({c + most, span.end})
                   IN  BestCut(text, c + half, Min({c + goal, ceiling}), ceiling)
        pieces[c \in span.start .. span.end] ==
            IF span.end - c > most
            THEN <<[span EXCEPT !.start = c, !.end = next(c)]>> \o pieces[next(c)]
            ELSE <<[span EXCEPT !.start = c]>>
    IN  pieces[span.start]

\* split_oversized_spans: an atomic span stays whole, whatever its size.
SplitOversized(spans, text, most, target) ==
    LET goal == Max({Min({IF target = 0 THEN most ELSE target, most}), 1})
    IN  IF most <= 0 THEN spans
        ELSE FlattenSeq([i \in DOMAIN spans |->
                IF Length(spans[i]) <= most \/ spans[i].atomic THEN <<spans[i]>>
                ELSE CutToSize(spans[i], text, most, goal)])

\* _snap_forward: to the start of the next word, if one starts before the limit.
SnapForward(text, start, limit) ==
    LET blank == {p \in start .. limit - 1 : text[p + 1] \in White}
    IN  IF blank = {} THEN start ELSE Min(blank) + 1

\* apply_overlap: each span reaches back into the one before.
Overlapped(spans, text, overlap) ==
    LET back(p, s) ==
            LET start == Max({p.start + 1, s.start - overlap})
                snapped == IF start < s.start THEN SnapForward(text, start, s.start) ELSE start
            IN  IF s.atomic \/ p.atomic \/ p.group # s.group \/ snapped >= s.start
                THEN s ELSE [s EXCEPT !.start = snapped]
    IN  IF overlap <= 0 \/ Len(spans) < 2 THEN spans
        ELSE [i \in DOMAIN spans |-> IF i = 1 THEN spans[1] ELSE back(spans[i - 1], spans[i])]

\* BaseSplitter._refine, with the sizes of a splitter.
Refined(spans, text, sizes) ==
    LET merged == MergeSmall(spans, sizes.least, sizes.most)
        cut == SplitOversized(merged, text, sizes.most, sizes.target)
    IN  Normalized(Overlapped(cut, text, sizes.overlap), text)

\* _validate, which raises ValidationFailed otherwise.
Validates(spans, text, allowed) ==
    /\ \A i \in DOMAIN spans : 0 <= spans[i].start /\ spans[i].start < spans[i].end
                               /\ spans[i].end <= Len(text)
    /\ \A i \in 2 .. Len(spans) :
         /\ spans[i].start > spans[i - 1].start /\ spans[i].end > spans[i - 1].end
         /\ allowed # 0 - 1 => spans[i - 1].end - spans[i].start <= allowed

\* split and _assemble.
Split(spans, text, sizes) ==
    IF Ink(text, 0, Len(text)) = {} THEN <<>>
    ELSE Refined(Normalized(spans, text), text, sizes)

\* _is_false_boundary: a stop within a sentence.  The word before it is the
\* longest run of letters and stops that begins with a letter, or of digits.
FalseBoundary(text, from, to) ==
    LET after == Ink(text, to, Len(text))
        run(p, S) == \A q \in p .. from - 1 : text[q + 1] \in S
        words == {p \in 0 .. from - 1 : text[p + 1] \in Letters /\ run(p, Letters \cup {Stop})}
        tail == {p \in Min(words) .. from - 1 : run(p, Letters)}
        lowered == [k \in 1 .. Cardinality(tail) |-> Lower]
    IN  \/ after # {} /\ text[Min(after) + 1] = Lower
        \/ text[from + 1] = Stop /\ from > 0 /\ text[from] = Digit
        \/ /\ text[from + 1] = Stop /\ words # {}
           /\ Cardinality(tail) <= 1 \/ lowered \in Abbreviations

\* split_sentences.
Sentences(text) ==
    LET n == Len(text)
        breaks == {q + 1 : q \in {r \in 0 .. n - 1 : text[r + 1] = Newline /\ \E p \in 0 .. r - 1 :
                              text[p + 1] = Newline /\ \A m \in p + 1 .. r - 1 : text[m + 1] = Space}}
        stops == {p \in 0 .. n - 2 : text[p + 1] = Stop /\ text[p + 2] # Stop}
        from(p) == Min({q \in 0 .. p : \A r \in q .. p : text[r + 1] = Stop})
        ends == {p + 1 : p \in {q \in stops : text[q + 2] \in White
                                    /\ ~FalseBoundary(text, from(q), q + 1)}}
        take(out, b) ==
            LET cursor == IF out = <<>> THEN 0 ELSE Last(out).end
            IN  IF Ink(text, cursor, b) = {} THEN out ELSE Append(out, Span(cursor, b))
    IN  FoldLeft(take, <<>>,
            Ordered({b \in breaks \cup ends : b < n}, <) \o <<n>>)

----------------------------------------------------------------------------
(* index/split/recursive.py. *)

\* The separators of a recursive cut but for the empty last one.
Separators == <<<<Newline, Newline>>, <<Newline>>, <<Stop, Space>>, <<Space>>>>

\* _pieces_on: each separator stays with the piece it ends; found from the
\* left, so separators do not overlap.
PiecesOn(text, a, b, sep) ==
    LET next(c) == Found(text, sep, c, b)
        pieces[c \in a .. b] ==
            IF next(c) # {} THEN <<<<c, Min(next(c)) + Len(sep)>>>> \o pieces[Min(next(c)) + Len(sep)]
            ELSE IF c < b THEN <<<<c, b>>>> ELSE <<>>
    IN  pieces[a]

\* _cut: the coarsest separator that leaves every piece small enough, or the
\* coarsest that occurs and then finer ones within each piece; without any,
\* a cut by width.
Cut(text, first, last, size) ==
    LET pieces(a, b, k) == PiecesOn(text, a, b, Separators[k])
        cut[a \in first .. last, b \in first .. last, depth \in 1 .. Len(Separators) + 1] ==
            LET usable == {k \in depth .. Len(Separators) : Len(pieces(a, b, k)) >= 2}
                enough == {k \in usable : \A i \in DOMAIN pieces(a, b, k) :
                              pieces(a, b, k)[i][2] - pieces(a, b, k)[i][1] <= size}
                coarse == pieces(a, b, Min(usable))
            IN  IF b - a <= size THEN <<<<a, b>>>>
                ELSE IF enough # {} THEN pieces(a, b, Min(enough))
                ELSE IF usable # {}
                THEN FlattenSeq([i \in DOMAIN coarse |->
                        cut[coarse[i][1], coarse[i][2], Min(usable) + 1]])
                ELSE [i \in 1 .. (b - a + size - 1) \div size |->
                        <<a + (i - 1) * size, Min({a + i * size, b})>>]
    IN  cut[first, last, 1]

\* recursive_spans, in the group of a template.
RecursiveSpans(text, template, size) ==
    LET s == Max({size, 1})
        cuts == Cut(text, template.start, template.end, s)
        spans == [i \in DOMAIN cuts |-> [template EXCEPT !.start = cuts[i][1], !.end = cuts[i][2]]]
    IN  IF Length(template) <= 0 THEN <<>> ELSE MergeSmall(spans, s, s)

----------------------------------------------------------------------------
(* index/split/token.py: tokens are runs of bytes, and a character may take *)
(* several bytes, so that a token may end inside one.                       *)

\* _byte_to_char_index: the characters that start before a byte.
ByteToChar(width, byte) ==
    Cardinality({c \in DOMAIN width : Sum(SubSeq(width, 1, c - 1)) < byte})

\* token_spans, with the widths of the characters and of the tokens in bytes;
\* windows that would be empty or end where another ended are dropped.
TokenSpans(width, tokens, size, overlap) ==
    LET total == Len(tokens)
        stride == Max({Max({size, 1}) - Max({overlap, 0}), 1})
        n == (total + stride - 1) \div stride
        bytes(k) == Sum(SubSeq(tokens, 1, k))
        start(w) == ByteToChar(width, bytes((w - 1) * stride))
        end(w) == ByteToChar(width, bytes(Min({(w - 1) * stride + Max({size, 1}), total})))
        kept == {w \in 1 .. n : w > 1 => start(w) > start(w - 1) /\ end(w) > end(w - 1)}
    IN  [i \in 1 .. Cardinality(kept) |->
            LET w == Ordered(kept, <)[i] IN Span(start(w), end(w))]

----------------------------------------------------------------------------
(* index/split/sentence_window.py and semantic.py. *)

\* SentenceWindowSplitter._span_for: a sentence, and the window around it.
WindowOf(sentences, i, window) ==
    <<sentences[Max({1, i - window})].start, sentences[Min({Len(sentences), i + window})].end>>

\* _emit: a group that is too long is halved at its widest seam, the first of
\* equals, until each part fits or is one sentence.
HalvedAtSeams(sentences, distance, first, last, ceiling) ==
    LET whole(lo, hi) == sentences[hi].end - sentences[lo].start
        halves[lo \in first .. last, hi \in first .. last] ==
            LET widest == {k \in lo .. hi - 1 : \A j \in lo .. hi - 1 : distance[k] >= distance[j]}
                seam == Min(widest)
            IN  IF hi <= lo \/ ceiling <= 0 \/ whole(lo, hi) <= ceiling
                THEN <<Span(sentences[lo].start, sentences[hi].end)>>
                ELSE halves[lo, seam] \o halves[seam + 1, hi]
    IN  halves[first, last]

\* _group_sentences: cut after the sentences whose distance to the next is
\* above the threshold.
GroupSentences(sentences, distance, threshold, ceiling) ==
    LET cuts == Ordered({k \in DOMAIN distance : distance[k] > threshold}
                              \cup {Len(sentences)}, <)
        from(i) == IF i = 1 THEN 1 ELSE cuts[i - 1] + 1
    IN  FlattenSeq([i \in DOMAIN cuts |->
            HalvedAtSeams(sentences, distance, from(i), cuts[i], ceiling)])

\* SemanticSplitter._spans: too few sentences, or an embedder that returns the
\* wrong number of vectors, and the recursive splitter takes over.
SemanticSpans(text, vectors, distance, threshold, sizes, least) ==
    LET sentences == Sentences(text)
    IN  IF Len(sentences) < Max({least, 2}) \/ vectors # Len(sentences)
        THEN RecursiveSpans(text, Span(0, Len(text)), sizes.target)
        ELSE GroupSentences(sentences, distance, threshold, sizes.most)

----------------------------------------------------------------------------
\* Whatever a splitter proposes, what it returns passes its own validation, and
\* every character that is not white space is in some chunk: no merge, cut,
\* overlap or trim loses text or puts two chunks out of order (`_validate`).
SplitLosesNothing(spans, text, allowed) ==
    /\ Validates(spans, text, allowed)
    /\ \A p \in Ink(text, 0, Len(text)) : \E i \in DOMAIN spans :
         spans[i].start <= p /\ p < spans[i].end

\* No chunk is longer than its maximum but for an atomic one and what the
\* overlap added (`split_oversized_spans`).
SplitKeepsSizes(spans, sizes) ==
    sizes.most > 0 => \A i \in DOMAIN spans :
        spans[i].atomic \/ Length(spans[i]) <= sizes.most + sizes.overlap
=============================================================================
