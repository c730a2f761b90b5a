----------------------------- MODULE Citations -----------------------------
(***************************************************************************)
(* What an answer points at, and what is stripped from it before anyone    *)
(* reads it: generate/citations.py and validate/output.py.  A text is a    *)
(* sequence of words, [word, ends], `ends` where a sentence does; the word *)
(* at index k of a document is its characters k - 1 to k.                  *)
(***************************************************************************)
EXTENDS Lists

None == 0 - 1

----------------------------------------------------------------------------
(* generate/citations.py.  A passage is [id, content, modality, level,      *)
(* verbatim, start, performed, offsets], `performed` the expansion that the *)
(* packer did, if any, and `offsets` what its metadata says of the wider    *)
(* texts of the chunk.                                                      *)

\* _sentence_spans, as the indices of the words of each sentence.
SentenceSpans(text) ==
    LET n == Len(text)
        ends == Ordered({k \in 1 .. n : text[k].ends \/ k = n}, <)
    IN  [i \in DOMAIN ends |-> [start |-> IF i = 1 THEN 0 ELSE ends[i - 1], end |-> ends[i]]]

\* A stand-in for log(1 + total / count): it too falls as a word is more common.
Weight(total, count) == (100 * total) \div count

WordsOf(source, span) == {source[k].word : k \in span.start + 1 .. span.end}

\* What each sentence, by its words, shares with the claim.
SharedWeights(claim, words) ==
    [i \in DOMAIN words |->
        Sum([w \in claim \cap words[i] |->
                Weight(Len(words), Cardinality({j \in DOMAIN words : w \in words[j]}))])]

Quote(source, spans, best) ==
    IF best = {} THEN [quote |-> <<>>, start |-> None, end |-> None]
    ELSE [quote |-> SubSeq(source, spans[Min(best)].start + 1, spans[Min(best)].end),
          start |-> spans[Min(best)].start, end |-> spans[Min(best)].end]

Heaviest(weight) == {i \in DOMAIN weight : weight[i] > 0 /\ \A j \in DOMAIN weight : weight[j] <= weight[i]}

QuoteOf(claim, source, spans) ==
    Quote(source, spans,
          Heaviest(SharedWeights(claim, [i \in DOMAIN spans |-> WordsOf(source, spans[i])])))

\* attribute_spans: the sentence of the source that shares the heaviest words
\* with the claim, the first of equals.
AttributeSpans(claim, source) == QuoteOf(claim, source, SentenceSpans(source))

\* _has_document_span: whether the chunk is a slice of its document at all.
HasDocumentSpan(c) ==
    /\ c.level = 0 /\ c.modality # "summary"
    /\ c.modality = "proposition" => c.verbatim

\* Mutation: the parent's offset is taken whenever there is one.
BaseByPriority(c) ==
    IF "parent" \in DOMAIN c.offsets THEN c.offsets["parent"]
    ELSE IF c.performed \in DOMAIN c.offsets THEN c.offsets[c.performed]
    ELSE IF HasDocumentSpan(c) THEN c.start ELSE None

\* _base_offset: where in the document the text in the prompt begins.
BaseOffset(c) ==
    IF c.performed \in DOMAIN c.offsets THEN c.offsets[c.performed]
    ELSE IF HasDocumentSpan(c) THEN c.start ELSE None

Absolute(base, offset) == IF base = None \/ offset = None THEN None ELSE base + offset

Citation(claim, c, base, span) ==
    [chunk |-> c.id, claim |-> claim, quote |-> span.quote,
     start |-> Absolute(base, span.start), end |-> Absolute(base, span.end)]
Cite(claim, c) == Citation(claim, c, BaseOffset(c), AttributeSpans(claim, c.content))

\* extract_citations and _citations_from_statements: of each sentence of the
\* answer, [claim, markers], one citation for each passage its markers name.
ExtractCitations(answer, passages) ==
    LET cited(s) == [i \in DOMAIN s.markers |->
                        IF s.markers[i] \in DOMAIN passages
                        THEN <<Cite(s.claim, passages[s.markers[i]])>> ELSE <<>>]
    IN  Greedy(LAMBDA kept, c : \A i \in DOMAIN kept :
                    <<kept[i].chunk, kept[i].claim>> # <<c.chunk, c.claim>>,
               FlattenSeq(FlattenSeq([k \in DOMAIN answer |-> cited(answer[k])])))

\* renumber_citations, with the zero-based indices of the passages kept.
Renumbered(markers, keep) ==
    LET new(old) == {n \in DOMAIN keep : keep[n] + 1 = old}
    IN  FlattenSeq([i \in DOMAIN markers |->
            IF new(markers[i]) = {} THEN <<>> ELSE <<Max(new(markers[i]))>>])

\* validate/output.py, strip_invalid_citations.
StripInvalid(answer, citations, passages) ==
    [text |-> [k \in DOMAIN answer |->
                [answer[k] EXCEPT !.markers = SelectSeq(@, LAMBDA m : m \in DOMAIN passages)]],
     citations |-> SelectSeq(citations, LAMBDA c : \E i \in DOMAIN passages : passages[i].id = c.chunk)]

Named(markers, list) == {list[m] : m \in ToSet(markers) \cap DOMAIN list}

QuotesPoint(document, passages, answer, citations) ==
    /\ \A c \in ToSet(citations) :
          /\ c.start # None => SubSeq(document, c.start + 1, c.end) = c.quote
          /\ \E k \in DOMAIN answer : /\ answer[k].claim = c.claim
                                      /\ \E p \in Named(answer[k].markers, passages) : p.id = c.chunk
          /\ c.quote # <<>> => \E w \in DOMAIN c.quote : c.quote[w].word \in c.claim
    /\ \A i, j \in DOMAIN citations : i # j => citations[j] # citations[i]
    /\ \A p \in ToSet(passages) : p.content # <<>> /\ BaseOffset(p) = None =>
          \A c \in ToSet(citations) : c.chunk = p.id => c.start = None

MarkersStay(passages, answer, keep, kept) ==
    \A k \in DOMAIN answer :
       Named(Renumbered(answer[k].markers, keep), kept) = Named(answer[k].markers, passages) \cap ToSet(kept)

StripKeeps(passages, answer, citations, stripped) ==
    /\ \A k \in DOMAIN answer :
          Named(stripped.text[k].markers, passages) = Named(answer[k].markers, passages)
    /\ stripped.citations = citations

----------------------------------------------------------------------------
(* What the verifier adds: a check is [supported, evidence], the evidence a  *)
(* text that the model says it relied on.                                   *)

NeedleLength == 2                \* of evidence, as much as _locate_quote looks for

Has(text, needle) == \E k \in 0 .. Len(text) - Len(needle) : SubSeq(text, k + 1, k + Len(needle)) = needle

\* _locate_quote (generate/groundedness.py): the first passage with its beginning.
Locate(evidence, passages) ==
    LET has == {i \in DOMAIN passages : Has(passages[i].content, Top(evidence, NeedleLength))}
    IN  IF evidence = <<>> \/ has = {} THEN None ELSE passages[Min(has)].id

\* AnswerGenerator._attach_verified_quotes: the evidence of the first supported
\* claim of a passage is the quote of every citation of it; the offsets stay.
AttachVerifiedQuotes(citations, checks, passages) ==
    LET relied(chunk) == SelectSeq(checks, LAMBDA k : k.supported /\ Locate(k.evidence, passages) = chunk)
    IN  [i \in DOMAIN citations |->
            LET c == citations[i]
            IN  IF relied(c.chunk) = <<>> THEN c
                ELSE [c EXCEPT !.quote = Head(relied(c.chunk)).evidence]]

\* What the caller gets: offsets of a sentence with a word of the claim, and a
\* quote that is this sentence, or what supports some claim and begins, at
\* least, like text of the passage that is cited.
AttachedPoint(document, passages, citations, checks) ==
    LET attached == AttachVerifiedQuotes(citations, checks, passages)
        text(c) == SubSeq(document, c.start + 1, c.end)
    IN  \A i \in DOMAIN attached :
          LET c == attached[i]
          IN  /\ c.start # None => \E w \in DOMAIN text(c) : text(c)[w].word \in c.claim
              /\ \/ c = citations[i]
                 \/ /\ \E k \in ToSet(checks) : k.supported /\ k.evidence = c.quote
                    /\ \E p \in ToSet(passages) : p.id = c.chunk /\ Has(p.content, Top(c.quote, NeedleLength))

CitedPoint(document, passages, answer, citations, checks) ==
    /\ QuotesPoint(document, passages, answer, citations)
    /\ StripKeeps(passages, answer, citations, StripInvalid(answer, citations, passages))
    /\ AttachedPoint(document, passages, citations, checks)

\* A citation with offsets quotes, when it is extracted, what the document says
\* there, whichever text of the chunk was in the prompt; it is of a passage that
\* its sentence names, once; a text that is no slice of the document gets no
\* offsets; a verifier's quote changes no offset and is of that passage; and
\* after a renumbering every marker still names the passage it named.
CitationsPoint(document, passages, answer, keep, checks) ==
    /\ CitedPoint(document, passages, answer, ExtractCitations(answer, passages), checks)
    /\ MarkersStay(passages, answer, keep, [n \in DOMAIN keep |-> passages[keep[n] + 1]])

----------------------------------------------------------------------------
(* validate/output.py.  A pattern is a sequence of characters; a match      *)
(* becomes "R".                                                             *)

StreamTail == 3                  \* _STREAM_TAIL
Boundary == {" "}          \* _BOUNDARY
Spanning == {"d"}          \* _SPANNING, digits and the like

\* StreamLeakFilter._clean: scaffold and detectors, leftmost match first.
Clean(text, patterns) ==
    LET c[k \in 1 .. Len(text) + 1] ==
            LET here == {p \in patterns : /\ k + Len(p) - 1 <= Len(text)
                                          /\ SubSeq(text, k, k + Len(p) - 1) = p}
            IN  IF k > Len(text) THEN <<>>
                ELSE IF here = {} THEN <<text[k]>> \o c[k + 1]
                ELSE <<"R">> \o c[k + Len(CHOOSE p \in here : TRUE)]
    IN  c[1]

\* _hold_back: how much of the end may still grow into a match.
HoldBack(text) ==
    LET n == Len(text)
        window == Max({1, n - StreamTail + 1}) .. n
        gaps == {k \in window : text[k] \in Boundary}
    IN  IF StreamTail <= 0 THEN 0
        ELSE IF (\E k \in window : text[k] \in Spanning) \/ gaps = {} THEN Cardinality(window)
        ELSE n - Max(gaps)

\* feed: what comes out for one delta, and what stays in the buffer.
Feed(s, delta, patterns) ==
    LET cleaned == Clean(s.buffer \o delta, patterns)
        cut == Len(cleaned) - HoldBack(cleaned)
    IN  [out |-> s.out \o SubSeq(cleaned, 1, cut), buffer |-> SubSeq(cleaned, cut + 1, Len(cleaned))]

Streamed(deltas, patterns) ==
    LET end == FoldLeft(LAMBDA s, d : Feed(s, d, patterns), [out |-> <<>>, buffer |-> <<>>], deltas)
    IN  end.out \o Clean(end.buffer, patterns)      \* flush

\* However the provider cuts the text, the reader of the stream gets what the
\* reader of the whole text would, as long as no pattern is longer than the
\* tail and one with a gap in it has a character of Spanning before the gap.
StreamIsClean(deltas, patterns) ==
    Streamed(deltas, patterns) = Clean(FlattenSeq(deltas), patterns)
=============================================================================
