----------------------------- MODULE Structure -----------------------------
(***************************************************************************)
(* The splitters that follow the structure of a document:                  *)
(* index/split/markdown.py, by headings, fences and tables, and            *)
(* index/split/code.py, by definitions and their members.                  *)
(***************************************************************************)
EXTENDS Splitting

----------------------------------------------------------------------------
(* markdown.py.  A line is a record: its kind, and its text with the end of *)
(* line.  A fence with a language opens a block and cannot close one; a     *)
(* delimiter row is also a table row.                                       *)

Atomic == {"code", "table"}
IsHeading(line) == line.kind \in {"h1", "h2"}
IsFence(line) == line.kind \in {"fence", "language"}
IsRow(line) == line.kind \in {"row", "delimiter"}
Level(line) == IF line.kind = "h1" THEN 1 ELSE 2

TextOf(lines) == FlattenSeq([i \in DOMAIN lines |-> lines[i].text])
LineStart(lines, i) == Len(TextOf(SubSeq(lines, 1, i - 1)))

Block(lines, kind, from, to) ==
    [kind |-> kind, start |-> LineStart(lines, from), end |-> LineStart(lines, to + 1),
     level |-> Level(lines[from])]

\* _is_table_head, of a row.
IsTableHead(lines, i) == /\ IsRow(lines[i]) /\ i < Len(lines)
                         /\ lines[i + 1].kind = "delimiter"

\* _blocks: an unclosed fence runs to the end.
Blocks(lines) ==
    LET n == Len(lines)
        until(i, S) == Min(S \cup {n + 1})
        fenced(i) == until(i, {j \in i + 1 .. n : lines[j].kind = "fence"})
        tabled(i) == until(i, {j \in i + 2 .. n : ~IsRow(lines[j])})
        plain(i) == until(i, {j \in i + 1 .. n : IsHeading(lines[j]) \/ IsFence(lines[j])
                                               \/ IsTableHead(lines, j)})
        blocks[i \in 1 .. n + 2] ==
            IF i > n THEN <<>>
            ELSE IF IsFence(lines[i])
            THEN <<Block(lines, "code", i, Min({fenced(i), n}))>> \o blocks[fenced(i) + 1]
            ELSE IF IsHeading(lines[i]) THEN <<Block(lines, "heading", i, i)>> \o blocks[i + 1]
            ELSE IF IsTableHead(lines, i)
            THEN <<Block(lines, "table", i, tabled(i) - 1)>> \o blocks[tabled(i)]
            ELSE <<Block(lines, "text", i, plain(i) - 1)>> \o blocks[plain(i)]
    IN  blocks[1]

\* _sections: a heading closes those of its level and below; a path is the
\* levels that are open, their titles being the same at each level.
Sections(blocks) ==
    LET add(p, b) ==
            IF b.kind = "heading"
            THEN [out |-> IF p.now = <<>> THEN p.out ELSE Append(p.out, [path |-> p.path, blocks |-> p.now]),
                  path |-> Append(SelectSeq(p.path, LAMBDA l : l < b.level), b.level),
                  now |-> <<b>>]
            ELSE [p EXCEPT !.now = Append(@, b)]
        end == FoldLeft(add, [out |-> <<>>, path |-> <<>>, now |-> <<>>], blocks)
    IN  IF end.now = <<>> THEN end.out
        ELSE Append(end.out, [path |-> end.path, blocks |-> end.now])

\* The blocks of a chunk that are more than white space and headings.
Substantive(text, blocks) ==
    SelectSeq(blocks, LAMBDA b : b.kind # "heading" /\ Ink(text, b.start, b.end) # {})

\* flush.
Flushed(text, path, p) ==
    IF p.pending = <<>> THEN p
    ELSE [pending |-> <<>>,
          out |-> Append(p.out, [start |-> Head(p.pending).start, end |-> Last(p.pending).end,
                    group |-> path, atomic |-> \E b \in ToSet(Substantive(text, p.pending)) :
                                                   b.kind \in Atomic])]

\* _lead_in: a heading, and little else, goes with the block that follows it.
HasLeadIn(text, pending, least) ==
    /\ pending # <<>>
    /\ LET body == Substantive(text, pending)
       IN  Sum([i \in DOMAIN body |-> Length(body[i])]) < least

\* _pack: blocks fill up to the target size; a larger block is cut if it is
\* text, and stands alone if it is code or a table.
Packed(text, section, sizes) ==
    LET span(a, b, whole) == [start |-> a, end |-> b, atomic |-> whole, group |-> section.path]
        long(b) == Length(b) > sizes.target
        add(p, b) ==
            IF b.kind \in Atomic /\ long(b)
            THEN IF HasLeadIn(text, p.pending, sizes.least)
                 THEN [pending |-> <<>>,
                       out |-> Append(p.out, span(Head(p.pending).start, b.end, TRUE))]
                 ELSE [pending |-> <<>>,
                       out |-> Append(Flushed(text, section.path, p).out, span(b.start, b.end, TRUE))]
            ELSE IF b.kind = "text" /\ long(b)
            THEN [pending |-> <<>>,
                  out |-> Flushed(text, section.path, p).out
                          \o RecursiveSpans(text, span(b.start, b.end, FALSE), sizes.target)]
            ELSE LET q == IF p.pending # <<>> /\ b.end - Head(p.pending).start > sizes.target
                          THEN Flushed(text, section.path, p) ELSE p
                 IN  [q EXCEPT !.pending = Append(@, b)]
        end == FoldLeft(add, [pending |-> <<>>, out |-> <<>>], section.blocks)
    IN  Flushed(text, section.path, end).out

MarkdownSpans(lines, sizes) ==
    LET sections == Sections(Blocks(lines))
    IN  FlattenSeq([i \in DOMAIN sections |-> Packed(TextOf(lines), sections[i], sizes)])

----------------------------------------------------------------------------
(* code.py.  Definitions and members are given as functions from the offset *)
(* where one begins to whether it is a container.                           *)

\* The units between the offsets that begin one.
Between(starts, first, end, UnitAt(_, _)) ==
    LET order == Ordered(starts, <)
    IN  [i \in DOMAIN order |->
            UnitAt(IF i = 1 THEN first ELSE order[i],
                   IF i = Len(order) THEN end ELSE order[i + 1])]

\* _units: what precedes the first definition is a unit too.
Units(n, definitions) ==
    LET starts == DOMAIN definitions
        unit(a, b) == [start |-> a, end |-> b, container |-> definitions[a],
                       of |-> IF definitions[a] THEN a + 1 ELSE 0]
        plain(b) == [start |-> 0, end |-> b, container |-> FALSE, of |-> 0]
    IN  IF starts = {} THEN IF n > 0 THEN <<plain(n)>> ELSE <<>>
        ELSE (IF Min(starts) > 0 THEN <<plain(Min(starts))>> ELSE <<>>)
             \o Between(starts, Min(starts), n, unit)

\* _members: the first one keeps the head of its container.
Members(unit, members) ==
    LET starts == {m \in DOMAIN members : unit.start < m /\ m < unit.end}
        first == Min(starts)
        member(a, b) == [start |-> a, end |-> b, of |-> unit.of,
                         container |-> members[IF a = unit.start THEN first ELSE a]]
    IN  IF starts = {} THEN <<unit>> ELSE Between(starts, unit.start, unit.end, member)

\* _emit: a container that is too long goes by its members, and what has none
\* is cut like prose.
RECURSIVE Emitted(_, _, _, _)
Emitted(text, unit, members, sizes) ==
    LET span == [start |-> unit.start, end |-> unit.end, atomic |-> FALSE, group |-> unit.of]
        parts == Members(unit, members)
    IN  IF Length(unit) <= sizes.most \/ sizes.most <= 0 THEN <<span>>
        ELSE IF unit.container /\ Len(parts) > 1
        THEN FlattenSeq([i \in DOMAIN parts |-> Emitted(text, parts[i], members, sizes)])
        ELSE RecursiveSpans(text, span, sizes.most)

\* CodeSplitter._spans_sync: of a language that is not known, by size.
CodeSpans(text, known, definitions, members, sizes) ==
    IF ~known THEN RecursiveSpans(text, Span(0, Len(text)), sizes.target)
    ELSE LET units == Units(Len(text), definitions)
         IN  FlattenSeq([i \in DOMAIN units |-> Emitted(text, units[i], members, sizes)])

----------------------------------------------------------------------------
\* A code block or a table is never cut, by any later merge, cut or overlap:
\* some chunk holds all of it (`_ATOMIC_KINDS`); and no chunk holds text of two
\* sections with different headings, whose prefix would be wrong for one.
MarkdownIsWhole(lines, spans) ==
    LET text == TextOf(lines)
        blocks == Blocks(lines)
        sections == Sections(blocks)
        holds(s, b) == Ink(text, b.start, b.end) \subseteq s.start .. s.end - 1
        within(s, b) == Ink(text, b.start, b.end) \cap (s.start .. s.end - 1) # {}
    IN  /\ \A b \in ToSet(blocks) : b.kind \in Atomic => \E s \in ToSet(spans) : holds(s, b)
        /\ \A s \in ToSet(spans), q \in ToSet(sections), b \in UNION {ToSet(r.blocks) : r \in ToSet(sections)} :
             (b \in ToSet(q.blocks) /\ within(s, b)) => q.path = s.group

\* No chunk of code mixes a class with what is outside it.
CodeIsApart(n, definitions, spans) ==
    LET units == Units(n, definitions)
    IN  \A s \in ToSet(spans), u \in ToSet(units) :
            ((s.start .. s.end - 1) \cap (u.start .. u.end - 1) # {}) => s.group = u.of
=============================================================================
