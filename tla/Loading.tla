------------------------------ MODULE Loading ------------------------------
(***************************************************************************)
(* From files to documents: the loader of each format, the walk over a     *)
(* directory, whole or in windows, and the dispatch of any source          *)
(* (index/loaders.py), and how the ingest pipeline and POST /ingest get    *)
(* there (index/pipeline.py, server/app.py).  A document is                *)
(* [id, content, meta], its id what document_id hashes: a label, the       *)
(* fragment of the file, and the tenant; titles are left out.  A result is *)
(* [outcome, docs], the outcome "fine", "failed" or, out of memory,        *)
(* "memory".                                                               *)
(***************************************************************************)
EXTENDS Lists

Unset == "unset"
Blanks == {"", " "}     \* what strips to nothing
Whole == <<>>           \* the fragment of a file that is one document

Fine(docs) == [outcome |-> "fine", docs |-> docs]
Failed == [outcome |-> "failed", docs |-> <<>>]

----------------------------------------------------------------------------
(* BaseLoader.  The options are what a loader is made with: [tenant, root,   *)
(* meta, contentKey, idKey, pages], and for a walk [recursive, include,      *)
(* exclude, limit, maxBytes].  A file is [root, parts, suffix, state,        *)
(* content], its content of the shape that its suffix says.                  *)

\* _label: the path, or where it is below the source root.
Label(file, o) ==
    IF o.root = Unset THEN <<file.root>> \o file.parts
    ELSE IF o.root = file.root THEN file.parts
    ELSE <<Last(file.parts)>>

\* _document: what the file says of itself goes before what was asked for.
Doc(o, loader, label, fragment, content, meta) ==
    [id |-> [label |-> label, fragment |-> fragment, tenant |-> o.tenant],
     content |-> content, meta |-> meta @@ ("loader" :> loader) @@ o.meta]

----------------------------------------------------------------------------
(* Text and Markdown.                                                       *)

FromText(file, o) ==
    IF file.content \in Blanks THEN <<>>
    ELSE <<Doc(o, "text", Label(file, o), Whole, <<file.content>>, "extension" :> file.suffix)>>

FromMarkdown(file, o) ==
    IF file.content.body \in Blanks THEN <<>>
    ELSE <<Doc(o, "markdown", Label(file, o), Whole, <<file.content.body>>,
               ("extension" :> file.suffix) @@ file.content.front)>>

\* _flat_mapping, which reads the front matter where YAML does not: lines
\* [kind, key, value], an item being of the last key if that one has a list.
FrontStep(s, line) ==
    CASE line.kind = "item" /\ s.current # Unset ->
            IF s.lists[s.current] THEN [s EXCEPT !.out[s.current] = Append(@, line.value)] ELSE s
      [] line.kind = "pair" ->
            [out |-> (line.key :> IF line.value \in Blanks THEN <<>> ELSE <<line.value>>) @@ s.out,
             lists |-> (line.key :> (line.value \in Blanks)) @@ s.lists, current |-> line.key]
      [] OTHER -> s
FlatMapping(lines) == FoldLeft(FrontStep, [out |-> <<>>, lists |-> <<>>, current |-> Unset], lines).out

PairsOf(lines) == {n \in DOMAIN lines : lines[n].kind = "pair"}
ItemsAfter(lines, n) ==
    {k \in DOMAIN lines : lines[k].kind = "item" /\ k > n /\ \A m \in PairsOf(lines) : m <= n \/ m > k}
SaidOf(lines, n) ==
    IF lines[n].value \in Blanks
    THEN LET items == At(lines, ItemsAfter(lines, n)) IN [i \in DOMAIN items |-> items[i].value]
    ELSE <<lines[n].value>>

\* A key of the front matter means what its last line says: the items below it and
\* above the next key if it has no value, and no item is of a key with a value or
\* of none (index/loaders.py, _flat_mapping).
FrontMatterIsRead(lines) ==
    FlatMapping(lines) =
        [key \in {lines[n].key : n \in PairsOf(lines)} |->
            SaidOf(lines, Max({n \in PairsOf(lines) : lines[n].key = key}))]

----------------------------------------------------------------------------
(* JSON and JSON lines.  A record is [kind, fields]: "object", "text", whose *)
(* text is the field "content", "other", and of a line also "malformed", as  *)
(* null is, and "empty".                                                     *)

ContentKeys == <<"content", "text", "body", "page_content", "value">>
IdKeys == <<"id", "_id", "uuid", "key", "slug", "url">>

\* _pick: the configured field if it is there, else the first of the candidates.
PickField(fields, configured, candidates) ==
    IF configured # Unset THEN IF configured \in DOMAIN fields THEN configured ELSE Unset
    ELSE Head(Append(SelectSeq(candidates, LAMBDA k : k \in DOMAIN fields), Unset))

\* What a record is known by: a field of its own, or where it stands.
RecordFragment(fields, idKey, ordinal) ==
    LET field == PickField(fields, idKey, IdKeys)
    IN  IF field # Unset /\ fields[field] \notin {"", "null"} THEN <<field, fields[field]>>
        ELSE <<"item", ToString(ordinal)>>

\* _record_to_document.
FromObject(fields, key, label, ordinal, o) ==
    IF key = Unset \/ fields[key] \in Blanks \cup {"null"} THEN <<>>
    ELSE <<Doc(o, "json", label, RecordFragment(fields, o.idKey, ordinal), <<fields[key]>>,
               [k \in DOMAIN fields \ {key} |-> fields[k]])>>
FromRecord(record, label, ordinal, o) ==
    CASE record.kind = "object" ->
            FromObject(record.fields, PickField(record.fields, o.contentKey, ContentKeys), label, ordinal, o)
      [] record.kind = "text" /\ record.fields["content"] \notin Blanks ->
            <<Doc(o, "json", label, <<"item", ToString(ordinal)>>, <<record.fields["content"]>>, <<>>)>>
      [] OTHER -> <<>>

\* _build of either loader: what is no document still counts.
FromRecords(records, label, o) ==
    FlattenSeq([n \in DOMAIN records |-> FromRecord(records[n], label, n - 1, o)])

\* JSONLoader._parse: one error is of the whole file.
FromJson(records, label, o) ==
    IF \E n \in DOMAIN records : records[n].kind = "malformed" THEN Failed
    ELSE Fine(FromRecords(records, label, o))

KnownByField(docs) == {docs[n] : n \in {n \in DOMAIN docs : docs[n].id.fragment[1] \notin {"item", "row"}}}
Emptied(records, n) == [records EXCEPT ![n].kind = "empty"]

RecordsStay(records, o, docs) ==
    /\ \A n \in DOMAIN records :
         LET emptied == FromRecords(Emptied(records, n), <<>>, o)
         IN  /\ ToSet(emptied) \subseteq ToSet(docs) /\ Len(docs) - Len(emptied) <= 1
             /\ KnownByField(FromRecords(RemoveAt(records, n), <<>>, o)) = KnownByField(emptied)
    /\ \A i, j \in DOMAIN docs : i < j /\ docs[i].id = docs[j].id =>
         docs[i].id.fragment[1] \in DOMAIN docs[j].meta /\ docs[j].meta[docs[i].id.fragment[1]] \notin {"", "null"}

\* A line that does not parse, is empty or holds no text costs itself only, and
\* leaves the others what they are known by; a record with a key of its own keeps
\* its identity whatever goes before it; and two share one only with one key.
RecordsAreSound(records, o) == RecordsStay(records, o, FromRecords(records, <<>>, o))

----------------------------------------------------------------------------
(* CSV, a document of each row or of the file.  A row is a function of the   *)
(* columns, "" where it is too short; the loader is told `contentKey` and    *)
(* `idKey` as content_column and id_column.                                  *)

FirstFilled(row) == Head(Append(SelectSeq(IdKeys, LAMBDA k : k \in DOMAIN row /\ row[k] # ""), Unset))
RowFragment(row, idColumn, ordinal) ==
    IF idColumn \in DOMAIN row /\ row[idColumn] # "" THEN <<idColumn, row[idColumn]>>
    ELSE IF FirstFilled(row) # Unset THEN <<"id", row[FirstFilled(row)]>>
    ELSE <<"row", ToString(ordinal)>>

\* _row_content: the column, or the cells that say something.
RowContent(row, column) ==
    IF column = Unset THEN {<<k, row[k]>> : k \in {k \in DOMAIN row : row[k] \notin Blanks}}
    ELSE {<<k, row[k]>> : k \in {k \in DOMAIN row \cap {column} : row[k] \notin Blanks}}

RowMeta(row, column) == IF column = Unset THEN <<>> ELSE [k \in DOMAIN row \ {column} |-> row[k]]
FromRow(row, label, ordinal, o) ==
    IF RowContent(row, o.contentKey) = {} THEN <<>>
    ELSE <<Doc(o, "csv", label, RowFragment(row, o.idKey, ordinal), RowContent(row, o.contentKey),
               RowMeta(row, o.contentKey))>>

\* _rows is given the path itself for its label, and not _label.
FromRows(rows, label, o) == FlattenSeq([n \in DOMAIN rows |-> FromRow(rows[n], label, n, o)])
FromCsv(file, o) == FromRows(file.content, <<file.root>> \o file.parts, o)

RowsStay(rows, o, docs) ==
    /\ \A n \in DOMAIN rows :
         (RowContent(rows[n], o.contentKey) # {}) =
            \E d \in ToSet(docs) : d.content = RowContent(rows[n], o.contentKey) /\ d.id.fragment = RowFragment(rows[n], o.idKey, n)
    /\ \A i, j \in DOMAIN docs : i < j /\ docs[i].id = docs[j].id =>
         \E m, n \in DOMAIN rows : \E k \in DOMAIN rows[m], l \in DOMAIN rows[n] :
            m < n /\ rows[m][k] = rows[n][l] /\ rows[m][k] # ""
    /\ \A n \in DOMAIN rows : KnownByField(FromRows(RemoveAt(rows, n), <<>>, o)) \subseteq ToSet(docs)

\* A row with text is a document with all of its cells, one with a key keeps its
\* identity whatever rows are removed, and two share one only with a value that
\* both have.
RowsAreSound(rows, o) == RowsStay(rows, o, FromRows(rows, <<>>, o))

----------------------------------------------------------------------------
(* PDF.  A page is a sequence of characters, LineEnd and Space among them.   *)

LineEnd == "newline"
Space == "space"

\* _collapse: no more than one blank line, and none at the ends.
Trimmed(text) ==
    LET solid == {i \in DOMAIN text : text[i] \notin {LineEnd, Space}}
    IN  IF solid = {} THEN <<>> ELSE SubSeq(text, Min(solid), Max(solid))
Collapsed(text) ==
    Trimmed(FoldLeft(LAMBDA kept, c : IF c = LineEnd /\ IsSuffix(<<LineEnd, LineEnd>>, kept) THEN kept
                                      ELSE Append(kept, c), <<>>, text))

\* The pages that say something, and where in the whole each of them starts.
BreakStep(s, page) ==
    IF Collapsed(page) = <<>> THEN [s EXCEPT !.number = @ + 1]
    ELSE [number |-> s.number + 1, cursor |-> s.cursor + Len(Collapsed(page)) + 2,
          breaks |-> Append(s.breaks, <<s.cursor, s.number>>), kept |-> Append(s.kept, Collapsed(page))]
Broken(pages) ==
    FoldLeft(BreakStep, [number |-> 1, cursor |-> 0, breaks |-> <<>>, kept |-> <<>>], pages)
Joined(kept) ==
    FlattenSeq([n \in DOMAIN kept |-> IF n = 1 THEN kept[n] ELSE <<LineEnd, LineEnd>> \o kept[n]])

PageDoc(file, number, o) ==
    IF Trimmed(file.content[number]) = <<>> THEN <<>>
    ELSE <<Doc(o, "pdf", Label(file, o), <<"page", ToString(number)>>, file.content[number], <<>>)>>
OfPages(file, o, broken) ==
    IF broken.kept = <<>> THEN <<>>
    ELSE <<Doc(o, "pdf", Label(file, o), Whole, Joined(broken.kept), "page_breaks" :> broken.breaks)>>
FromPdf(file, o) ==
    IF o.pages THEN FlattenSeq([n \in DOMAIN file.content |-> PageDoc(file, n, o)])
    ELSE OfPages(file, o, Broken(file.content))

PageOf(breaks, offset) == breaks[Max({k \in DOMAIN breaks : breaks[k][1] <= offset})][2]

BreaksAreTrue(pages, text, breaks) ==
    /\ Collapsed(text) = text
    /\ {breaks[k][2] : k \in DOMAIN breaks} = {n \in DOMAIN pages : Trimmed(pages[n]) # <<>>}
    /\ \A k \in DOMAIN breaks : \A i \in DOMAIN Collapsed(pages[breaks[k][2]]) :
         /\ text[breaks[k][1] + i] = Collapsed(pages[breaks[k][2]])[i]
         /\ PageOf(breaks, breaks[k][1] + i - 1) = breaks[k][2]

\* Every character of the joined text is found again on its page by the breaks,
\* whatever is blank or collapsed before it, and no page with text is missing.
PagesFound(pages, broken) == BreaksAreTrue(pages, Joined(broken.kept), broken.breaks)
PagesAreFound(pages) == PagesFound(pages, Broken(pages))

----------------------------------------------------------------------------
(* Word and HTML.  A document of Word is a sequence of blocks, a block one   *)
(* of rows of cells, a paragraph being one of one; a page of HTML is one of  *)
(* elements [tag, within, says], `within` the selectors around it.           *)

FromDocx(file, o) ==
    LET rows == SelectSeq(FlattenSeq(file.content), LAMBDA row : \E i \in DOMAIN row : row[i] \notin Blanks)
    IN  IF rows = <<>> THEN <<>> ELSE <<Doc(o, "docx", Label(file, o), Whole, rows, <<>>)>>

Boilerplate == {"script", "style", "nav", "header", "footer", "aside", "form", "noscript",
                "iframe", "svg", "template", "button"}
MainSelectors == <<"main", "article", "[role=main]", "#main", "#content", "#main-content",
                   ".main-content", ".post-content", ".entry-content", ".markdown-body", ".content">>

\* _extract: without the boilerplate, the first region that there is, or the body.
Region(elements) ==
    Head(Append(SelectSeq(MainSelectors, LAMBDA s : \E n \in DOMAIN elements : s \in elements[n].within), "body"))
Extracted(elements, region) ==
    SelectSeq(elements, LAMBDA e : (region = "body" \/ region \in e.within) /\ e.says \notin Blanks)
FromHtml(file, o) ==
    LET elements == SelectSeq(file.content, LAMBDA e : e.tag \notin Boilerplate)
        shown == Extracted(elements, Region(elements))
    IN  IF shown = <<>> THEN <<>>
        ELSE <<Doc(o, "html", Label(file, o), Whole, [n \in DOMAIN shown |-> shown[n].says], <<>>)>>

----------------------------------------------------------------------------
(* The walk.  Files come in the order of their paths.  The state of a file   *)
(* is "fine", "link", "gone", which cannot be looked at, "empty", "large",   *)
(* "locked", which cannot be read, "corrupt", "binary", with a NUL, or       *)
(* "memory", which leaves none.                                              *)

SkipDirs == {".git", ".venv", "node_modules", "dist", "build", "target"}
BinarySuffixes == {".png", ".zip"}
LoaderSuffixes == {".txt", ".md", ".json", ".jsonl", ".csv", ".html", ".pdf", ".docx"}
KnownSuffixes == LoaderSuffixes \cup {".yaml", ".py"}

\* loader_for, and each loader on a file that it can read.
Documents(file, o) ==
    CASE file.suffix = ".md" -> Fine(FromMarkdown(file, o))
      [] file.suffix = ".json" -> FromJson(file.content, Label(file, o), o)
      [] file.suffix = ".jsonl" -> Fine(FromRecords(file.content, Label(file, o), o))
      [] file.suffix = ".csv" -> Fine(FromCsv(file, o))
      [] file.suffix = ".html" -> Fine(FromHtml(file, o))
      [] file.suffix = ".pdf" -> Fine(FromPdf(file, o))
      [] file.suffix = ".docx" -> Fine(FromDocx(file, o))
      [] OTHER -> Fine(FromText(file, o))
LoadFile(file, o) ==
    IF file.state = "memory" THEN [outcome |-> "memory", docs |-> <<>>]
    ELSE IF file.state \in {"locked", "corrupt"} THEN Failed
    ELSE IF file.state = "empty" THEN IF file.suffix \in {".json", ".pdf", ".docx"} THEN Failed ELSE Fine(<<>>)
    ELSE Documents(file, o)

\* _admit: in the order of the code, which of the checks turns a file away.
Pruned(file, o) ==
    \/ file.state = "link"
    \/ \E i \in 1 .. Len(file.parts) - 1 : file.parts[i] \in SkipDirs
    \/ file.suffix \in o.exclude
    \/ o.include # {} /\ file.suffix \notin o.include
Admit(file, o) ==
    IF Pruned(file, o) THEN "out"
    ELSE IF file.suffix \in BinarySuffixes THEN "skipped"
    ELSE IF file.state = "gone" THEN "failed"
    ELSE IF file.state \in {"empty", "large"} THEN "skipped"
    ELSE IF file.suffix \in KnownSuffixes THEN "in"
    ELSE IF file.state = "locked" THEN "failed"
    ELSE IF file.state = "binary" THEN "skipped" ELSE "in"

\* _discover stops looking when it has found as many as it may.
DiscoverStep(s, file, o) ==
    IF Len(s.found) >= o.limit THEN s
    ELSE CASE Admit(file, o) = "in" -> [s EXCEPT !.found = Append(@, file)]
           [] Admit(file, o) = "skipped" -> [s EXCEPT !.skipped = @ + 1]
           [] Admit(file, o) = "failed" -> [s EXCEPT !.failures = Append(@, file.parts)]
           [] OTHER -> s
Discover(files, o) ==
    FoldLeft(LAMBDA s, file : DiscoverStep(s, file, o), [found |-> <<>>, skipped |-> 0, failures |-> <<>>],
             SelectSeq(files, LAMBDA f : o.recursive \/ Len(f.parts) = 1))

\* _load_one: whatever a parser raises is recorded, except that memory is short.
LoadOne(file, o) == LoadFile(file, [o EXCEPT !.meta = ("root" :> file.root) @@ @])
Loads(files, o) ==
    [p \in {files[n].parts : n \in DOMAIN files} |->
        LoadOne(files[CHOOSE n \in DOMAIN files : files[n].parts = p], o)]

Gathered(found, loads) ==
    [outcome |-> IF \E n \in DOMAIN found : loads[found[n].parts].outcome = "memory" THEN "memory" ELSE "fine",
     docs |-> FlattenSeq([n \in DOMAIN found |-> loads[found[n].parts].docs]),
     failures |-> LET bad == SelectSeq(found, LAMBDA f : loads[f.parts].outcome = "failed")
                  IN  [n \in DOMAIN bad |-> bad[n].parts]]
Raised(result) == result.outcome # "fine"

\* load: the documents, or none if one file raises.
AllOrRaise(all) == [outcome |-> all.outcome, docs |-> IF Raised(all) THEN <<>> ELSE all.docs]
DirectoryOf(files, o, loads) == AllOrRaise(Gathered(Discover(files, o).found, loads))
Directory(files, o) == DirectoryOf(files, o, Loads(files, o))

\* iter_documents: so many files at a time, up to the window that raises.
Window(found, k, n) == SubSeq(found, (k - 1) * n + 1, Min({k * n, Len(found)}))
UpToRaised(batches) ==
    SubSeq(batches, 1, Min({k \in DOMAIN batches : Raised(batches[k])} \cup {Len(batches)}))
WindowsOf(found, loads, n) ==
    UpToRaised([k \in 1 .. (Len(found) + n - 1) \div n |-> Gathered(Window(found, k, n), loads)])
Windows(files, o, n) == WindowsOf(Discover(files, o).found, Loads(files, o), n)

WalkIsWhole(files, loads, failures, all, batches) ==
    /\ ToSet(failures \o all.failures) \subseteq
          {files[i].parts : i \in {i \in DOMAIN files : files[i].state = "gone" \/ loads[files[i].parts].outcome = "failed"}}
    /\ IsInjective(failures \o all.failures)
    /\ ~Raised(all) => /\ FlattenSeq([k \in DOMAIN batches |-> batches[k].docs]) = all.docs
                       /\ FlattenSeq([k \in DOMAIN batches |-> batches[k].failures]) = all.failures
    /\ Raised(all) = \E k \in DOMAIN batches : Raised(batches[k])

OneCostsItself(files, o, loads, whole) ==
    ~Raised(whole) /\ Len(files) <= o.limit =>
        \A i \in DOMAIN files :
            DirectoryOf(RemoveAt(files, i), o, loads).docs =
                SelectSeq(whole.docs, LAMBDA d :
                    Admit(files[i], o) = "in" => d \notin ToSet(loads[files[i].parts].docs))
WalkKeeps(files, o, window, found, loads) ==
    LET all == Gathered(found.found, loads)
    IN  /\ WalkIsWhole(files, loads, found.failures, all, WindowsOf(found.found, loads, window))
        /\ OneCostsItself(files, o, loads, AllOrRaise(all))

\* Whatever the files are and whichever cannot be read: each costs no document
\* but its own and is reported once, the windows of a stream give what a load of
\* the whole gives, and only what would stop the next file too stops the walk.
WalkIsSound(files, o, window) == WalkKeeps(files, o, window, Discover(files, o), Loads(files, o))

Moved(files, root) == [n \in DOMAIN files |-> [files[n] EXCEPT !.root = root]]
IdsOf(docs) == {docs[n].id : n \in DOMAIN docs}
Plain(files) == SelectSeq(files, LAMBDA f : f.suffix # ".csv")

\* The same files under another root are the same documents where the loaders are
\* told the root, which the rows of a CSV do not ask (index/loaders.py, _label).
MovesKeepIds(files, o, roots) ==
    Cardinality({IdsOf(Directory(Moved(Plain(files), root), [o EXCEPT !.root = root]).docs) : root \in roots}) <= 1

----------------------------------------------------------------------------
(* Sources.  One is [kind, ...]: "directory" with its files, "file",         *)
(* "payload" with its records, "document", "missing" or "other".             *)

Defaults(tenant, meta) ==
    [tenant |-> tenant, root |-> Unset, meta |-> meta, contentKey |-> Unset, idKey |-> Unset,
     pages |-> FALSE, recursive |-> TRUE, include |-> {}, exclude |-> {}, limit |-> 1000]

\* load: nothing that was named is skipped in silence.
Load(source, tenant) ==
    CASE source.kind = "directory" -> Directory(source.files, Defaults(tenant, <<>>))
      [] source.kind = "file" /\ source.file.state \notin {"large", "gone"} ->
            LoadFile(source.file, Defaults(tenant, <<>>))
      [] source.kind = "payload" ->
            FromJson(source.records, <<"inline", ToString(source.records)>>, Defaults(tenant, <<>>))
      [] OTHER -> Failed
AllLoaded(results) ==
    IF \E n \in DOMAIN results : Raised(results[n]) THEN Failed
    ELSE Fine(FlattenSeq([n \in DOMAIN results |-> results[n].docs]))
LoadMany(sources, tenant) == AllLoaded([n \in DOMAIN sources |-> Load(sources[n], tenant)])

\* IngestPipeline._resolve_target.  A target is a source or a "list" of them: its
\* documents as they are, then the rest, with the tenant of the settings and
\* nothing of the options.
Resolved(target, tenant) ==
    LET items == IF target.kind = "list" THEN target.items ELSE <<target>>
        given == SelectSeq(items, LAMBDA t : t.kind = "document")
    IN  AllLoaded(<<Fine([n \in DOMAIN given |-> given[n].doc]),
                    LoadMany(SelectSeq(items, LAMBDA t : t.kind # "document"), tenant)>>)

\* _document_windows: a directory is streamed, with the options; a list is not.
DocumentWindows(target, o, window) ==
    IF target.kind = "directory" THEN Windows(target.files, o, window) ELSE <<Resolved(target, o.tenant)>>

----------------------------------------------------------------------------
(* POST /ingest.  A request is [text, label, meta, recursive, paths], each   *)
(* path a source with the place it is in.                                    *)

InlineDocument(request, tenant) ==
    [kind |-> "document",
     doc |-> Doc(Defaults(tenant, request.meta), "inline",
                 IF request.label = Unset THEN <<"inline", request.text>> ELSE <<request.label>>,
                 Whole, <<request.text>>, <<>>)]

\* _resolve_paths: all of the paths or none.
Refused(paths, roots) == \E n \in DOMAIN paths : paths[n].place \notin roots \/ paths[n].kind = "missing"

\* RagService.ingest.  The targets are a list, of one path at times.
IngestOptions(request, tenant, staged) ==
    [Defaults(tenant, request.meta) EXCEPT !.recursive = request.recursive, !.root = staged]
Inline(request, tenant) == IF request.text \in Blanks THEN <<>> ELSE <<InlineDocument(request, tenant)>>
ServiceIngest(request, caller, settings, staged, roots) ==
    IF Refused(request.paths, IF staged = Unset THEN roots ELSE {staged}) THEN Failed
    ELSE DocumentWindows([kind |-> "list", items |-> Inline(request, caller) \o request.paths],
                         IngestOptions(request, settings, staged), 1)[1]

\* _staged_uploads: the parts with a name, the last of a name, within the budget.
StageStep(s, part, budget) ==
    IF s.over \/ part.name \in {"", ".", ".."} THEN s
    ELSE IF s.written + part.size > budget THEN [s EXCEPT !.over = TRUE]
    ELSE [s EXCEPT !.written = @ + part.size, !.files = (part.name :> part.says) @@ @]
Staged(parts, budget) ==
    FoldLeft(LAMBDA s, part : StageStep(s, part, budget), [over |-> FALSE, written |-> 0, files |-> <<>>], parts)

FileOf(name, says, root) ==
    [root |-> root, parts |-> <<name>>, suffix |-> ".txt", state |-> "fine", content |-> says]
UploadRequest(files, names, root, meta) ==
    [text |-> "", label |-> Unset, meta |-> meta, recursive |-> FALSE,
     paths |-> <<[kind |-> "directory", place |-> root,
                  files |-> [n \in DOMAIN names |-> FileOf(names[n], files[names[n]], root)]]>>]

\* The handler of an upload: `root` is the directory made for this request, in
\* which the walk finds the names in their order.
NamesIn(files, order) == SelectSeq(order, LAMBDA name : name \in DOMAIN files)
Upload(parts, budget, order, root, meta, caller, settings) ==
    LET staged == Staged(parts, budget)
    IN  IF staged.over \/ staged.files = <<>> THEN Failed
        ELSE ServiceIngest(UploadRequest(staged.files, NamesIn(staged.files, order), root, meta),
                           caller, settings, root, {})

IsNamed(part) == part.name \notin {"", ".", ".."}
SizesOf(parts) == [n \in DOMAIN parts |-> IF IsNamed(parts[n]) THEN parts[n].size ELSE 0]
Lasts(parts) ==
    {n \in DOMAIN parts : IsNamed(parts[n]) /\ \A m \in DOMAIN parts : m > n => parts[m].name # parts[n].name}

UploadIsWhole(parts, budget, got) ==
    /\ got.outcome = "failed" <=> (Sum(SizesOf(parts)) > budget \/ Lasts(parts) = {})
    /\ got.outcome = "fine" =>
          /\ {d.content[1] : d \in ToSet(got.docs)} = {parts[n].says : n \in Lasts(parts)} \ Blanks
          /\ Len(got.docs) = Cardinality({n \in Lasts(parts) : parts[n].says \notin Blanks})
          /\ \A d \in ToSet(got.docs) : d.id.tenant = "settings"

\* An upload is loaded whole or not at all: over the budget of all its parts no
\* document is made, and within it every named part is one unless a later part
\* has its name (server/app.py, _staged_uploads, _copy_part).
UploadsAreWhole(parts, budget, order) ==
    UploadIsWhole(parts, budget, Upload(parts, budget, order, "tmp1", <<>>, "caller", "settings"))

\* The same files uploaded again are the same documents, wherever they are
\* staged (server/app.py, RagService.ingest).
UploadsAreKnown(parts, budget, order) ==
    Cardinality({IdsOf(Upload(parts, budget, order, root, <<>>, "caller", "settings").docs) : root \in {"tmp1", "tmp2"}}) = 1

\* Inline text and paths in one request are all loaded or none is: a post of the
\* same label, or without one of the same text, is the same document for its
\* tenant and no other's, the text comes first, and a path that is refused or
\* that does not load leaves nothing of the others.
PostIsWhole(request, alone, got) ==
    /\ got.outcome = "failed" <=> \E n \in DOMAIN alone : request.paths[n].place # "allowed" \/ Raised(alone[n])
    /\ got.outcome = "fine" =>
          got.docs = [n \in DOMAIN Inline(request, "caller") |-> Inline(request, "caller")[n].doc]
                        \o FlattenSeq([n \in DOMAIN alone |-> alone[n].docs])
    /\ got.outcome = "failed" => got.docs = <<>>
    /\ \A d \in ToSet(got.docs) : (d.id.tenant = "caller") = (d.meta["loader"] = "inline")
SameInline(a, b) == InlineDocument(a, "caller").doc.id = InlineDocument(b, "caller").doc.id
PostsAreWhole(request, other) ==
    /\ PostIsWhole(request, [n \in DOMAIN request.paths |-> Load(request.paths[n], "settings")],
                   ServiceIngest(request, "caller", "settings", Unset, {"allowed"}))
    /\ request.text # "" /\ other.text # "" =>
          SameInline(request, other) = (IF request.label = Unset THEN other.label = Unset /\ request.text = other.text
                                        ELSE request.label = other.label)

----------------------------------------------------------------------------
(* The dataset of POST /eval.  A line is "object" with its question, "blank",*)
(* "comment", "malformed" or "invalid".                                      *)

\* load_eval_items: an array, or lines of which some say nothing; all or none.
EvalItems(lines, isArray) ==
    LET records == IF isArray THEN lines ELSE SelectSeq(lines, LAMBDA line : line.kind \notin {"blank", "comment"})
    IN  IF \E n \in DOMAIN records : records[n].kind # "object" THEN Failed
        ELSE Fine([n \in DOMAIN records |-> records[n].question])
EvalDataset(lines, isArray, limit) ==
    LET items == EvalItems(lines, isArray)
    IN  IF Raised(items) \/ items.docs = <<>> THEN Failed
        ELSE Fine(IF limit = 0 THEN items.docs ELSE Top(items.docs, limit))

\* A line that says nothing changes nothing of a dataset, and one that is no case
\* stops it, past the limit too.
DatasetIsRead(lines, isArray, limit) ==
    LET got == EvalDataset(lines, isArray, limit)
    IN  /\ \A n \in DOMAIN lines : lines[n].kind \in {"blank", "comment"} /\ ~isArray =>
              EvalDataset(RemoveAt(lines, n), isArray, limit) = got
        /\ \A n \in DOMAIN lines : lines[n].kind \in {"malformed", "invalid"} => got = Failed
        /\ got # Failed => Len(got.docs) <= Len(lines) /\ got.docs # <<>>
=============================================================================
