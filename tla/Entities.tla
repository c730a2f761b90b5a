------------------------------ MODULE Entities ------------------------------
(***************************************************************************)
(* Entity resolution, index/graph/resolve.py: what chunks say of people and *)
(* things becomes one node for each of them.  Mentions with the same name  *)
(* are one group, groups with the same normalized form are one cluster, and *)
(* clusters that an embedding finds alike are joined unless two of their    *)
(* names disagree.  A name is a sequence of words and the case it is        *)
(* written in; which pairs are alike, best first, is an input, and          *)
(* descriptions are left out.                                               *)
(***************************************************************************)
EXTENDS Lists

CONSTANTS Articles, LegalForms, \* words that a normalized form does without
          Generic,             \* types that say nothing
          DefaultType,         \* of a group without a type
          MaxBlock, MaxPrefix  \* _MAX_BLOCK, _MAX_PREFIX

Key(name) == name.words
Blank(name) == name.words = <<>>
Names(group) == {group[i].name : i \in DOMAIN group}

NormalizedForm(name) ==
    LET w == name.words
        kept == At(w, {i \in DOMAIN w : /\ \E a \in 1 .. i : w[a] \notin Articles
                                        /\ \E b \in i .. Len(w) : w[b] \notin LegalForms})
    IN  IF kept = <<>> THEN w ELSE kept

\* The longest name stands for a group, and of equals the last in the alphabet.
Precedes(m, n) ==
    \/ Len(m.words) > Len(n.words)
    \/ /\ Len(m.words) = Len(n.words)
       /\ \E i \in DOMAIN m.words : /\ \A j \in 1 .. i - 1 : m.words[j] = n.words[j]
                                    /\ m.words[i] > n.words[i]
    \/ m.words = n.words /\ m.case > n.case
Representative(group) ==
    CHOOSE m \in Names(group) : \A n \in Names(group) \ {m} : Precedes(m, n)

\* A vote that names a type outweighs any number of generic ones.
Votes(group, t) ==
    Cardinality({i \in DOMAIN group : group[i].type = t}) * (IF t \in Generic THEN 1 ELSE 1000)
GroupType(group) ==
    LET types == {group[i].type : i \in DOMAIN group} \ {0}
    IN  IF types = {} THEN DefaultType
        ELSE CHOOSE t \in types : \A u \in types :
                Votes(group, t) > Votes(group, u) \/ (Votes(group, t) = Votes(group, u) /\ t <= u)

ExactGroups(mentions) ==
    LET named == SelectSeq(mentions, LAMBDA m : ~Blank(m.name))
        firsts == Greedy(LAMBDA kept, m : \A i \in DOMAIN kept : Key(kept[i].name) # Key(m.name), named)
    IN  [g \in DOMAIN firsts |-> SelectSeq(named, LAMBDA m : Key(m.name) = Key(firsts[g].name))]

Form(group) == NormalizedForm(Representative(group))

\* `_merge_by_normalized_form`: a cluster is known by its first group.
FormRoots(groups) ==
    [g \in DOMAIN groups |->
        Min({h \in DOMAIN groups : /\ Form(groups[h]) = Form(groups[g])
                                   /\ GroupType(groups[h]) = GroupType(groups[g])})]

\* `_blocks`: only groups that start alike are compared, and a block that is
\* too large is split by a longer start.
Block(groups, g) ==
    LET Bucket(p) == {h \in DOMAIN groups : /\ GroupType(groups[h]) = GroupType(groups[g])
                                            /\ Top(Form(groups[h]), p) = Top(Form(groups[g]), p)}
        Ends(p) == Cardinality(Bucket(p)) <= MaxBlock \/ p = MaxPrefix
    IN  Bucket(Min({p \in 1 .. MaxPrefix : Ends(p)}))

\* Two names that share a word conflict when each has one the other lacks.
TokenConflict(s, t) == s \cap t # {} /\ s \ t # {} /\ t \ s # {}

\* Mutation: only the two groups that were found alike are compared.
PairConflict(groups, roots, a, b) ==
    TokenConflict(ToSet(Form(groups[a])), ToSet(Form(groups[b])))

\* `_cluster_conflict`: a conflict anywhere between two clusters keeps them apart.
ClusterConflict(groups, roots, a, b) ==
    \E g, h \in DOMAIN groups : /\ roots[g] = roots[a] /\ roots[h] = roots[b]
                                /\ TokenConflict(ToSet(Form(groups[g])), ToSet(Form(groups[h])))

Join(roots, a, b) ==
    LET pair == {roots[a], roots[b]}
    IN  [g \in DOMAIN roots |-> IF roots[g] \in pair THEN Min(pair) ELSE roots[g]]

UnionSimilar(groups, roots, alike) ==
    FoldLeft(LAMBDA r, pair : IF ClusterConflict(groups, r, pair[1], pair[2])
                              THEN r ELSE Join(r, pair[1], pair[2]),
             roots,
             SelectSeq(alike, LAMBDA pair : /\ {pair[1], pair[2]} \subseteq DOMAIN groups
                                            /\ pair[2] \in Block(groups, pair[1])))

ClusterRoots(groups, alike, resolve) ==
    IF resolve THEN UnionSimilar(groups, FormRoots(groups), alike) ELSE [g \in DOMAIN groups |-> g]

Clusters(groups, roots) ==
    LET tops == Ordered({roots[g] : g \in DOMAIN groups}, <)
    IN  [k \in DOMAIN tops |-> FlattenSeq(At(groups, {g \in DOMAIN groups : roots[g] = tops[k]}))]

MergeGroup(group) ==
    [name |-> Representative(group), type |-> GroupType(group),
     aliases |-> (Names(group) \cup UNION {group[i].aliases : i \in DOMAIN group})
                    \ {Representative(group)},
     chunks |-> UNION {group[i].chunks : i \in DOMAIN group}]

\* `_canonical_map`: a name is its cluster's, an alias the first cluster's that
\* claims it, unless it is a name elsewhere.
CanonicalMap(clusters) ==
    LET Named(k) == {c \in DOMAIN clusters : \E n \in Names(clusters[c]) : Key(n) = k}
        Claims(k) == {c \in DOMAIN clusters : \E i \in DOMAIN clusters[c] :
                        \E n \in clusters[c][i].aliases : Key(n) = k}
        keys == UNION {UNION {{Key(m.name)} \cup {Key(n) : n \in m.aliases} : m \in ToSet(cluster)} :
                          cluster \in ToSet(clusters)}
    IN  [k \in keys |-> Representative(clusters[IF Named(k) # {} THEN Max(Named(k)) ELSE Min(Claims(k))])]

Point(canonical, name) ==
    IF Key(name) \in DOMAIN canonical THEN canonical[Key(name)] ELSE name

EdgeWeight(said) == Sum([i \in DOMAIN said |-> said[i].weight])
EdgeKey(r) == <<Key(r.source), r.type, Key(r.target)>>

\* `_rewrite_relations`: edges end at canonical names; the same edge from two
\* chunks is one of both weights, and one that would be a loop is dropped.
RewriteRelations(relations, canonical) ==
    LET pointed == [i \in DOMAIN relations |->
                        [relations[i] EXCEPT !.source = Point(canonical, @),
                                             !.target = Point(canonical, @)]]
        kept == SelectSeq(pointed, LAMBDA r : ~Blank(r.source) /\ ~Blank(r.target)
                                              /\ Key(r.source) # Key(r.target))
        firsts == Greedy(LAMBDA seen, r : \A i \in DOMAIN seen : EdgeKey(seen[i]) # EdgeKey(r), kept)
    IN  [e \in DOMAIN firsts |->
            LET said == SelectSeq(kept, LAMBDA r : EdgeKey(r) = EdgeKey(firsts[e]))
            IN  [firsts[e] EXCEPT !.weight = EdgeWeight(said),
                                  !.chunks = UNION {said[i].chunks : i \in DOMAIN said}]]

\* `_assign_degree`: the ends of edges at an entity.
Degree(entity, edges) ==
    Cardinality({e \in DOMAIN edges : Key(edges[e].source) = Key(entity.name)})
    + Cardinality({e \in DOMAIN edges : Key(edges[e].target) = Key(entity.name)})

Report(mentions, relations, clusters) ==
    LET canonical == CanonicalMap(clusters)
    IN  [entities |-> [c \in DOMAIN clusters |-> MergeGroup(clusters[c])],
         canonical |-> canonical,
         edges |-> IF mentions = <<>> THEN relations ELSE RewriteRelations(relations, canonical)]

Resolve(mentions, relations, groups, roots) == Report(mentions, relations, Clusters(groups, roots))

NodesOf(report, name) ==
    {e \in DOMAIN report.entities : report.entities[e].name = Point(report.canonical, name)}

MentionsKept(mentions, report) ==
    /\ \A m \in ToSet(mentions) : ~Blank(m.name) =>
          \E e \in DOMAIN report.entities :
             /\ NodesOf(report, m.name) = {e}
             /\ m.name \in report.entities[e].aliases \cup {report.entities[e].name}
             /\ m.chunks \subseteq report.entities[e].chunks
    /\ \A d, e \in DOMAIN report.entities :
          Key(report.entities[d].name) = Key(report.entities[e].name) => d = e

NoConflictJoined(groups, roots) ==
    \A g, h \in DOMAIN groups : roots[g] = roots[h] =>
       ~TokenConflict(ToSet(Form(groups[g])), ToSet(Form(groups[h])))

Survives(report, r) ==
    LET s == Point(report.canonical, r.source)
        t == Point(report.canonical, r.target)
    IN  ~Blank(s) /\ ~Blank(t) /\ Key(s) # Key(t)

EdgesKept(relations, report, edges) ==
    /\ EdgeWeight(edges) = EdgeWeight(SelectSeq(relations, LAMBDA r : Survives(report, r)))
    /\ \A e \in DOMAIN edges : /\ Key(edges[e].source) # Key(edges[e].target)
                               /\ \A f \in DOMAIN edges : EdgeKey(edges[e]) = EdgeKey(edges[f]) => e = f
    /\ Sum([e \in DOMAIN report.entities |-> Degree(report.entities[e], edges)])
          = Sum([e \in DOMAIN edges |-> Cardinality(NodesOf(report, edges[e].source))
                                          + Cardinality(NodesOf(report, edges[e].target))])

ReportKeeps(mentions, relations, report) ==
    /\ MentionsKept(mentions, report)
    /\ mentions # <<>> => EdgesKept(relations, report, report.edges)

GroupsKeep(mentions, relations, groups, roots) ==
    /\ ReportKeeps(mentions, relations, Resolve(mentions, relations, groups, roots))
    /\ NoConflictJoined(groups, roots)

\* Nothing that was said is lost: each mention has one node, which carries its
\* name and its chunks; no two nodes go by one name; no node holds two names
\* that conflict, however long the chain of likenesses; and the edges carry all
\* the weight but that of loops, between nodes when their ends were mentioned.
ResolutionKeeps(mentions, relations, alike, resolve) ==
    LET groups == ExactGroups(mentions)
    IN  GroupsKeep(mentions, relations, groups, ClusterRoots(groups, alike, resolve))
=============================================================================
