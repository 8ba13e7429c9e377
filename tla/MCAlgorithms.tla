---------------------------- MODULE MCAlgorithms ----------------------------
(***************************************************************************)
(* Every input of a small set for each algorithm.                          *)
(***************************************************************************)
EXTENDS Algorithms

Word(id, n)     == Stretch(id, 0, n, 0)
Sentence(id, n) == Stretch(id, 0, n, n)

Items == {<<Sentence(i, n)>> : i \in {"a", "b"}, n \in 1 .. 3}

Packs == {[op |-> "pack", items |-> s, size |-> n, overlap |-> o] :
             s \in UNION {[1 .. k -> Items] : k \in 1 .. 3}, n \in 2 .. 4, o \in {0, 1, 2}}
           \cup {[op |-> "pack", items |-> s, size |-> n, overlap |-> n - 1] :
             s \in [1 .. 5 -> {<<Sentence("a", 1)>>, <<Sentence("b", 1)>>, <<Sentence("a", 2)>>}], n \in 2 .. 3}

Splits == {[op |-> "split", text |-> Stretch("a", 0, n, k), size |-> s, overlap |-> o] :
             n \in 1 .. 16, k \in 0 .. 16, s \in 1 .. 3, o \in 0 .. 2}

Lines == {Sentence("x", 10), Sentence("y", 40), Word("z", 130), Word("z", 4)}

Blocks == {[op |-> "block", block |-> b, size |-> 40, overlap |-> o] :
             b \in {[kind |-> "fence", text |-> <<Fence>> \o s \o e] :
                       s \in UNION {[1 .. k -> Lines] : k \in 1 .. 3}, e \in {<<>>, <<Fence>>}}
                   \cup {[kind |-> "table", header |-> h, text |-> s] :
                       h \in 1 .. 2, s \in UNION {[1 .. k -> Lines] : k \in 2 .. 4}},
             o \in {0, 10}}

Prose(s) == [kind |-> "text", text |-> s]

Contents == {[op |-> "chunk", blocks |-> s, size |-> 40, overlap |-> o] :
               s \in UNION {[1 .. k ->
                       {Prose(<<Sentence("x", 10)>>), Prose(<<Sentence("y", 30)>>),
                        Prose(<<Word("z", 300)>>), Prose(<<Sentence("u", 30), Sentence("v", 30)>>),
                        [kind |-> "fence", text |-> <<Fence, Sentence("p", 25), Sentence("q", 25), Fence>>],
                        [kind |-> "table", header |-> 1,
                         text |-> <<Sentence("h", 5), Sentence("r", 20), Sentence("s", 20)>>]}] : k \in 1 .. 3},
               o \in {0, 10}}

Heading(n)  == [kind |-> "heading", level |-> n, page |-> 0]
OtherLine(k) == [kind |-> k, level |-> 0, page |-> 0]

Documents == {[op |-> "sections", lines |-> s] :
                s \in UNION {[1 .. k -> {Heading(1), Heading(2), Heading(3), OtherLine("text"),
                                         OtherLine("fence")}] : k \in 1 .. 4}}

Pages == [text : BOOLEAN, images : UNION {[1 .. k -> {"d", "e"}] : k \in 0 .. 2}]

Pdfs == {[op |-> "pdf", pages |-> p, legible |-> l, scannable |-> s] :
           p \in [1 .. 2 -> Pages], l \in SUBSET {"d", "e"}, s \in SUBSET {1, 2}}

Reads == {[op |-> "read", digests |-> d, read |-> f] :
            d \in [1 .. 3 -> {"d", "e"}], f \in [1 .. 3 -> {"u", "v"}]}

Rankings == UNION {{s \in [1 .. k -> 1 .. 4] : IsInjective(s)} : k \in 0 .. 3}

Fusions == {[op |-> "fuse", bm25 |-> b, dense |-> d, weight |-> w] :
              b \in Rankings, d \in Rankings, w \in {0, 2, 5}}

Searches == {[op |-> "search", bm25 |-> <<1, 2, 3>>, dense |-> d, weight |-> 2, topK |-> k, limit |-> l,
              relevance |-> r, up |-> u] :
               d \in {<<>>, <<3, 4>>, <<4, 2, 1>>}, k \in 1 .. 2, l \in {1, 3}, r \in [1 .. 4 -> 1 .. 2],
               u \in [vectors : BOOLEAN, keywords : BOOLEAN, model : BOOLEAN]}

Windows == {[op |-> "window", tokens |-> t, hits |-> h, budget |-> b] :
              t \in UNION {[S -> 1 .. 3] : S \in SUBSET (0 .. 4) \ {{}}},
              h \in {{0}, {2}, {0, 4}}, b \in {1, 4, 6}}

Evidence == {[op |-> "evidence", results |-> s, limit |-> n] :
               s \in UNION {[1 .. k -> [chunk : {1, 2}, header : 1 .. 2, text : {0, 1, 4}]] : k \in 0 .. 3},
               n \in {1, 5, 9}}

Answers == {[op |-> "cite", written |-> w, known |-> k] :
              w \in UNION {[1 .. n -> 1 .. 4] : n \in 0 .. 4}, k \in 0 .. 3}

Texts(n) == UNION {[1 .. k -> {"c", "w", "p", "s"}] : k \in 0 .. n}

Cuts == {[op |-> "cut", text |-> t, max |-> m, keep |-> e] :
           t \in Texts(4), m \in 0 .. 3, e \in {"start", "end"}}
          \cup {[op |-> "cut", text |-> [i \in 1 .. n |-> IF i <= k THEN "c" ELSE "w"],
                 max |-> m, keep |-> e] :
                 n \in 8 .. 14, k \in 0 .. 14, m \in 1 .. 5, e \in {"start", "end"}}

Fits == {[op |-> "fit", lines |-> s, max |-> m] :
           s \in UNION {[1 .. k -> {<<>>, <<"c">>, <<"w", "w">>, <<"c", "p">>, <<"c", "s", "c", "c">>}] :
                          k \in 0 .. 4},
           m \in 0 .. 4}

Merges == {[op |-> "merge", previous |-> p, notes |-> n, max |-> m, least |-> l] :
             p \in {[i \in 1 .. k |-> "c"] : k \in 0 .. 8},
             n \in {[i \in 1 .. k |-> "p"] : k \in 1 .. 8}, m \in 2 .. 8, l \in 1 .. 3}

MCCalls == Packs \cup Splits \cup Blocks \cup Contents \cup Documents \cup Pdfs \cup Reads \cup Fusions
             \cup Searches \cup Windows \cup Evidence \cup Answers \cup Cuts \cup Fits \cup Merges
=============================================================================
