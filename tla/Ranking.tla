------------------------------ MODULE Ranking ------------------------------
(***************************************************************************)
(* From two ranked lists of chunks to the evidence and the citations of an *)
(* answer: fusion and reranking (app/rag/embeddings.py), the parent window *)
(* of a hit (app/rag/parent_context.py), the numbered evidence and the     *)
(* citations that survive (app/rag/answering.py).                          *)
(*                                                                         *)
(* Scores are exact: a reciprocal rank 1/(60+r) is written over the common *)
(* denominator Scale, and a weight in fifths.                              *)
(***************************************************************************)
EXTENDS Integers, SequencesExt

CONSTANTS
    Depth,       \* bound on the ranks
    Scale        \* a common multiple of 61 .. 60 + Depth

ASSUME RankingAssumption ==
    /\ Depth \in Nat /\ Scale \in Nat \ {0}
    /\ \A r \in 1 .. Depth : Scale % (60 + r) = 0

Rank(list, c) == SelectInSeq(list, LAMBDA x : x = c)

Reciprocal(list, c) == IF c \in ToSet(list) THEN Scale \div (60 + Rank(list, c)) ELSE 0

Score(bm25, dense, weight, c) ==
    weight * Reciprocal(bm25, c) + (5 - weight) * Reciprocal(dense, c)

(* The elements of S in the strict order Before. *)
Sorted(S, Before(_, _)) == CHOOSE s \in [1 .. Cardinality(S) -> S] : IsSorted(s, Before)

(* A stable sort by falling score of the chunks in the order in which the
   score table first names them.                                           *)
Fuse(bm25, dense, weight) ==
    LET Place(c) == IF c \in ToSet(bm25) THEN Rank(bm25, c) ELSE Len(bm25) + Rank(dense, c)
        Before(a, b) ==
            LET sa == Score(bm25, dense, weight, a)
                sb == Score(bm25, dense, weight, b)
            IN  sa > sb \/ (sa = sb /\ Place(a) < Place(b))
    IN  Sorted(ToSet(bm25) \cup ToSet(dense), Before)

\* Mutant: the candidates are cut before the model rates them.
RerankPrefix(candidates, topK, relevance, works) ==
    SubSeq(candidates, 1, Min({Len(candidates), topK}))

(* Rerank the fused candidates by the score the cross-encoder gives each, or
   keep the fused order when there are no more than topK of them or the
   model fails.                                                            *)
Rerank(candidates, topK, relevance, works) ==
    LET Before(a, b) == relevance[a] > relevance[b]
                        \/ (relevance[a] = relevance[b] /\ Rank(candidates, a) < Rank(candidates, b))
        order == IF works THEN Sorted(ToSet(candidates), Before) ELSE candidates
    IN  IF Len(candidates) <= topK THEN candidates ELSE SubSeq(order, 1, topK)

(* Without an index of keywords its weight is nothing; without the vector
   service the keywords stand alone.                                       *)
Fused(bm25, dense, weight, up) ==
    Fuse(IF up.keywords THEN bm25 ELSE <<>>, IF up.vectors THEN dense ELSE <<>>,
         IF up.keywords THEN weight ELSE 0)

(* Retrieval: up to Max(topK, limit) fused candidates are reranked; without
   both sources the search fails.                                          *)
Search(bm25, dense, weight, topK, limit, relevance, up) ==
    LET fused == Fused(bm25, dense, weight, up)
    IN  IF ~up.vectors /\ ~up.keywords THEN [ok |-> FALSE, hits |-> <<>>]
        ELSE [ok |-> TRUE,
              hits |-> Rerank(SubSeq(fused, 1, Min({Len(fused), Max({topK, limit})})),
                              topK, relevance, up.model)]

-----------------------------------------------------------------------------
(* The window around a hit, a round of its loop at a time: tokens[i] is the
   length of the neighbouring chunk i.  Sides are tried in turn; a side
   without a chunk is stepped over, and the first chunk that does not fit
   ends the window.                                                        *)
Turn(w, tokens, budget) ==
    LET i == IF w.onLeft THEN w.left ELSE w.right
        moved == IF w.onLeft THEN [w EXCEPT !.onLeft = FALSE, !.left = @ - 1]
                             ELSE [w EXCEPT !.onLeft = TRUE, !.right = @ + 1]
    IN  CASE w.ended -> w
          [] ~w.ended /\ i \in DOMAIN tokens ->
                IF w.used + tokens[i] > budget THEN [w EXCEPT !.ended = TRUE]
                ELSE [moved EXCEPT !.chosen = @ \cup {i}, !.used = @ + tokens[i]]
          [] ~w.ended /\ i \notin DOMAIN tokens ->
                IF w.left < Min(DOMAIN tokens) /\ w.right > Max(DOMAIN tokens)
                THEN [w EXCEPT !.ended = TRUE]
                ELSE moved

(* As many rounds as the loop can have. *)
Turns(tokens) == 2 * (Max(DOMAIN tokens) - Min(DOMAIN tokens)) + 3

ParentWindow(tokens, center, budget) ==
    LET after[k \in 0 .. Turns(tokens)] ==
            IF k = 0 THEN [left |-> center - 1, right |-> center + 1, onLeft |-> TRUE,
                           chosen |-> {center}, used |-> tokens[center], ended |-> FALSE]
                     ELSE Turn(after[k - 1], tokens, budget)
    IN  IF center \in DOMAIN tokens THEN after[Turns(tokens)].chosen ELSE {}

(* Rows read for the hits of one document, `radius' beyond the outermost.   *)
Neighbours(stored, hits, radius) ==
    stored \cap (Min(hits) - radius .. Max(hits) + radius)

-----------------------------------------------------------------------------
NoSeparator == 0    \* mutant: the blank line between two pieces is not counted

Separator == 2

(* One result [chunk, header, text], with the lengths of its label line and
   of its context, becomes a record [source, chunk, text].                 *)
Cite(s, r, limit) ==
    LET remaining == limit - s.used - r.header
        text == Min({r.text, remaining})
        used == s.used + r.header + text + Separator
    IN  CASE s.full \/ r.text = 0 -> s
          [] ~s.full /\ r.text > 0 /\ remaining <= 0 -> [s EXCEPT !.full = TRUE]
          [] ~s.full /\ r.text > 0 /\ remaining > 0 ->
                [records |-> Append(s.records, [source |-> Len(s.records) + 1,
                                                chunk |-> r.chunk, text |-> text]),
                 length |-> s.length + r.header + text + (IF s.records = <<>> THEN 0 ELSE 2),
                 used |-> used, full |-> used >= limit]

(* Numbered evidence. *)
BuildEvidence(results, limit) ==
    FoldLeft(LAMBDA s, r : Cite(s, r, limit),
             [records |-> <<>>, length |-> 0, used |-> 0, full |-> FALSE], results)

Once(seen, n) == IF Contains(seen, n) THEN seen ELSE Append(seen, n)

(* The answer's citations are the numbers the model wrote; those that name no
   record are deleted, the others returned once each in the order of use.  *)
ValidCitations(written, records) ==
    LET valid == {records[i].source : i \in DOMAIN records}
        kept  == FoldLeft(LAMBDA text, n : IF n \in valid THEN Append(text, n) ELSE text, <<>>, written)
        cited == FoldLeft(Once, <<>>, kept)
    IN  [text |-> kept,
         records |-> [i \in DOMAIN cited |->
                         records[CHOOSE j \in DOMAIN records : records[j].source = cited[i]]]]

Fallback(records, limit) == SubSeq(records, 1, Min({Len(records), Max({1, limit})}))
=============================================================================
