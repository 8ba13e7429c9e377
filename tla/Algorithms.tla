----------------------------- MODULE Algorithms -----------------------------
(***************************************************************************)
(* The pure algorithms of the pipeline: one call per behaviour, one action *)
(* per algorithm, and what each result must satisfy.                       *)
(***************************************************************************)
EXTENDS Chunking, Ranking, TokenBudget

CONSTANT Calls     \* the calls to make, as records with the name op

(* Texts are named by strings; for the provers a literal is not one by itself. *)
Ids == STRING \cup {Fence.id}
StretchType == [id : Ids, from : Nat, to : Nat, cjk : Nat]

Passage == {s \in StretchType : s.from <= s.to}

(* A fenced block starts with its fence, and a table has a head. *)
IsBlock(b) ==
    /\ b.text \in Seq(Passage)
    /\ b.kind = "fence" => b.text # <<>> /\ b.text[1] = Fence
    /\ b.kind = "table" => b.header \in 0 .. Len(b.text)

Ranked(list) == list \in Seq(Nat) /\ Len(list) <= Depth /\ IsInjective(list)

(* What the callers pass: lists without a repetition (a key of a table, a row
   of an index), budgets that are not negative, and numbers of chunks.     *)
PackCall(c) ==
    /\ c.items \in Seq(Seq(StretchType)) /\ c.items # <<>>
    /\ \A i \in DOMAIN c.items : Len(c.items[i]) = 1
    /\ c.size \in Nat /\ c.overlap \in Nat

SplitCall(c) == c.text \in Passage /\ c.size \in Nat \ {0} /\ c.overlap \in Nat

(* The service asks for at least 100 tokens; 38 leave room for the fences. *)
BlockCall(c) == IsBlock(c.block) /\ c.size \in Nat /\ c.size >= 38 /\ c.overlap \in Nat

ChunkCall(c) ==
    /\ Len(c.blocks) \in Nat /\ DOMAIN c.blocks = 1 .. Len(c.blocks)
    /\ \A i \in DOMAIN c.blocks : IsBlock(c.blocks[i])
    /\ c.size \in Nat \ {0} /\ c.overlap \in Nat

FuseCall(c) == Ranked(c.bm25) /\ Ranked(c.dense) /\ c.weight \in 0 .. 5

SearchCall(c) ==
    /\ FuseCall(c) /\ c.topK \in Nat /\ c.limit \in Nat
    /\ c.up \in [vectors : BOOLEAN, keywords : BOOLEAN, model : BOOLEAN]
    /\ \A x \in ToSet(c.bm25) \cup ToSet(c.dense) : c.relevance[x] \in Int

WindowCall(c) ==
    /\ IsFiniteSet(DOMAIN c.tokens) /\ DOMAIN c.tokens \subseteq Nat
    /\ \A i \in DOMAIN c.tokens : c.tokens[i] \in Nat
    /\ IsFiniteSet(c.hits) /\ c.hits \subseteq Nat /\ c.hits # {} /\ c.budget \in Nat

EvidenceCall(c) == c.results \in Seq([chunk : Nat, header : Nat, text : Nat]) /\ c.limit \in Nat

CiteCall(c) == c.written \in Seq(Nat) /\ c.known \in Nat

CutCall(c) == c.text \in Seq(Char) /\ c.max \in Nat /\ c.keep \in {"start", "end"}

FitCall(c) == c.lines \in Seq(Seq(Char)) /\ c.max \in Nat

SectionCall(c) ==
    c.lines \in Seq([kind : {"heading", "text", "fence"}, level : Nat, page : Nat])
    /\ \A i \in DOMAIN c.lines : c.lines[i].kind = "heading" => c.lines[i].level > 0

PdfCall(c) == c.pages \in Seq([text : BOOLEAN, images : Seq(STRING)])

ReadCall(c) == c.digests \in Seq(STRING) /\ DOMAIN c.read = DOMAIN c.digests

MergeCall(c) ==
    /\ c.previous \in Seq(Char \ {"p"}) /\ c.notes \in Seq({"p"}) /\ c.notes # <<>>
    /\ c.max \in Nat \ {0} /\ c.least \in Nat

ASSUME AlgorithmsAssumption ==
    \A c \in Calls : /\ c.op = "pack" => PackCall(c)
                     /\ c.op = "split" => SplitCall(c)
                     /\ c.op = "block" => BlockCall(c)
                     /\ c.op = "chunk" => ChunkCall(c)
                     /\ c.op = "sections" => SectionCall(c)
                     /\ c.op = "pdf" => PdfCall(c)
                     /\ c.op = "read" => ReadCall(c)
                     /\ c.op = "fuse" => FuseCall(c)
                     /\ c.op = "search" => SearchCall(c)
                     /\ c.op = "window" => WindowCall(c)
                     /\ c.op = "evidence" => EvidenceCall(c)
                     /\ c.op = "cite" => CiteCall(c)
                     /\ c.op = "cut" => CutCall(c)
                     /\ c.op = "fit" => FitCall(c)
                     /\ c.op = "merge" => MergeCall(c)

VARIABLES call, done, result

vars == <<call, done, result>>

-----------------------------------------------------------------------------
Init == call \in Calls /\ done = FALSE /\ result = <<>>

Return(value) ==
    /\ ~done
    /\ done' = TRUE
    /\ result' = value
    /\ UNCHANGED call

Packing    == call.op = "pack"     /\ Return(Pack(call.items, call.size, call.overlap))
Splitting  == call.op = "split"    /\ Return(HardSplit(call.text, call.size, call.overlap))
Blocking   == call.op = "block"    /\ Return(SplitOversized(call.block, call.size, call.overlap))
Chunking   == call.op = "chunk"    /\ Return(ChunkBlocks(call.blocks, call.size, call.overlap))
Sectioning == call.op = "sections" /\ Return(Sections(call.lines))
Converting == call.op = "pdf"      /\ Return(ConvertPdf(call.pages, 0, call.legible, call.scannable))
Reading    == call.op = "read"     /\ Return(ExtractImages(call.digests, call.read))
Fusing     == call.op = "fuse"     /\ Return(Fuse(call.bm25, call.dense, call.weight))
Searching  == call.op = "search"   /\ Return(Search(call.bm25, call.dense, call.weight, call.topK, call.limit,
                                                      call.relevance, call.up))
Neighbouring ==
    /\ call.op = "window"
    /\ LET rows == Restrict(call.tokens, Neighbours(DOMAIN call.tokens, call.hits, 1))
       IN  Return([h \in call.hits |-> IF DOMAIN rows = {} THEN {}
                                       ELSE ParentWindow(rows, h, call.budget)])
Proving    == call.op = "evidence" /\ Return(BuildEvidence(call.results, call.limit))
Records(n) == [i \in 1 .. n |-> [source |-> i]]
Citing     == call.op = "cite"     /\ Return([answer   |-> ValidCitations(call.written, Records(call.known)),
                                              fallback |-> Fallback(Records(call.known), 2)])
Cutting    == call.op = "cut"      /\ Return(TruncateTokens(call.text, call.max, call.keep))
Fitting    == call.op = "fit"      /\ Return([recent  |-> FitRecentLines(call.lines, call.max),
                                              section |-> SectionLines(call.lines, call.max)])
Merging    == call.op = "merge"    /\ Return(
    [summary |-> MergeSummary(call.previous, call.notes, call.max, call.least),
     history |-> BoundedHistory(call.previous, <<call.notes, <<"w">>>>, call.max, call.max, call.max)])

Next == \/ Packing \/ Splitting \/ Blocking \/ Chunking \/ Sectioning \/ Converting \/ Reading \/ Fusing
        \/ Searching \/ Neighbouring \/ Proving \/ Citing \/ Cutting \/ Fitting \/ Merging

Spec == Init /\ [][Next]_vars

Returned(op) == done /\ call.op = op

-----------------------------------------------------------------------------
(* Chunks are runs of the text in its order: the first starts at its head,
   each starts inside or right behind the one before and repeats no more of
   it than the overlap, and the last says what the text ends with (a final
   chunk that would only repeat the one before it is dropped).             *)
PackedInOrder ==
    Returned("pack") =>
        \E at \in [1 .. Len(result) -> 1 .. Len(call.items)] :
            LET end(k) == at[k] + Len(result[k]) - 1 IN
            /\ result # <<>> /\ at[1] = 1
            /\ \A k \in DOMAIN result : end(k) <= Len(call.items)
                                        /\ result[k] = SubSeq(call.items, at[k], end(k))
            /\ \A k \in 1 .. Len(result) - 1 :
                  /\ at[k] < at[k + 1] /\ at[k + 1] <= end(k) + 1
                  /\ Total(SubSeq(call.items, at[k + 1], end(k))) <= call.overlap
            /\ LastOf(call.items, Len(Last(result))) = Last(result)

(* A chunk of several texts, overlap included, keeps to the token budget.  *)
PackFits ==
    Returned("pack") => \A k \in DOMAIN result :
                            Len(result[k]) > 1 => Total(result[k]) <= call.size

(* Cutting a long sentence ends, leaves out no character and goes back no
   further than the overlap; the windows of a text of ideographs fit.      *)
SplitCovers ==
    Returned("split") =>
        LET t == call.text IN
        /\ Head(result).from = t.from /\ Last(result).to = t.to
        /\ \A k \in 1 .. Len(result) - 1 :
              /\ result[k].from < result[k + 1].from /\ result[k + 1].from <= result[k].to
              /\ result[k].to - result[k + 1].from <= Window(t, call.overlap)
        /\ 10 * Ideographs(t) >= 3 * Chars(t) =>
              \A k \in DOMAIN result : ApproxTokens(result[k]) <= call.size

(* A table that is too long for a chunk loses no row, keeps their order and
   repeats its head over every part, and a part of several rows fits.      *)
TableRowsKept ==
    (Returned("block") /\ call.block.kind = "table") =>
        LET h == call.block.header
            rows(p) == SubSeq(p, h + 1, Len(p))
        IN  /\ FlattenSeq([k \in DOMAIN result |-> rows(result[k])]) = rows(call.block.text)
            /\ \A k \in DOMAIN result :
                  /\ SubSeq(result[k], 1, h) = SubSeq(call.block.text, 1, h)
                  /\ Len(result[k]) > h + 1 => TextTokens(result[k]) <= call.size

(* A window of a stretch has as many tokens as it is cut for: the stretch is
   one word, or it is cut for ideographs alone.                            *)
Uniform(s) == Ideographs(s) = 0 \/ 10 * Ideographs(s) >= 3 * Chars(s)

(* Every part of a code block is fenced again, also when the block was cut
   off before its closing fence, and together they hold every character of
   every line; and the parts fit with their fences, unless a line that has
   to be cut is a word with a few ideographs in a bunch.                   *)
FencedPartsFit ==
    (Returned("block") /\ call.block.kind = "fence") =>
        /\ \A k \in DOMAIN result : Head(result[k]) = Fence /\ Last(result[k]) = Fence
        /\ (\A s \in ToSet(call.block.text) : Uniform(s) \/ ApproxTokens(s) <= call.size - 8) =>
              \A k \in DOMAIN result : TextTokens(result[k]) <= call.size
        /\ \A s \in ToSet(call.block.text) : \A i \in s.from .. s.to - 1 :
              \E k \in DOMAIN result : \E p \in ToSet(result[k]) :
                  p.id = s.id /\ i \in p.from .. p.to - 1

(* The chunks of a section hold every character of every block, and one that
   is packed from several parts fits.                                      *)
ChunksHoldAll ==
    Returned("chunk") =>
        LET chunks == [k \in DOMAIN result |-> FlattenSeq(result[k])] IN
        /\ \A k \in DOMAIN result : Len(result[k]) > 1 => TextTokens(chunks[k]) <= call.size
        /\ \A b \in ToSet(call.blocks) : \A s \in ToSet(b.text) : \A i \in s.from .. s.to - 1 :
              \E k \in DOMAIN chunks : \E p \in ToSet(chunks[k]) :
                  p.id = s.id /\ i \in p.from .. p.to - 1

(* The unfenced heading lines, those around line i, and whether no heading
   skips a level.                                                          *)
Fenced(l, i)   == Cardinality({j \in 1 .. i - 1 : l[j].kind = "fence"}) % 2 = 1
Headings(l)    == {j \in DOMAIN l : l[j].kind = "heading" /\ ~Fenced(l, j)}
Around(l, i)   == {j \in Headings(l) : j < i /\ \A k \in Headings(l) :
                      k \in j + 1 .. i - 1 => l[k].level > l[j].level}
Regular(l)     == \A i \in Headings(l) :
                      Cardinality({j \in Around(l, i) : l[j].level < l[i].level}) = l[i].level - 1

(* A list of the members of S in rising order. *)
Lists(list, S) == ToSet(list) = S /\ \A i, j \in DOMAIN list : i < j => list[i] < list[j]

(* Every line under headings is in one section, in order, and where the
   headings skip no level its path names exactly the headings around it.   *)
SectionsEnclose ==
    (Returned("sections") /\ Headings(call.lines) # DOMAIN call.lines) =>
        /\ Lists(FlattenSeq([k \in DOMAIN result |-> result[k].content]),
                 DOMAIN call.lines \ Headings(call.lines))
        /\ Regular(call.lines) => \A k \in DOMAIN result : \A i \in ToSet(result[k].content) :
              ToSet(result[k].path) = Around(call.lines, i)

(* The page an image is on first, one behind the last if it is on none.    *)
HomePage(pages, d) == Min({Len(pages) + 1} \cup {r \in DOMAIN pages : d \in ToSet(pages[r].images)})

(* The page number of a chunk of a PDF is that of the page its text, its
   rendering or the first occurrence of its image is on; every text and
   every legible image is there once, and a page is rendered only when
   nothing else on it could be read.                                       *)
PdfPagesRight ==
    Returned("pdf") =>
        LET lines == result
            pages == call.pages
            home(of) == IF of[1] = "image" THEN HomePage(pages, of[2]) ELSE of[2]
            sections == Sections(lines)
            kept == FlattenSeq([k \in DOMAIN sections |-> sections[k].content])
            origin == [i \in DOMAIN kept |-> lines[kept[i]].of]
        IN  /\ \A k \in DOMAIN sections : \A i \in ToSet(sections[k].content) :
                  lines[i].kind = "text" =>
                      PageNumber(lines, sections[k].path) = home(lines[i].of)
            /\ \A d \in call.legible \cap UNION {ToSet(pages[r].images) : r \in DOMAIN pages} :
                  Cardinality({i \in DOMAIN origin : origin[i] = <<"image", d>>}) = 1
            /\ \A r \in DOMAIN pages :
                  /\ pages[r].text <=> Contains(origin, <<"text", r>>)
                  /\ Contains(origin, <<"scan", r>>) =>
                        ~pages[r].text /\ \A d \in call.legible : home(<<"image", d>>) # r

(* Images are read once per digest, and each gets what was read of it.     *)
ReadsAligned ==
    Returned("read") => \A i, j \in DOMAIN call.digests :
        /\ \E k \in DOMAIN call.read : call.digests[k] = call.digests[i] /\ result[i] = call.read[k]
        /\ call.digests[i] = call.digests[j] => result[i] = result[j]

-----------------------------------------------------------------------------
Ahead(list, a, b) == \E i \in DOMAIN list : list[i] = a /\ \A j \in DOMAIN list : list[j] = b => i < j

(* Fusion keeps every chunk once, and a chunk that neither list puts behind
   another, and a list of some weight puts ahead, comes out ahead of it.   *)
FusionIsMonotone ==
    Returned("fuse") =>
        /\ ToSet(result) = ToSet(call.bm25) \cup ToSet(call.dense) /\ IsInjective(result)
        /\ \A i, j \in DOMAIN result :
              LET a == result[i]
                  b == result[j]
              IN  /\ ~Ahead(call.bm25, b, a) /\ ~Ahead(call.dense, b, a)
                  /\ \/ call.weight > 0 /\ Ahead(call.bm25, a, b)
                     \/ call.weight < 5 /\ Ahead(call.dense, a, b)
                  => i < j

(* A search gives what the parts that are up have found, as much of it as
   was asked for, never a chunk twice, and nothing that the reranker rates
   above a hit is left behind among the candidates.                        *)
SearchFindsBest ==
    Returned("search") =>
        LET u == call.up
            found == (IF u.keywords THEN ToSet(call.bm25) ELSE {})
                       \cup (IF u.vectors THEN ToSet(call.dense) ELSE {})
            fused == Fused(call.bm25, call.dense, call.weight, u)
            considered == SubSeq(fused, 1, Min({Len(fused), Max({call.topK, call.limit})}))
        IN  /\ result.ok <=> (u.vectors \/ u.keywords)
            /\ ToSet(result.hits) \subseteq found /\ IsInjective(result.hits)
            /\ Len(result.hits) = Min({Cardinality(found), call.topK})
            /\ IF u.model
               THEN \A c \in ToSet(considered) \ ToSet(result.hits) : \A h \in ToSet(result.hits) :
                        call.relevance[c] <= call.relevance[h]
               ELSE IsPrefix(result.hits, fused)

(* The window around a hit is one run of neighbouring chunks with the hit in
   it, within the budget unless the hit alone exceeds it, it stops only at
   a chunk that does not fit, and it grows on both sides alike.            *)
WindowsAreBalanced ==
    Returned("window") => \A h \in call.hits :
        LET t == call.tokens
            rows == Neighbours(DOMAIN t, call.hits, 1)
            w == result[h]
            next == {i \in rows \ w : \A j \in rows \ w : (i < h) = (j < h) =>
                        IF i < h THEN j <= i ELSE j >= i}
            side(S, left) == Cardinality({i \in S : IF left THEN i < h ELSE i > h})
        IN  IF h \notin rows THEN w = {}
            ELSE /\ h \in w /\ w \subseteq rows
                 /\ \A i \in w, j \in w, k \in rows : i < k /\ k < j => k \in w
                 /\ w # {h} => SumFunctionOnSet(t, w) <= call.budget
                 /\ w # rows => \E i \in next : SumFunctionOnSet(t, w) + t[i] > call.budget
                 /\ rows = Min(rows) .. Max(rows) => \A left \in BOOLEAN :
                       side(w, left) < side(rows, left) => side(w, ~left) <= side(w, left) + 1

(* The evidence keeps to its length with labels and separators, takes the
   results in order, leaving out only empty ones and, when it is full, the
   last, and numbers them 1..n.                                            *)
EvidenceFits ==
    Returned("evidence") =>
        LET n == Len(result.records)
            texts == {j \in DOMAIN call.results : call.results[j].text > 0}
        IN  /\ result.length <= call.limit
            /\ \E at \in [1 .. n -> texts] :
                  /\ \A i \in 1 .. n : /\ result.records[i].source = i /\ result.records[i].text > 0
                                       /\ result.records[i].chunk = call.results[at[i]].chunk
                                       /\ \A j \in texts : j < at[i] => \E k \in 1 .. i - 1 : at[k] = j
                  /\ \A j \in texts : \/ \E i \in 1 .. n : at[i] = j
                                      \/ \E k \in texts : k <= j /\ result.used + call.results[k].header
                                                                     >= call.limit

First(list, x) == CHOOSE i \in DOMAIN list : list[i] = x /\ \A j \in 1 .. i - 1 : list[j] # x

(* An answer cites only evidence it was given, each piece once in the order
   of first use, and every number left in it has its citation.             *)
CitationsExist ==
    Returned("cite") =>
        LET cited == [i \in DOMAIN result.answer.records |-> result.answer.records[i].source] IN
        /\ IsInjective(cited)
        /\ ToSet(cited) = ToSet(call.written) \cap 1 .. call.known
        /\ ToSet(result.answer.text) = ToSet(cited)
        /\ \A i, j \in DOMAIN cited : i < j => First(call.written, cited[i]) < First(call.written, cited[j])
        /\ Len(result.fallback) = Min({2, call.known}) /\ IsPrefix(result.fallback, Records(call.known))

-----------------------------------------------------------------------------
(* A cut text is an end of the text, fits, and is the text if that fits.   *)
TruncateFits ==
    Returned("cut") =>
        /\ CountTokens(result) <= call.max
        /\ \/ \E n \in 0 .. Len(call.text) : result = Strip(Part(call.text, n, call.keep))
           \/ result = call.text
        /\ call.max > 0 /\ CountTokens(call.text) <= call.max => result = call.text

Sized(lines) == SumFunction([i \in DOMAIN lines |-> CountTokens(lines[i])])

(* Recent lines are the longest run of newest lines that fits, or what is
   left of the newest; a section may exceed its budget by its bullet only. *)
RecentLinesFit ==
    Returned("fit") =>
        LET n == Len(call.lines)
            tail(k) == SubSeq(call.lines, n - k + 1, n)
            best == Max({k \in 0 .. n : Sized(tail(k)) <= call.max})
        IN  /\ Sized(result.recent) <= call.max /\ Sized(result.section) <= call.max + 1
            /\ call.max > 0 /\ best > 0 => result.recent = tail(best)
            /\ call.max > 0 /\ best = 0 /\ n > 0 =>
                  result.recent = <<TruncateTokens(call.lines[n], call.max, "end")>>

(* A summary fits, and the previous one never crowds out the notes on the
   messages that are being compacted, as long as its share is less than all
   of the budget; the newest line is never cut from the prompt.            *)
NewNotesSurvive ==
    Returned("merge") =>
        LET share == Max({call.least, call.max \div 4})
            kept == Cardinality({i \in DOMAIN result.summary : result.summary[i] = "p"})
        IN  /\ CountTokens(result.summary) <= call.max /\ CountTokens(result.history) <= call.max
            /\ kept >= Min({Len(call.notes), call.max - share})
            /\ Last(result.history) = "w"

-----------------------------------------------------------------------------
(* Stage by stage. *)

(* Chunks are made of whole texts in their order, with no more overlap and no
   more tokens than was asked for (chunker.py, 162-202 and 636-668).       *)
PackingIsSound == PackedInOrder /\ PackFits

(* What is too long for one chunk is split without loss: sentences, tables,
   code blocks and what is packed from them (chunker.py, 136-159 and 671-698). *)
SplittingLosesNothing == SplitCovers /\ TableRowsKept /\ FencedPartsFit /\ ChunksHoldAll

(* Every piece of a document is under the headings, on the page and with the
   reading that are its own (chunker.py, 316-361, 401-473 and 605-633).    *)
StructureIsKept == SectionsEnclose /\ PdfPagesRight /\ ReadsAligned

(* Whichever of the three rankers are up, the best of what they find comes
   first (embeddings.py, 381-474 and 626-643).                             *)
RankingIsSound == FusionIsMonotone /\ SearchFindsBest

(* The context of an answer keeps to its budgets, and the answer cites only
   from it (parent_context.py, 21-55; answering.py, 46-103 and 210-227).   *)
EvidenceIsSound == WindowsAreBalanced /\ EvidenceFits /\ CitationsExist

(* Texts, recent lines, summaries and history keep to their budgets and to
   what is newest (token_budget.py, 77-116; conversation_context.py, 229-301). *)
BudgetsAreKept == TruncateFits /\ RecentLinesFit /\ NewNotesSurvive
=============================================================================
