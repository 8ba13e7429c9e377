------------------------- MODULE AlgorithmInvariants -------------------------
(***************************************************************************)
(* What AlgorithmProofs and ChunkingProofs argue with: for each loop its   *)
(* step and the predicate that holds after every round, for each algorithm *)
(* what it promises of one call, and for the state machine its inductive   *)
(* invariant.                                                              *)
(***************************************************************************)
EXTENDS Algorithms

-----------------------------------------------------------------------------
(* Loops.  A fold of the library is defined by a recursion over the sets of
   positions; AlgorithmProofs shows that it is a run, a value after every
   round. *)

(* f is a loop of n rounds over values of V. *)
Run(f, n, V, start, step) ==
    f \in [0 .. n -> V] /\ f[0] = start /\ \A i \in 1 .. n : f[i] = step[i][f[i - 1]]

(* A fold of the library runs over all subsets of the positions. *)
Folded(it, n, V, start, step) ==
    /\ it \in [SUBSET (1 .. n) -> V]
    /\ it[{}] = start
    /\ \A s \in SUBSET (1 .. n) : s # {} => it[s] = step[Max(s)][it[s \ {Max(s)}]]

(* What the definition of a fold says of the values it reaches. *)
FoldSteps(iter, n, V, start, step) ==
    /\ iter[{}] = start
    /\ \A s \in SUBSET (1 .. n) :
          (s # {} /\ iter[s \ {Max(s)}] \in V) => iter[s] = step[Max(s)][iter[s \ {Max(s)}]]

(* Such a loop ends with this value. *)
EndsAt(n, V, start, step, value) == \E f : Run(f, n, V, start, step) /\ f[n] = value

-----------------------------------------------------------------------------
(* Sorting, and the fusion of two ranked lists. *)

(* R orders S strictly and totally. *)
Order(S, R) ==
    /\ R \in SUBSET (S \X S)
    /\ \A x \in S : <<x, x>> \notin R
    /\ \A x, y, z \in S : <<x, y>> \in R /\ <<y, z>> \in R => <<x, z>> \in R
    /\ \A x, y \in S : x # y => <<x, y>> \in R \/ <<y, x>> \in R

(* s puts the elements of S in the order R. *)
Arranges(s, S, R) ==
    /\ s \in [1 .. Cardinality(S) -> S]
    /\ \A i, j \in 1 .. Cardinality(S) : i < j => <<s[i], s[j]>> \in R

(* What can be fused: two ranked lists and a weight. *)
Fusible(bm25, dense, weight) == Ranked(bm25) /\ Ranked(dense) /\ weight \in 0 .. 5

(* What the fusion of two lists promises. *)
FusedInOrder(bm25, dense, weight, f) ==
    /\ ToSet(f) = ToSet(bm25) \cup ToSet(dense) /\ IsInjective(f)
    /\ \A i, j \in DOMAIN f :
          LET a == f[i]
              b == f[j]
          IN  /\ ~Ahead(bm25, b, a) /\ ~Ahead(dense, b, a)
              /\ \/ weight > 0 /\ Ahead(bm25, a, b)
                 \/ weight < 5 /\ Ahead(dense, a, b)
              => i < j

-----------------------------------------------------------------------------
(* Reranking and searching. *)

(* What reranking makes of a list of candidates. *)
RerankedWell(r, list, topK, relevance, works) ==
    /\ r \in Seq(Nat) /\ IsInjective(r) /\ ToSet(r) \subseteq ToSet(list)
    /\ Len(r) = Min({Len(list), topK})
    /\ works => \A c \in ToSet(list) \ ToSet(r) : \A h \in ToSet(r) : relevance[c] <= relevance[h]
    /\ ~works => IsPrefix(r, list)

(* A hit list in view of what a search should find. *)
FoundBest(bm25, dense, weight, topK, limit, relevance, up, given) ==
    LET found == (IF up.keywords THEN ToSet(bm25) ELSE {})
                   \cup (IF up.vectors THEN ToSet(dense) ELSE {})
        fused == Fused(bm25, dense, weight, up)
        considered == SubSeq(fused, 1, Min({Len(fused), Max({topK, limit})}))
    IN  /\ given.ok <=> (up.vectors \/ up.keywords)
        /\ ToSet(given.hits) \subseteq found /\ IsInjective(given.hits)
        /\ Len(given.hits) = Min({Cardinality(found), topK})
        /\ IF up.model
           THEN \A c \in ToSet(considered) \ ToSet(given.hits) : \A h \in ToSet(given.hits) :
                    relevance[c] <= relevance[h]
           ELSE IsPrefix(given.hits, fused)

-----------------------------------------------------------------------------
(* Sums over finite sets. *)

(* g is the sum of f over every part of S. *)
Additive(g, f, S) ==
    /\ g \in [SUBSET S -> Nat]
    /\ g[{}] = 0
    /\ \A s \in SUBSET S : \A x \in s : g[s] = f[x] + g[s \ {x}]

-----------------------------------------------------------------------------
(* Tokens. *)

(* Where two texts meet, no word goes on. *)
Apart(a, b) == a = <<>> \/ b = <<>> \/ a[Len(a)] # "w" \/ b[1] # "w"

(* The positions of S, moved by d. *)
Shifted(S, d) == {d + i : i \in S}

(* The positions at which a token starts. *)
Tokens(text) == {i \in 1 .. Len(text) : TokenAt(text, i)}

-----------------------------------------------------------------------------
(* Cutting a text. *)

(* f goes down from a number to the first one of `stop' it meets. *)
Descent(f, n, stop, down) ==
    \A k \in 0 .. n : f[k] = IF k \in stop THEN k ELSE f[down[k]]

(* The values of `down' where f goes on. *)
Downwards(n, stop, down) ==
    0 \in stop /\ \A k \in 1 .. n : k \notin stop => down[k] \in 0 .. k - 1

(* The recursive function behind a descent. *)
Falls(f, n, stop, down) == f = [k \in 0 .. n |-> IF k \in stop THEN k ELSE f[down[k]]]

(* The first guess of TruncateTokens. *)
Guess(text, max) == Max({1, (Len(text) * max) \div CountTokens(text)})

(* What a cut text is, for one call. *)
CutWell(r, text, max, keep) ==
    /\ CountTokens(r) <= max
    /\ \/ \E n \in 0 .. Len(text) : r = Strip(Part(text, n, keep))
       \/ r = text
    /\ max > 0 /\ CountTokens(text) <= max => r = text

-----------------------------------------------------------------------------
(* The newest lines that fit. *)

(* The state of the loop of FitNewest. *)
FittingState == [lines : Seq(Seq(Char)), used : Nat, full : BOOLEAN]

(* Its start. *)
NoLine == [lines |-> <<>>, used |-> 0, full |-> FALSE]

(* Its step, from the newest line back. *)
LineStep(items, max, mark) ==
    [i \in 1 .. Len(items) |-> [v \in FittingState |-> TakeLine(v, Reverse(items)[i], max, mark)]]

(* The tokens of every line behind its mark. *)
Weights(items, mark) == [i \in 1 .. Len(items) |-> CountTokens(mark \o items[i])]

(* The tokens of the k newest lines. *)
Cost(items, mark, k) == SumFunctionOnSet(Weights(items, mark), Len(items) - k + 1 .. Len(items))

(* The k newest items behind their mark. *)
Newest(items, mark, k) == [i \in 1 .. k |-> mark \o items[Len(items) - k + i]]

(* The newest line, cut. *)
CutLine(items, max, mark) == <<mark \o TruncateTokens(items[Len(items)], max, "end")>>

(* What the loop of FitNewest has made of the j newest lines. *)
Fitted(s, items, max, mark, j) ==
    IF ~s.full THEN s.lines = Newest(items, mark, j) /\ s.used = Cost(items, mark, j) /\ s.used <= max
    ELSE \/ \E k \in 1 .. j - 1 : /\ s.lines = Newest(items, mark, k)
                                  /\ Cost(items, mark, k) <= max /\ Cost(items, mark, k + 1) > max
         \/ j > 0 /\ Cost(items, mark, 1) > max /\ s.lines = CutLine(items, max, mark)

(* What the lines of the prompt promise for one call. *)
RecentWell(recent, section, lines, max) ==
    LET n == Len(lines)
        tail(k) == SubSeq(lines, n - k + 1, n)
        best == Max({k \in 0 .. n : Sized(tail(k)) <= max})
    IN  /\ Sized(recent) <= max /\ Sized(section) <= max + 1
        /\ max > 0 /\ best > 0 => recent = tail(best)
        /\ max > 0 /\ best = 0 /\ n > 0 => recent = <<TruncateTokens(lines[n], max, "end")>>

-----------------------------------------------------------------------------
(* Summaries and the history of the prompt. *)

(* What a part put behind at most one other adds to a section. *)
Behind(whole, x) == \E d \in Nat : /\ Len(whole) = d + Len(x)
                                   /\ \A i \in 1 .. Len(x) : whole[d + i] = x[i]

(* What is put behind the parts stands at the end and adds its own tokens. *)
AddsUp(parts) ==
    \A x \in Seq(Char) : /\ Joined(parts) \in Seq(Char) /\ Joined(Append(parts, x)) \in Seq(Char)
                         /\ CountTokens(Joined(Append(parts, x))) = CountTokens(Joined(parts)) + CountTokens(x)
                         /\ Behind(Joined(Append(parts, x)), x)

(* The notes that are left in a text, which are its marks. *)
MarksIn(text) == Cardinality({i \in DOMAIN text : text[i] = "p"})

-----------------------------------------------------------------------------
(* Citations. *)

(* The step of the loop over the numbers in an answer. *)
Keep(text, x, valid) == IF x \in valid THEN Append(text, x) ELSE text

(* The step of the loop that takes each number once. *)
OnceStep(seq) ==
    [i \in 1 .. Len(seq) |-> [v \in Seq(Nat) |-> Once(v, seq[i])]]

(* The numbers of an answer for which there is evidence. *)
KeptIn(seq, valid) ==
    FoldLeft(LAMBDA text, n : IF n \in valid THEN Append(text, n) ELSE text, <<>>, seq)

(* Its step. *)
KeepStep(seq, valid) ==
    [i \in 1 .. Len(seq) |-> [v \in Seq(Nat) |-> Keep(v, seq[i], valid)]]

(* The numbers of a text, each once in the order of first use. *)
CitedIn(text) == FoldLeft(Once, <<>>, text)

(* After i numbers of the answer: the citations so far. *)
CitedUpTo(text, written, valid, i) ==
    LET c == CitedIn(text)
    IN  /\ text \in Seq(Nat) /\ c \in Seq(Nat) /\ IsInjective(c)
        /\ ToSet(c) = {written[j] : j \in 1 .. i} \cap valid
        /\ ToSet(text) = ToSet(c)
        /\ \A p, q \in DOMAIN c : p < q => First(written, c[p]) < First(written, c[q])

(* The theorem on citations for one answer. *)
CitesWell(given, written, known) ==
    LET cited == [i \in DOMAIN given.answer.records |-> given.answer.records[i].source] IN
    /\ IsInjective(cited)
    /\ ToSet(cited) = ToSet(written) \cap 1 .. known
    /\ ToSet(given.answer.text) = ToSet(cited)
    /\ \A i, j \in DOMAIN cited : i < j => First(written, cited[i]) < First(written, cited[j])
    /\ Len(given.fallback) = Min({2, known}) /\ IsPrefix(given.fallback, Records(known))

-----------------------------------------------------------------------------
(* Evidence. *)

(* A result of the search: its chunk and the lengths of its header and its
   text.                                                                   *)
Result == [chunk : Nat, header : Nat, text : Nat]

(* The state of the loop of BuildEvidence. *)
EvidenceState == [records : Seq([source : Nat, chunk : Nat, text : Nat]), length : Nat, used : Nat,
                  full : BOOLEAN]

(* Its start. *)
NoEvidence == [records |-> <<>>, length |-> 0, used |-> 0, full |-> FALSE]

(* The state after t characters of r were cited. *)
Cited(s, r, limit, t) ==
    [records |-> Append(s.records, [source |-> Len(s.records) + 1, chunk |-> r.chunk, text |-> t]),
     length |-> s.length + r.header + t + (IF s.records = <<>> THEN 0 ELSE 2),
     used |-> s.used + r.header + t + Separator,
     full |-> s.used + r.header + t + Separator >= limit]

(* Its step. *)
CiteStep(results, limit) ==
    [i \in 1 .. Len(results) |-> [v \in EvidenceState |-> Cite(v, results[i], limit)]]

(* No room is left behind a result up to j. *)
Filled(s, results, limit, j) ==
    \E k \in 1 .. j : results[k].text > 0 /\ s.used + results[k].header >= limit

(* After i results: record p comes from result at[p]. *)
EvidenceAt(s, results, limit, i, at) ==
    LET n == Len(s.records) IN
    /\ s \in EvidenceState
    /\ at \in [1 .. n -> 1 .. i]
    /\ \A p \in 1 .. n : /\ s.records[p].source = p /\ s.records[p].text > 0
                         /\ results[at[p]].text > 0 /\ s.records[p].chunk = results[at[p]].chunk
    /\ \A p \in 1 .. n : \A j \in 1 .. i :
          results[j].text > 0 /\ j < at[p] => \E k \in 1 .. p - 1 : at[k] = j
    /\ \A j \in 1 .. i : results[j].text > 0 =>
          (\E p \in 1 .. n : at[p] = j) \/ (s.full /\ Filled(s, results, limit, j))
    /\ s.full => Filled(s, results, limit, i)
    /\ IF n = 0 THEN s.length = 0 /\ s.used = 0 ELSE s.length + 2 = s.used /\ s.used <= limit + 2

(* Where each piece of evidence comes from is known after i results. *)
EvidenceUpTo(s, results, limit, i) == \E at : EvidenceAt(s, results, limit, i, at)

(* The theorem on evidence for one set of results. *)
EvidenceWell(given, results, limit) ==
    LET n == Len(given.records)
        texts == {j \in DOMAIN results : results[j].text > 0}
    IN  /\ given.length <= limit
        /\ \E at \in [1 .. n -> texts] :
              /\ \A i \in 1 .. n : /\ given.records[i].source = i /\ given.records[i].text > 0
                                   /\ given.records[i].chunk = results[at[i]].chunk
                                   /\ \A j \in texts : j < at[i] => \E k \in 1 .. i - 1 : at[k] = j
              /\ \A j \in texts : \/ \E i \in 1 .. n : at[i] = j
                                  \/ \E k \in texts : k <= j /\ given.used + results[k].header >= limit

-----------------------------------------------------------------------------
(* Windows around hits. *)

(* The lengths of some neighbouring chunks. *)
Lengths(t) ==
    /\ IsFiniteSet(DOMAIN t) /\ DOMAIN t \subseteq Nat /\ DOMAIN t # {}
    /\ \A i \in DOMAIN t : t[i] \in Nat

(* The state of the loop of ParentWindow. *)
WindowState(t) == [left : Int, right : Int, onLeft : BOOLEAN, chosen : SUBSET (DOMAIN t), used : Nat,
               ended : BOOLEAN]

(* Its start: the hit alone. *)
FirstWindow(t, center) ==
    [left |-> center - 1, right |-> center + 1, onLeft |-> TRUE,
     chosen |-> {center}, used |-> t[center], ended |-> FALSE]

(* The chunk that a window looks at next. *)
Side(w) == IF w.onLeft THEN w.left ELSE w.right

(* The window after it has looked there. *)
Moved(w) == [w EXCEPT !.onLeft = ~@, !.left = IF w.onLeft THEN @ - 1 ELSE @,
                      !.right = IF w.onLeft THEN @ ELSE @ + 1]

(* Its step. *)
TurnStep(t, budget) == [k \in 1 .. Turns(t) |-> [w \in WindowState(t) |-> Turn(w, t, budget)]]

(* The chunks between two positions. *)
Within(t, l, r) == {i \in DOMAIN t : l < i /\ i < r}

(* The window after k turns. *)
WindowAt(w, t, center, budget, k) ==
    /\ w \in WindowState(t)
    /\ w.left < center /\ center < w.right
    /\ w.chosen = Within(t, w.left, w.right)
    /\ w.used = SumFunctionOnSet(t, w.chosen)
    /\ w.chosen = {center} \/ w.used <= budget
    /\ center - w.left = IF w.onLeft THEN w.right - center ELSE w.right - center + 1
    /\ ~w.ended => w.right - w.left = k + 2
    /\ w.ended => \/ w.left < Min(DOMAIN t) /\ w.right > Max(DOMAIN t)
                  \/ Side(w) \in DOMAIN t /\ w.used + t[Side(w)] > budget

(* The theorem on windows for one hit. *)
HitWell(t, rows, w, h, budget) ==
    LET next == {i \in rows \ w : \A j \in rows \ w : (i < h) = (j < h) =>
                    IF i < h THEN j <= i ELSE j >= i}
        side(S, left) == Cardinality({i \in S : IF left THEN i < h ELSE i > h})
    IN  IF h \notin rows THEN w = {}
        ELSE /\ h \in w /\ w \subseteq rows
             /\ \A i \in w, j \in w, k \in rows : i < k /\ k < j => k \in w
             /\ w # {h} => SumFunctionOnSet(t, w) <= budget
             /\ w # rows => \E i \in next : SumFunctionOnSet(t, w) + t[i] > budget
             /\ rows = Min(rows) .. Max(rows) => \A left \in BOOLEAN :
                   side(w, left) < side(rows, left) => side(w, ~left) <= side(w, left) + 1

(* The same in a run of chunks without a gap. *)
Between(lo, hi, l, r) == {i \in lo .. hi : l < i /\ i < r}

(* The side before a hit, *)
Below(S, h) == {i \in S : i < h}

(* and the side behind it. *)
Beyond(S, h) == {i \in S : i > h}

(* A side of `all' chunks of which n turns took c: n of them or all. *)
Reaches(c, all, n) == c \in Nat /\ c <= n /\ (c >= n \/ c = all)

(* How many chunks of S are on a side of the hit. *)
SideSize(S, h, left) == Cardinality({i \in S : IF left THEN i < h ELSE i > h})

(* The windows around all hits. *)
NearOf(t, hits, budget) ==
    LET rows == Restrict(t, Neighbours(DOMAIN t, hits, 1))
    IN  [h \in hits |-> IF DOMAIN rows = {} THEN {} ELSE ParentWindow(rows, h, budget)]

-----------------------------------------------------------------------------
(* Packing. *)

(* Sizes can be added up for these texts. *)
Measured(X) == \A x \in X : Count(x) \in Nat

(* From at[j] to to[j] go the m chunks of the first k texts. *)
Slices(at, to, m, t, size, overlap, k) ==
    /\ m \in Nat \ {0} /\ at \in [1 .. m -> 1 .. k] /\ to \in [1 .. m -> 1 .. k]
    /\ at[1] = 1 /\ to[m] = k
    /\ \A j \in 1 .. m : /\ at[j] <= to[j]
                         /\ at[j] < to[j] => Total(SubSeq(t, at[j], to[j])) <= size
    /\ \A j \in 1 .. m - 1 : /\ at[j] < at[j + 1] /\ at[j + 1] <= to[j] + 1
                             /\ Total(SubSeq(t, at[j + 1], to[j])) <= overlap

(* f with one more value, x. *)
More(f, m, x) == [j \in 1 .. m + 1 |-> IF j = m + 1 THEN x ELSE f[j]]

(* The state of the loop of Pack. *)
PackState(X) == [chunks : Seq(Seq(X)), current : Seq(X)]

(* Its start. *)
NoChunks == [chunks |-> <<>>, current |-> <<>>]

(* The chunks between these positions. *)
SlicesOf(t, at, to, n) == [j \in 1 .. n |-> SubSeq(t, at[j], to[j])]

(* What has been packed of the first k texts. *)
PackedAt(s, t, size, overlap, k) ==
    IF k = 0 THEN s = NoChunks
    ELSE \E at, to : /\ Slices(at, to, Len(s.chunks) + 1, t, size, overlap, k)
                     /\ s.chunks = SlicesOf(t, at, to, Len(s.chunks))
                     /\ s.current = SubSeq(t, at[Len(s.chunks) + 1], k)

(* Its step. *)
PlaceStep(X, t, size, overlap) ==
    [i \in 1 .. Len(t) |-> [v \in PackState(X) |-> Place(v, t[i], size, overlap)]]

(* The loop of Pack. *)
Packed(t, size, overlap) == FoldLeft(LAMBDA s, item : Place(s, item, size, overlap),
                                     [chunks |-> <<>>, current |-> <<>>], t)

(* What is packed is whole: a text is here one stretch. *)
Piece == {x \in Seq(StretchType) : Len(x) = 1}

(* The theorem on packing for one call. *)
PackedWell(given, items, size, overlap) ==
    /\ \E at \in [1 .. Len(given) -> 1 .. Len(items)] :
          LET end(k) == at[k] + Len(given[k]) - 1 IN
          /\ given # <<>> /\ at[1] = 1
          /\ \A k \in DOMAIN given : end(k) <= Len(items)
                                      /\ given[k] = SubSeq(items, at[k], end(k))
          /\ \A k \in 1 .. Len(given) - 1 :
                /\ at[k] < at[k + 1] /\ at[k + 1] <= end(k) + 1
                /\ Total(SubSeq(items, at[k + 1], end(k))) <= overlap
          /\ LastOf(items, Len(Last(given))) = Last(given)
    /\ \A k \in DOMAIN given : Len(given[k]) > 1 => Total(given[k]) <= size

-----------------------------------------------------------------------------
(* Splitting. *)

(* Some stretch of P holds each character of s. *)
Spans(P, s) == \A i \in s.from .. s.to - 1 : \E p \in P : p.id = s.id /\ i \in p.from .. p.to - 1

(* Some text holds each character of s. *)
Whole(texts, s) ==
    \A i \in s.from .. s.to - 1 : \E k \in DOMAIN texts : \E p \in ToSet(texts[k]) :
        p.id = s.id /\ i \in p.from .. p.to - 1

(* The stretches of some texts. *)
In(texts) == UNION {ToSet(texts[k]) : k \in DOMAIN texts}

(* Chunks that hold every stretch of some texts. *)
Holds(chunks, texts) ==
    \A i \in DOMAIN texts : \A x \in ToSet(texts[i]) :
        \E j \in DOMAIN chunks : x \in ToSet(FlattenSeq(chunks[j]))

(* A window of HardSplit from `start': its end, what it holds, and where the
   next one starts.                                                        *)
CutEnd(s, window, start) == Min({s.to, start + window})
CutPart(s, window, start) == Stretch(s.id, start, CutEnd(s, window, start), s.cjk)
CutNext(s, window, back, start) == Max({start + 1, CutEnd(s, window, start) - back})

(* The windows from `start' on, by those that f has from later on. *)
CutFrom(f, s, window, back, start) ==
    IF CutEnd(s, window, start) = s.to THEN <<CutPart(s, window, start)>>
    ELSE <<CutPart(s, window, start)>> \o f[CutNext(s, window, back, start)]

(* A window of s. *)
IsCut(p, s, window) ==
    /\ p \in Passage /\ p.id = s.id /\ p.cjk = s.cjk
    /\ s.from <= p.from /\ p.to <= s.to /\ p.to - p.from <= window

(* What chunk_text makes of a sentence. *)
CutShort(s, size, back) == IF ApproxTokens(s) > size THEN HardSplit(s, size, back) ELSE <<s>>

(* Windows of s from `start' to its end, none of them left out. *)
CutRight(q, s, window, back, start) ==
    /\ q \in Seq(Passage) /\ Len(q) > 0 /\ q[1].from = start /\ q[Len(q)].to = s.to
    /\ \A k \in 1 .. Len(q) : IsCut(q[k], s, window)
    /\ \A k \in 1 .. Len(q) - 1 : /\ q[k].from < q[k + 1].from /\ q[k + 1].from <= q[k].to
                                  /\ q[k].to - q[k + 1].from <= back
    /\ \A i \in start .. s.to - 1 : \E k \in 1 .. Len(q) : i \in q[k].from .. q[k].to - 1

(* The loop of SplitTable, and its steps. *)
TableParts == [pieces : Seq(Seq(Passage)), current : Seq(Passage)]

NoParts(head) == [pieces |-> <<>>, current |-> head]

RowStep(rows, head, size) ==
    [i \in 1 .. Len(rows) |-> [s \in TableParts |-> AddRow(s, rows[i], head, size)]]

TableEnd(rows, head, size) ==
    FoldLeft(LAMBDA s, row : AddRow(s, row, head, size), NoParts(head), rows)

(* Lists of rows, each with the head over it; several rows fit with it. *)
Headed(head, lists) == [j \in 1 .. Len(lists) |-> head \o lists[j]]
RowsFit(head, rows, size) == Len(rows) > 1 => TextTokens(head \o rows) <= size

(* What the loop has after k rows: all of them, in parts under the head. *)
TableAt(s, rows, head, size, k) ==
    \E parts \in Seq(Seq(Passage)), last \in Seq(Passage) :
        /\ s = [pieces |-> Headed(head, parts), current |-> head \o last]
        /\ FlattenSeq(parts) \o last = SubSeq(rows, 1, k)
        /\ RowsFit(head, last, size) /\ \A j \in 1 .. Len(parts) : RowsFit(head, parts[j], size)

(* The rows of a part of a table, and of all parts. *)
RowsOf(part, header) == SubSeq(part, header + 1, Len(part))
AllRows(parts, header) == FlattenSeq([k \in DOMAIN parts |-> RowsOf(parts[k], header)])

-----------------------------------------------------------------------------
(* The structure of a document: sections, pages, images. *)

(* Lines: a heading has a level. *)
LineList(lines) ==
    /\ Len(lines) \in Nat /\ DOMAIN lines = 1 .. Len(lines)
    /\ \A i \in 1 .. Len(lines) : lines[i].kind = "heading" => lines[i].level \in Nat \ {0}

-----------------------------------------------------------------------------
(* The sections. *)

Section == [path : Seq(Nat), content : Seq(Nat)]

(* The state of the loop over the lines. *)
ReadState == [sections : Seq(Section), stack : Seq(Nat), buffer : Seq(Nat), fenced : BOOLEAN]

NothingRead == [sections |-> <<>>, stack |-> <<>>, buffer |-> <<>>, fenced |-> FALSE]

(* What it has read. *)
Contents(sections) == [k \in DOMAIN sections |-> sections[k].content]
Body(s) == FlattenSeq(Contents(s.sections)) \o s.buffer

(* The stack holds the headings around the next line, one per level. *)
Nested(stack, lines, k) ==
    /\ ToSet(stack) = Around(lines, k + 1)
    /\ \A d \in 1 .. Len(stack) : lines[stack[d]].level = d

(* Each finished section, and the one that is read, is under the headings
   around its lines.                                                       *)
PathsRight(s, lines) ==
    /\ \A j \in DOMAIN s.sections : \A i \in ToSet(s.sections[j].content) :
          ToSet(s.sections[j].path) = Around(lines, i)
    /\ \A i \in ToSet(s.buffer) : ToSet(s.stack) = Around(lines, i)

(* After k lines: what is fenced, what was read, and under what. *)
ReadAt(s, lines, k) ==
    /\ s.fenced <=> Fenced(lines, k + 1)
    /\ Lists(Body(s), (1 .. k) \ Headings(lines))
    /\ Regular(lines) => Nested(s.stack, lines, k) /\ PathsRight(s, lines)

(* The loop of Sections. *)
ReadOver(lines) == FoldLeft(LAMBDA s, i : ReadLine(s, lines, i),
                            [sections |-> <<>>, stack |-> <<>>, buffer |-> <<>>, fenced |-> FALSE],
                            [i \in 1 .. Len(lines) |-> i])

(* Its step. *)
ReadStep(lines) == [i \in 1 .. Len(lines) |-> [s \in ReadState |-> ReadLine(s, lines, i)]]

(* What Sections makes of lines. *)
SectionsWell(sections, lines) ==
    /\ Lists(FlattenSeq(Contents(sections)), DOMAIN lines \ Headings(lines))
    /\ Regular(lines) => \A k \in DOMAIN sections : \A i \in ToSet(sections[k].content) :
                            ToSet(sections[k].path) = Around(lines, i)

-----------------------------------------------------------------------------
(* The images of a PDF. *)

PageType == [text : BOOLEAN, images : Seq(STRING)]

(* The lines of a PDF. *)
OfType == {<<"name">>} \cup ({"page", "text", "scan"} \X Nat) \cup ({"image"} \X STRING)
PdfLine == [kind : {"heading", "text"}, level : 0 .. 3, page : Nat, of : OfType]

(* The page that a line was made from is on. *)
Home(pages, of) == IF of[1] = "image" THEN HomePage(pages, of[2]) ELSE of[2]

(* Line i is under the page heading p, with only images between them. *)
Under(lines, i, p) ==
    /\ p \in 2 .. i - 1 /\ lines[p].kind = "heading" /\ lines[p].level = 2 /\ lines[p].page > 0
    /\ \A m \in p + 1 .. i - 1 : lines[m].kind = "heading" => lines[m].level = 3

(* A line behind the first: a page heading, the heading of one of P, or a
   text of the page it is under.                                           *)
Placed(lines, i, P, pages) ==
    \/ /\ lines[i].kind = "heading" /\ lines[i].level = 2 /\ lines[i].page > 0 /\ lines[i].of[1] = "page"
    \/ /\ lines[i].kind = "heading" /\ lines[i].level = 3 /\ lines[i].page = 0 /\ lines[i].of \in P
       /\ \E p \in 2 .. i - 1 : Under(lines, i, p)
    \/ /\ lines[i].kind = "text"
       /\ \E p \in 2 .. i - 1 : Under(lines, i, p) /\ lines[p].page = Home(pages, lines[i].of)

(* The positions of the texts. *)
TextLines(lines) == {i \in 1 .. Len(lines) : lines[i].kind = "text"}

(* Lines of a PDF that end in page r (0: before the first) and whose texts
   are those of T, each once.                                              *)
PdfAt(lines, r, T, P, pages) ==
    /\ lines \in Seq(PdfLine) /\ Len(lines) > 0
    /\ lines[1].kind = "heading" /\ lines[1].level = 1 /\ lines[1].page = 0 /\ lines[1].of[1] = "name"
    /\ \A i \in 2 .. Len(lines) : Placed(lines, i, P, pages)
    /\ r = 0 \/ \E p \in 2 .. Len(lines) : Under(lines, Len(lines) + 1, p) /\ lines[p].page = r
    /\ T = {lines[i].of : i \in TextLines(lines)}
    /\ \A i, j \in TextLines(lines) : lines[i].of = lines[j].of => i = j

(* A line behind the others leaves the others where they were. *)
Grown(more, lines, n, x, Q, pages) ==
    /\ more \in Seq(PdfLine) /\ n \in Nat \ {0} /\ Len(more) = n + 1 /\ more[n + 1] = x
    /\ \A i \in 1 .. n : more[i] = lines[i]
    /\ \A i \in 2 .. n + 1 : \A p \in 2 .. i - 1 : Under(more, i, p) <=> Under(lines, i, p)
    /\ \A i \in 2 .. n : Placed(more, i, Q, pages)
    /\ more[1].kind = "heading" /\ more[1].level = 1 /\ more[1].page = 0 /\ more[1].of[1] = "name"
    /\ TextLines(more) = TextLines(lines) \cup (IF x.kind = "text" THEN {n + 1} ELSE {})
    /\ TextLines(lines) \subseteq 1 .. n

(* The first of n sequences behind another. *)
UpToLast(F, m) == FlattenSeq([k \in 1 .. m |-> F[k]])

(* The images of the page. *)
Shown(images) == {<<"image", images[k]>> : k \in DOMAIN images}
ImageLines(images) == FlattenSeq([k \in 1 .. Len(images) |-> Titled(<<"image", images[k]>>)])

(* What is on page r. *)
PageParts(r, text, shown, scan) == (IF text THEN {<<"text", r>>} ELSE {}) \cup Shown(shown)
                                     \cup (IF scan THEN {<<"scan", r>>} ELSE {})

(* The images of page r that have a text, and whether it is rendered. *)
ShownOn(pages, legible, r) ==
    Picked(DedupPages(pages)[r], {k \in DOMAIN DedupPages(pages)[r] : DedupPages(pages)[r][k] \in legible})
ScanOn(pages, legible, scannable, r) ==
    ~pages[r].text /\ ShownOn(pages, legible, r) = <<>> /\ r \in scannable

(* What is on the first m pages. *)
PartsOn(pages, legible, scannable, r) ==
    PageParts(r, pages[r].text, ShownOn(pages, legible, r), ScanOn(pages, legible, scannable, r))
PartsUpTo(pages, legible, scannable, m) == UNION {PartsOn(pages, legible, scannable, r) : r \in 1 .. m}

(* What the lines in the sections were made from. *)
KeptLines(lines) == FlattenSeq(Contents(Sections(lines)))
Origin(lines) == [i \in DOMAIN KeptLines(lines) |-> lines[KeptLines(lines)[i]].of]

(* How often an element is in a sequence. *)
Times(s, x) == Cardinality({i \in DOMAIN s : s[i] = x})

(* What PdfPagesRight says of the lines of pages. *)
PdfWell(lines, pages, legible) ==
    LET home(of) == IF of[1] = "image" THEN HomePage(pages, of[2]) ELSE of[2]
        sections == Sections(lines)
        kept == FlattenSeq([k \in DOMAIN sections |-> sections[k].content])
        origin == [i \in DOMAIN kept |-> lines[kept[i]].of]
    IN  /\ \A k \in DOMAIN sections : \A i \in ToSet(sections[k].content) :
              lines[i].kind = "text" =>
                  PageNumber(lines, sections[k].path) = home(lines[i].of)
        /\ \A d \in legible \cap UNION {ToSet(pages[r].images) : r \in DOMAIN pages} :
              Cardinality({i \in DOMAIN origin : origin[i] = <<"image", d>>}) = 1
        /\ \A r \in DOMAIN pages :
              /\ pages[r].text <=> Contains(origin, <<"text", r>>)
              /\ Contains(origin, <<"scan", r>>) =>
                    ~pages[r].text /\ \A d \in legible : home(<<"image", d>>) # r

-----------------------------------------------------------------------------
(* The state machine. *)

(* A call of this name has this result. *)
Given(op, value) == Returned(op) => result = value

(* The call is one of the calls, and what was returned is what the
   algorithm gives for it: from here the lemmas on the algorithms take
   over.                                                                   *)
IInv ==
    /\ call \in Calls
    /\ Given("sections", Sections(call.lines))
    /\ Given("pdf", ConvertPdf(call.pages, 0, call.legible, call.scannable))
    /\ Given("read", ExtractImages(call.digests, call.read))
    /\ Given("pack", Pack(call.items, call.size, call.overlap))
    /\ Given("split", HardSplit(call.text, call.size, call.overlap))
    /\ Given("block", SplitOversized(call.block, call.size, call.overlap))
    /\ Given("chunk", ChunkBlocks(call.blocks, call.size, call.overlap))
    /\ Given("fuse", Fuse(call.bm25, call.dense, call.weight))
    /\ Given("search", Search(call.bm25, call.dense, call.weight, call.topK, call.limit,
                              call.relevance, call.up))
    /\ Given("window", NearOf(call.tokens, call.hits, call.budget))
    /\ Given("evidence", BuildEvidence(call.results, call.limit))
    /\ Given("cite", [answer   |-> ValidCitations(call.written, Records(call.known)),
                      fallback |-> Fallback(Records(call.known), 2)])
    /\ Given("cut", TruncateTokens(call.text, call.max, call.keep))
    /\ Given("fit", [recent  |-> FitRecentLines(call.lines, call.max),
                     section |-> SectionLines(call.lines, call.max)])
    /\ Given("merge", [summary |-> MergeSummary(call.previous, call.notes, call.max, call.least),
                       history |-> BoundedHistory(call.previous, <<call.notes, <<"w">>>>,
                                                  call.max, call.max, call.max)])
=============================================================================
