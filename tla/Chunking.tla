------------------------------ MODULE Chunking ------------------------------
(***************************************************************************)
(* How app/rag/chunker.py turns a document into Markdown and Markdown into *)
(* chunks, as operators on abstract texts.                                 *)
(*                                                                         *)
(* A text is a sequence of stretches.  A stretch is what stands between    *)
(* two character positions of a sentence or a line that consists of some   *)
(* ideographs followed by one word: enough to tell apart the two token     *)
(* rates and the two window widths of the code.  White space is left out.  *)
(***************************************************************************)
EXTENDS Naturals, SequencesExt

Stretch(id, from, to, cjk) == [id |-> id, from |-> from, to |-> to, cjk |-> cjk]

Ideographs(s) == Cardinality({i \in s.from .. s.to - 1 : i < s.cjk})
Chars(s)      == s.to - s.from

(* One token per ideograph, one per four characters of a word, rounded up. *)
ApproxTokens(s) == Ideographs(s) + (Chars(s) - Ideographs(s) + 3) \div 4

TextTokens(text) == SumFunction([i \in DOMAIN text |-> ApproxTokens(text[i])])

-----------------------------------------------------------------------------
(* Greedy packing of texts into chunks, each a sequence of whole texts: the
   loop of chunk_text over sentences and of _chunk_markdown_blocks over
   blocks.                                                                 *)
Count(item)   == Max({1, TextTokens(item)})
Total(items)  == SumFunction([i \in DOMAIN items |-> Count(items[i])])
LastOf(s, n)  == SubSeq(s, Len(s) - n + 1, Len(s))

\* Mutant: the text that does not fit the overlap any more is kept too.
KeptOneMore(chunk, overlap) ==
    LastOf(chunk, Max({n \in 0 .. Len(chunk) : n = 0 \/ Total(LastOf(chunk, n - 1)) <= overlap}))

Kept(chunk, overlap) ==
    LastOf(chunk, Max({n \in 0 .. Len(chunk) : Total(LastOf(chunk, n)) <= overlap}))

(* What the next chunk starts with: the overlap, if `item' fits behind it. *)
Restart(kept, item, size) ==
    IF Total(kept) + Count(item) <= size THEN Append(kept, item) ELSE <<item>>

Place(s, item, size, overlap) ==
    IF s.current = <<>> \/ Total(s.current) + Count(item) <= size
    THEN [s EXCEPT !.current = Append(@, item)]
    ELSE [chunks  |-> Append(s.chunks, s.current),
          current |-> Restart(Kept(s.current, overlap), item, size)]

(* A last chunk that says what the one before it says is dropped. *)
Pack(items, size, overlap) ==
    LET end == FoldLeft(LAMBDA s, item : Place(s, item, size, overlap),
                        [chunks |-> <<>>, current |-> <<>>], items)
        same == end.chunks # <<>> /\ FlattenSeq(Last(end.chunks)) = FlattenSeq(end.current)
    IN  IF end.current = <<>> \/ same THEN end.chunks ELSE Append(end.chunks, end.current)

(* A sentence longer than a chunk is cut into windows of characters: one
   per token when at least 30% are ideographs, three and a half otherwise. *)
Window(s, tokens) ==
    IF 10 * Ideographs(s) >= 3 * Chars(s) THEN tokens ELSE (7 * tokens) \div 2

HardSplit(s, size, overlap) ==
    LET window == Max({1, Window(s, size)})
        back   == Min({Window(s, overlap), window - 1})
        parts[start \in s.from .. s.to] ==
            LET end == Min({s.to, start + window})
                part == <<Stretch(s.id, start, end, s.cjk)>>
            IN  IF end = s.to THEN part ELSE part \o parts[Max({start + 1, end - back})]
    IN  parts[s.from]

ChunkText(sentences, size, overlap) ==
    LET back  == Min({overlap, size - 1})
        cut(s) == IF ApproxTokens(s) > size THEN HardSplit(s, size, back) ELSE <<s>>
        whole == FlattenSeq([i \in 1 .. Len(sentences) |-> cut(sentences[i])])
        packed == Pack([i \in 1 .. Len(whole) |-> <<whole[i]>>], size, back)
    IN  [i \in 1 .. Len(packed) |-> FlattenSeq(packed[i])]

-----------------------------------------------------------------------------
(* Blocks: [kind, text], where the text of a table is its rows, the first
   `header' of them its head, and that of a code block its lines, fences
   included.                                                               *)
Fence == Stretch("fence", 0, 3, 3)     \* three characters, three tokens

SplitFence(text, size, overlap) ==
    LET closed == Len(text) > 1 /\ Last(text) = Fence
        body   == SubSeq(text, 2, IF closed THEN Len(text) - 1 ELSE Len(text))
        pieces == ChunkText(body, Max({32, size - 8}), Min({overlap, size \div 4}))
    IN  IF pieces = <<>> THEN <<text>>
        ELSE [i \in 1 .. Len(pieces) |-> <<Fence>> \o pieces[i] \o <<Fence>>]

AddRow(s, row, head, size) ==
    IF Len(s.current) > Len(head) /\ TextTokens(Append(s.current, row)) > size
    THEN [pieces |-> Append(s.pieces, s.current), current |-> Append(head, row)]
    ELSE [s EXCEPT !.current = Append(@, row)]

SplitTable(text, header, size) ==
    LET head == SubSeq(text, 1, header)
        end == FoldLeft(LAMBDA s, row : AddRow(s, row, head, size), [pieces |-> <<>>, current |-> head],
                        SubSeq(text, header + 1, Len(text)))
    IN  Append(end.pieces, end.current)

\* Mutant: tables and code blocks are cut like prose.
SplitAsProse(b, size, overlap) == ChunkText(b.text, size, overlap)

SplitOversized(b, size, overlap) ==
    CASE b.kind = "fence" -> SplitFence(b.text, size, overlap)
      [] b.kind = "table" -> SplitTable(b.text, b.header, size)
      [] OTHER            -> ChunkText(b.text, size, overlap)

Expanded(b, size, overlap) ==
    IF TextTokens(b.text) > size THEN SplitOversized(b, size, overlap) ELSE <<b.text>>

ChunkBlocks(blocks, size, overlap) ==
    Pack(FlattenSeq([i \in 1 .. Len(blocks) |-> Expanded(blocks[i], size, overlap)]), size, overlap)

-----------------------------------------------------------------------------
(* The members of a set of positions in rising order, and what stands there. *)
InOrder(S) == CHOOSE q \in [1 .. Cardinality(S) -> S] :
                  \A i, j \in 1 .. Cardinality(S) : i < j => q[i] < q[j]
Picked(s, S) == [k \in 1 .. Cardinality(S) |-> s[InOrder(S)[k]]]

(* The headings that a heading of this level leaves in the path.           *)
Above(stack, level) == SubSeq(stack, 1, Min({Len(stack), level - 1}))

Flush(s) ==
    IF s.buffer = <<>> THEN s
    ELSE [s EXCEPT !.sections = Append(@, [path |-> s.stack, content |-> s.buffer]),
                   !.buffer = <<>>]

(* Lines are headings [kind, level, page], fences and texts, and stand for
   themselves by their number.  The page of a heading is the N of a "page N"
   in its title, 0 if there is none.                                       *)
ReadLine(s, lines, i) ==
    LET l == lines[i] IN
    IF l.kind = "heading" /\ ~s.fenced
    THEN [Flush(s) EXCEPT !.stack = Append(Above(@, l.level), i)]
    ELSE [s EXCEPT !.buffer = Append(@, i),
                   !.fenced = IF l.kind = "fence" THEN ~@ ELSE @]

Sections(lines) ==
    LET all == [i \in 1 .. Len(lines) |-> i]
        end == Flush(FoldLeft(LAMBDA s, i : ReadLine(s, lines, i),
                              [sections |-> <<>>, stack |-> <<>>, buffer |-> <<>>, fenced |-> FALSE],
                              all))
    IN  IF end.sections = <<>> /\ lines # <<>>
        THEN <<[path |-> <<>>, content |-> all]>>
        ELSE end.sections

(* The page number that the chunks of a section carry: the first in its path. *)
PageNumber(lines, path) ==
    LET numbered == {k \in DOMAIN path : lines[path[k]].page > 0}
    IN  IF numbered = {} THEN 0 ELSE lines[path[Min(numbered)]].page

-----------------------------------------------------------------------------
(* A PDF: pages [text, images], with the digests of the images on the page. *)
DedupWithinPage(pages) ==   \* mutant: `seen' starts anew on every page
    [r \in 1 .. Len(pages) |-> SetToSeq(ToSet(pages[r].images))]

DedupPages(pages) ==
    LET seen(r, i) == {pages[r].images[j] : j \in 1 .. i - 1}
                        \cup UNION {ToSet(pages[q].images) : q \in 1 .. r - 1}
        fresh(r) == {i \in DOMAIN pages[r].images : pages[r].images[i] \notin seen(r, i)}
    IN  [r \in 1 .. Len(pages) |-> Picked(pages[r].images, fresh(r))]

(* The results of images read concurrently, in the order of the images; one
   image of each digest is read, `read' is what reading each would give.   *)
ExtractImages(digests, read) ==
    LET first(i) == Min({j \in 1 .. Len(digests) : digests[j] = digests[i]})
    IN  [i \in 1 .. Len(digests) |-> read[first(i)]]

(* `of' says what a line was made from. *)
Line(kind, level, page, of) == [kind |-> kind, level |-> level, page |-> page, of |-> of]

(* An image or a rendered page: a heading without a number, and its text.  *)
Titled(of) == <<Line("heading", 3, 0, of), Line("text", 0, 0, of)>>

(* The lines of page r, with the digests of the images that have a text.   *)
PageLines(r, text, shown, scan) ==
    <<Line("heading", 2, r, <<"page", r>>)>>
    \o (IF text THEN <<Line("text", 0, 0, <<"text", r>>)>> ELSE <<>>)
    \o FlattenSeq([k \in 1 .. Len(shown) |-> Titled(<<"image", shown[k]>>)])
    \o (IF scan THEN Titled(<<"scan", r>>) ELSE <<>>)

(* The lines of the Markdown of a PDF whose name carries the number `named'
   (0: none); legible are the digests with a text, scannable the pages whose
   rendering has one.  A page is rendered if nothing else on it has a text. *)
ConvertPdf(pages, named, legible, scannable) ==
    LET kept == DedupPages(pages)
        shown(r) == Picked(kept[r], {k \in DOMAIN kept[r] : kept[r][k] \in legible})
        scan(r) == ~pages[r].text /\ shown(r) = <<>> /\ r \in scannable
    IN  <<Line("heading", 1, named, <<"name">>)>>
        \o FlattenSeq([r \in 1 .. Len(pages) |-> PageLines(r, pages[r].text, shown(r), scan(r))])
=============================================================================
