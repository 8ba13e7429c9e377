---------------------------- MODULE TokenBudget ----------------------------
(***************************************************************************)
(* The token budget of the prompt: counting and cutting                    *)
(* (app/services/token_budget.py, without a tokenizer installed), and what *)
(* app/services/conversation_context.py builds with it.                    *)
(*                                                                         *)
(* A text is a sequence of characters, of which only the class counts:     *)
(* "c" an ideograph, "w" a letter, "p" punctuation, "s" white space.       *)
(***************************************************************************)
EXTENDS Integers, SequencesExt

Char == {"c", "w", "p", "s"}

(* Where the word around the letter at i starts. *)
WordStart(text, i) == Min({j \in 1 .. i : \A k \in j .. i : text[k] = "w"})

(* A token per ideograph and per mark, one per four letters of a word.     *)
TokenAt(text, i) ==
    text[i] \in {"c", "p"} \/ (text[i] = "w" /\ (i - WordStart(text, i)) % 4 = 0)

CountTokens(text) == Cardinality({i \in 1 .. Len(text) : TokenAt(text, i)})

Strip(text) ==
    LET ink == {i \in 1 .. Len(text) : text[i] # "s"}
    IN  IF ink = {} THEN <<>> ELSE SubSeq(text, Min(ink), Max(ink))

Part(text, n, keep) == IF keep = "end" THEN SubSeq(text, Len(text) - n + 1, Len(text))
                                       ELSE SubSeq(text, 1, n)

\* Mutant: the first guess is taken without counting again.
TruncateOnce(text, max, keep) ==
    IF max <= 0 THEN <<>>
    ELSE IF CountTokens(text) <= max THEN text
    ELSE Strip(Part(text, Max({1, (Len(text) * max) \div CountTokens(text)}), keep))

(* A first guess in proportion, then a tenth less until it fits.           *)
TruncateTokens(text, max, keep) ==
    LET total == CountTokens(text)
        Shrink[n \in 0 .. Len(text)] ==
            IF n = 0 \/ CountTokens(Part(text, n, keep)) <= max THEN n
            ELSE Shrink[n - Max({1, n \div 10})]
    IN  IF max <= 0 THEN <<>>
        ELSE IF total <= max THEN text
        ELSE Strip(Part(text, Shrink[Max({1, (Len(text) * max) \div total})], keep))

(* A line is put before those taken if it fits with them; a first one that
   is too long by itself is cut, without `mark' in what is counted.        *)
TakeLine(s, item, max, mark) ==
    LET n == CountTokens(mark \o item) IN
    IF s.full \/ (s.lines # <<>> /\ s.used + n > max) THEN [s EXCEPT !.full = TRUE]
    ELSE [lines |-> <<mark \o (IF n > max THEN TruncateTokens(item, max, "end") ELSE item)>> \o s.lines,
          used  |-> s.used + n,
          full  |-> n > max]

(* The newest items that fit, each shown behind `mark'.                    *)
FitNewest(items, max, mark) ==
    FoldLeft(LAMBDA s, item : TakeLine(s, item, max, mark),
             [lines |-> <<>>, used |-> 0, full |-> FALSE], Reverse(items)).lines

FitRecentLines(lines, max) == IF max <= 0 THEN <<>> ELSE FitNewest(lines, max, <<>>)

Bullet == <<"p", "s">>

SectionLines(items, max) == FitNewest(items, max, Bullet)

-----------------------------------------------------------------------------
Joined(parts) ==
    FlattenSeq([i \in 1 .. Len(parts) |-> IF i = 1 THEN parts[i] ELSE <<"s">> \o parts[i]])

AppendWithBudget(parts, text, max) ==
    LET remaining == max - CountTokens(Joined(parts))
        clipped == TruncateTokens(text, remaining, "end")
    IN  CASE text = <<>> -> parts
          [] text # <<>> /\ CountTokens(Joined(Append(parts, text))) <= max -> Append(parts, text)
          [] OTHER -> IF clipped = <<>> THEN parts ELSE Append(parts, clipped)

PreviousShare(max, least) == Max({least, max \div 4})

(* The new summary: the end of the previous one, a quarter of the budget but
   at least `least' tokens of it, and the notes on the compacted messages. *)
MergeSummary(previous, notes, max, least) ==
    LET old == TruncateTokens(Strip(previous), PreviousShare(max, least), "end")
        sections == IF previous = <<>> THEN <<>> ELSE AppendWithBudget(<<>>, old, max)
    IN  TruncateTokens(Joined(AppendWithBudget(sections, notes, max)), max, "end")

(* The history of the prompt, with the summary before the recent lines.    *)
BoundedHistory(summary, recent, maxSummary, maxRecent, max) ==
    LET lines == FitRecentLines(recent, maxRecent)
        parts == (IF summary = <<>> THEN <<>> ELSE <<TruncateTokens(summary, maxSummary, "end")>>)
                 \o (IF lines = <<>> THEN <<>> ELSE <<Joined(lines)>>)
    IN  TruncateTokens(Joined(parts), max, "end")
=============================================================================
