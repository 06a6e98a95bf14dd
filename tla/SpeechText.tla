----------------------------- MODULE SpeechText -----------------------------
(***************************************************************************)
(* The text operations behind a spoken reply: speech/sanitize.py and       *)
(* SentenceStreamer (tts/sentences.py), as pure operators.                 *)
(*                                                                         *)
(* A text is a sequence of tokens: words, numbers, abbreviations with      *)
(* their dot, ".", " ", a newline, a code fence on a line of its own, and  *)
(* chrome, which makes a noise line of the line it begins.  Every token    *)
(* has length 1.  What only rewrites the words of a sentence (ANSI codes,  *)
(* markdown and its bullets and list numbers, links, paths, decoration)    *)
(* is left out.                                                            *)
(***************************************************************************)
EXTENDS Naturals, FiniteSets, Sequences, SequencesExt

CONSTANTS Capitals, \* words that begin with an upper-case letter
          Lowers,   \* other words
          Abbrs,    \* "e.g." and the others split_sentences guards
          Numbers,  \* numbers and versions, with the dots inside them
          Chrome    \* gutter marks, diff signs, spinner frames, box corners

Newline == "\n"
Fence   == "fence"
Summary == "lines"   \* "<N> lines of <lang>", before its full stop

Blank     == {" ", Newline}
Lettered  == Capitals \cup Lowers \cup Abbrs \cup {Summary}
Tokens    == Lettered \cup Numbers \cup Chrome \cup Blank \cup {".", Fence}
Texts     == Seq(Tokens)

\* A word is no whitespace and no mark.
ASSUME TextAssumption ==
  (Lettered \cup Numbers \cup Chrome) \cap (Blank \cup {".", Fence}) = {}

\* The elements of s that are in V, in their order.
Kept(s, V) == FlattenSeq([k \in DOMAIN s |-> IF s[k] \in V THEN <<s[k]>> ELSE <<>>])

LettersOf(t) == Kept(t, Lettered)
HasLetters   == {t \in Texts : \E i \in DOMAIN t : t[i] \in Lettered}

\* str.strip()
Strip(t) ==
  LET solid == {i \in DOMAIN t : t[i] \notin Blank}
  IN IF solid = {} THEN <<>> ELSE SubSeq(t, Min(solid), Max(solid))

\* One token more, in the last part.
Extended(parts, token) == Front(parts) \o <<Append(Last(parts), token)>>

\* The parts of t between the cuts, a cut at i being behind token i; a cut
\* behind the last token begins no part.
Parts(t, cuts) ==
  LET parts[i \in 0..Len(t)] ==
        IF i = 0 THEN << <<>> >>
        ELSE IF i - 1 \in cuts THEN Append(parts[i - 1], <<t[i]>>)
        ELSE Extended(parts[i - 1], t[i])
  IN parts[Len(t)]

NonEmpty(ts) == Kept(ts, Texts \ {<<>>})

Join(ts, sep) ==
  FlattenSeq([k \in DOMAIN ts |-> IF k = 1 THEN ts[k] ELSE sep \o ts[k]])

-----------------------------------------------------------------------------
(* split_sentences.                                                        *)

\* Behind a full stop that is not an abbreviation's, when spaces and then an
\* upper-case letter or a digit follow.
EndsSentence(t, i) ==
  /\ t[i] = "."
  /\ \E k \in DOMAIN t :
       /\ k > i + 1
       /\ \A j \in (i + 1)..(k - 1) : t[j] = " "
       /\ t[k] \in Capitals \cup Numbers

EndsParagraph(t, i) == t[i] = Newline /\ i < Len(t) /\ t[i + 1] = Newline

SplitSentences(t) ==
  LET parts == Parts(t, {i \in DOMAIN t : EndsSentence(t, i) \/ EndsParagraph(t, i)})
  IN NonEmpty([k \in DOMAIN parts |-> Strip(parts[k])])

-----------------------------------------------------------------------------
(* SentenceStreamer.                                                       *)

\* _TERMINAL: any full stop before whitespace, or a pair of newlines; pairs
\* are found from the left, so they do not overlap.
NewlinesBefore(t, i) ==
  i - 1 - Max({0} \cup {j \in 1..(i - 1) : t[j] # Newline})
Terminals(t) ==
  {i \in DOMAIN t : t[i] \in {"."} \cup Abbrs /\ i < Len(t) /\ t[i + 1] \in Blank}
  \cup {i + 1 : i \in {j \in DOMAIN t :
                          EndsParagraph(t, j) /\ NewlinesBefore(t, j) % 2 = 0}}

\* Fault: everything up to the last terminal is released in one piece.
FeedUnsplit(text) ==
  LET end == Max({0} \cup Terminals(text))
  IN [released |-> Kept(<<Strip(SubSeq(text, 1, end))>>, HasLetters),
      pending  |-> SubSeq(text, end + 1, Len(text))]

\* Fault: nothing is kept for the next delta.
FeedForgetting(text) ==
  LET end == Max({0} \cup Terminals(text))
  IN [released |-> Kept(SplitSentences(SubSeq(text, 1, end)), HasLetters),
      pending  |-> <<>>]

\* feed() with what was pending before: everything up to the last terminal is
\* released, sentence by sentence, but for items without letters.
Feed(text) ==
  LET end == Max({0} \cup Terminals(text))
  IN [released |-> Kept(SplitSentences(SubSeq(text, 1, end)), HasLetters),
      pending  |-> SubSeq(text, end + 1, Len(text))]

\* flush() releases what is left, with letters or not.
Flush(text) == SplitSentences(Strip(text))

-----------------------------------------------------------------------------
(* sanitize_for_speech.                                                    *)

\* A fence opens when an even number came before it; one that is never closed
\* takes the rest of the text.
FencesBefore(t, i) == Cardinality({j \in 1..(i - 1) : t[j] = Fence})
ReplaceCodeBlocks(t) ==
  LET Becomes(i) ==
        CASE FencesBefore(t, i) % 2 = 1 -> <<>>
          [] t[i] = Fence /\ FencesBefore(t, i) % 2 = 0 -> <<Summary, ".">>
          [] OTHER -> <<t[i]>>
  IN FlattenSeq([i \in DOMAIN t |-> Becomes(i)])

\* split("\n"): each line ends with a newline here, also the last one.
LinesOf(t) ==
  LET text == Append(t, Newline)
      parts == Parts(text, {i \in DOMAIN text : text[i] = Newline})
  IN [k \in DOMAIN parts |-> Front(parts[k])]

\* A blank line is no noise: it ends a paragraph.
IsNoiseLine(line) ==
  /\ Strip(line) # <<>>
  /\ \/ Head(Strip(line)) \in Chrome
     \/ \A i \in DOMAIN line : line[i] \notin Lettered \cup Numbers

WithoutNoise(t) ==
  Join(Kept(LinesOf(t), {line \in Texts : ~IsNoiseLine(line)}), <<Newline>>)

\* The lines of a paragraph become one; paragraphs stay apart.
Paragraphs(t) ==
  LET parts == Parts(t, {i \in DOMAIN t : EndsParagraph(t, i)})
      Joined(p) == Join(NonEmpty([k \in DOMAIN LinesOf(p) |-> Strip(LinesOf(p)[k])]),
                        <<" ">>)
  IN Join(NonEmpty([k \in DOMAIN parts |-> Joined(parts[k])]), <<Newline, Newline>>)

\* Fault: the spaces between the sentences are not counted.
FittingUnspaced(sentences, limit) ==
  {k \in DOMAIN sentences : Len(FlattenSeq(SubSeq(sentences, 1, k))) <= limit}

\* truncate_for_speech: as many whole sentences as fit with a space behind
\* each; when not even one does, a cut at the last space of the budget.
Fitting(sentences, limit) ==
  {k \in DOMAIN sentences :
     Len(FlattenSeq([j \in 1..k |-> Append(sentences[j], " ")])) <= limit}

HardCut(t, limit) ==
  LET head == SubSeq(t, 1, limit)
      cut == Max({0} \cup {i \in DOMAIN head : head[i] = " "})
  IN IF cut = 0 \/ Strip(SubSeq(head, 1, cut)) = <<>> THEN head
     ELSE Strip(SubSeq(head, 1, cut))

TruncateForSpeech(t, limit) ==
  LET sentences == SplitSentences(t)
      fit == Max({0} \cup Fitting(sentences, limit))
  IN IF Len(t) <= limit THEN t
     ELSE IF fit > 0 THEN Join(SubSeq(sentences, 1, fit), <<" ">>)
     ELSE HardCut(t, limit)

Shaped(t) == Paragraphs(WithoutNoise(ReplaceCodeBlocks(t)))
SanitizeForSpeech(t, limit) == Strip(TruncateForSpeech(Shaped(t), limit))
IsTruncated(t, limit) == Len(Shaped(t)) > limit
=============================================================================
