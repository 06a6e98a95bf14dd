------------------------------- MODULE Mirror -------------------------------
(***************************************************************************)
(* How a text is cut into messages of the bound text channel: _chunks of   *)
(* discord_app/mirror.py.                                                  *)
(***************************************************************************)
EXTENDS SpeechText

CONSTANTS MessageLimit,  \* DISCORD_MESSAGE_LIMIT
          ChunkLimit     \* _CHUNK

ASSUME MirrorAssumption ==
  /\ ChunkLimit \in Nat \ {0}
  /\ MessageLimit \in Nat
  /\ ChunkLimit <= MessageLimit

\* One line more: a line that is too long for a chunk is cut, and what is left
\* of it joins the current chunk, or begins the next one.
AddLine(s, line) ==
  LET n       == IF line = <<>> THEN 0 ELSE (Len(line) - 1) \div ChunkLimit
      cut     == [k \in 1..n |-> SubSeq(line, (k - 1) * ChunkLimit + 1, k * ChunkLimit)]
      rest    == SubSeq(line, n * ChunkLimit + 1, Len(line))
      current == IF n > 0 THEN <<>> ELSE s.current
      out     == IF n > 0 THEN s.out \o NonEmpty(<<s.current>>) \o cut ELSE s.out
  IN IF Len(current) + Len(rest) + 1 > ChunkLimit
     THEN [out |-> Append(out, current), current |-> rest]
     ELSE [out |-> out, current |-> Join(NonEmpty(<<current>>) \o <<rest>>, <<Newline>>)]

\* What the lines of content make, one after the other.
Chunked(content) ==
  LET lines == LinesOf(content)
      after[k \in 0..Len(lines)] ==
        IF k = 0 THEN [out |-> <<>>, current |-> <<>>] ELSE AddLine(after[k - 1], lines[k])
  IN after[Len(lines)]

\* Fault: what is left behind the last full chunk is forgotten.
ChunksWithoutRest(content) ==
  IF Len(content) <= MessageLimit THEN <<content>> ELSE Chunked(content).out

Chunks(content) ==
  LET all == Chunked(content)
  IN IF Len(content) <= MessageLimit THEN <<content>>
     ELSE all.out \o NonEmpty(<<all.current>>)
=============================================================================
