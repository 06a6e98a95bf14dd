---------------------------- MODULE SpokenReply ----------------------------
(***************************************************************************)
(* What becomes of Claude's words in one turn: _run_turn and               *)
(* _speak_sentence (discord_app/session.py), from the bridge's events to   *)
(* the sentences that are spoken and to the messages in the bound text     *)
(* channel.  The locks and the latch around a turn are in VoiceSession, the *)
(* audio of a sentence in Playback.                                        *)
(*                                                                         *)
(* A step runs from one await to the next.  Only the turn itself changes   *)
(* what it has: other tasks matter for whether a sentence is heard and a   *)
(* message accepted, which is a choice here.                               *)
(***************************************************************************)
EXTENDS Mirror

CONSTANTS ProseTexts,  \* texts of PROSE events
          RawTexts,    \* texts of RAW events
          SpeakLimit,  \* speak_char_limit
          MaxEvents    \* bound: events of a turn before its last one

ASSUME ReplyAssumption ==
  /\ ProseTexts \cup RawTexts \subseteq Texts
  /\ SpeakLimit \in Nat
  /\ MaxEvents \in Nat

VARIABLES
  at,       \* where the turn is
  output,   \* full_output
  pending,  \* the streamer's _pending
  queue,    \* sentences released and not handed to _speak_sentence yet
  posting,  \* messages of the mirrored output not sent yet
  channel,  \* what the bound channel accepted of it
  refused,  \* did the gate or Discord refuse a message of it?
  capped,   \* was it decided to notice that the spoken reply was capped?
  prose,    \* history: the deltas fed to the streamer, as one text
  handled,  \* history: the sentences taken off the queue
  spoken    \* history: the texts that were played

speech == <<pending, queue, handled, spoken>>
mirror == <<posting, channel, refused, capped>>
vars == <<at, output, prose, speech, mirror>>

Steps == {"streaming", "flushing", "mirroring", "noting", "ended", "left"}

\* Also: nothing that is spoken is longer than the limit allows, and no message
\* is longer than Discord does.
TypeOK ==
  /\ at \in Steps
  /\ output \in Seq(ProseTexts \cup RawTexts)
  /\ Len(output) <= MaxEvents
  /\ {prose, pending} \subseteq Texts
  /\ {queue, handled, posting, channel} \subseteq Seq(Texts)
  /\ refused \in BOOLEAN /\ capped \in BOOLEAN
  /\ \A t \in spoken : t \in Texts /\ Len(t) <= SpeakLimit
  /\ \A t \in ToSet(channel) : Len(t) <= MessageLimit

Init ==
  /\ at = "streaming"
  /\ output = <<>> /\ prose = <<>>
  /\ pending = <<>> /\ queue = <<>> /\ handled = <<>> /\ spoken = {}
  /\ posting = <<>> /\ channel = <<>> /\ refused = FALSE /\ capped = FALSE

-----------------------------------------------------------------------------
(* The events of the bridge, each when the sentences of the last are done. *)

Listening == at = "streaming" /\ queue = <<>>

Prose(t) ==
  /\ Listening
  /\ Len(output) < MaxEvents
  /\ LET fed == Feed(pending \o t \o <<Newline>>)
     IN queue' = fed.released /\ pending' = fed.pending
  /\ output' = Append(output, t)
  /\ prose' = prose \o t \o <<Newline>>
  /\ UNCHANGED <<at, handled, spoken, mirror>>

Raw(t) ==
  /\ Listening
  /\ Len(output) < MaxEvents
  /\ output' = Append(output, t)
  /\ UNCHANGED <<at, prose, speech, mirror>>

\* DONE, or the generator is exhausted.
Done ==
  /\ Listening
  /\ at' = "flushing"
  /\ queue' = Flush(pending)
  /\ pending' = <<>>
  /\ UNCHANGED <<output, prose, handled, spoken, mirror>>

\* PERMISSION, RATE_LIMIT and ERROR return, once their own notices are given.
Returns ==
  /\ Listening
  /\ at' = "left"
  /\ UNCHANGED <<output, prose, speech, mirror>>

-----------------------------------------------------------------------------
(* _speak_sentence: without speech in it, with TTS off, failing, silent, or *)
(* with nowhere to be played, a sentence is skipped.                       *)

Speak ==
  /\ at \in {"streaming", "flushing"}
  /\ queue # <<>>
  /\ queue' = Tail(queue)
  /\ handled' = Append(handled, Head(queue))
  /\ LET said == SanitizeForSpeech(Head(queue), SpeakLimit)
     IN \/ said # <<>> /\ spoken' = spoken \cup {said}
        \/ UNCHANGED spoken
  /\ UNCHANGED <<at, output, prose, pending, mirror>>

-----------------------------------------------------------------------------
(* After the stream: the mirror gets everything, then a notice.            *)

Combined == Join(Kept(output, {t \in Texts : Strip(t) # <<>>}), <<Newline>>)

\* Gate 10 may find no channel to write to.
Mirror ==
  /\ at = "flushing"
  /\ queue = <<>>
  /\ Strip(Combined) # <<>>
  /\ \/ at' = "mirroring" /\ posting' = Chunks(Combined) /\ UNCHANGED refused
     \/ at' = "noting" /\ refused' = TRUE /\ UNCHANGED posting
  /\ UNCHANGED <<output, prose, speech, channel, capped>>

MirrorNothing ==
  /\ at = "flushing"
  /\ queue = <<>>
  /\ Strip(Combined) = <<>>
  /\ at' = "noting"
  /\ UNCHANGED <<output, prose, speech, mirror>>

Post ==
  /\ at = "mirroring"
  /\ posting # <<>>
  /\ Strip(Head(posting)) # <<>>
  /\ channel' = Append(channel, Head(posting))
  /\ posting' = Tail(posting)
  /\ at' = IF posting' = <<>> THEN "noting" ELSE at
  /\ UNCHANGED <<output, prose, speech, refused, capped>>

\* Discord takes no blank message, and may refuse any; the rest is not sent.
PostFails ==
  /\ at = "mirroring"
  /\ posting' = <<>>
  /\ refused' = TRUE
  /\ at' = "noting"
  /\ UNCHANGED <<output, prose, speech, channel, capped>>

Note ==
  /\ at = "noting"
  /\ capped' = IsTruncated(Combined, SpeakLimit)
  /\ at' = "ended"
  /\ UNCHANGED <<output, prose, speech, posting, channel, refused>>

-----------------------------------------------------------------------------
Next ==
  \/ \E t \in ProseTexts : Prose(t)
  \/ \E t \in RawTexts : Raw(t)
  \/ Done
  \/ Returns
  \/ Speak
  \/ Mirror
  \/ MirrorNothing
  \/ Post
  \/ PostFails
  \/ Note

Spec == Init /\ [][Next]_vars

-----------------------------------------------------------------------------
(* Properties.                                                             *)

WordsOf(ts) == LettersOf(FlattenSeq(ts))

\* The streamer loses no word of the prose, doubles none and keeps their order:
\* what was handed over, what is released and what is pending make up what was
\* fed, however the deltas cut it (tts/sentences.py).
NothingIsLost == WordsOf(handled \o queue \o <<pending>>) = LettersOf(prose)

\* How many words of ts come up to the end of each of them.
Ends(ts) == {Len(WordsOf(SubSeq(ts, 1, k))) : k \in DOMAIN ts}

\* A sentence is spoken as one piece, never with another: wherever the finished
\* text has the end of a sentence, the streamed one has it too.
SentencesAreNotMerged ==
  at \in {"mirroring", "noting", "ended"} =>
    Ends(SplitSentences(prose)) \subseteq Ends(handled) \cup {0}

\* A turn that went through to its end has put every word of Claude's into the
\* channel, in order, in messages that Discord takes, unless one was refused.
MirroredInFull ==
  at \in {"noting", "ended"} /\ ~refused => WordsOf(channel) = WordsOf(output)

Streamed == INSTANCE Relay WITH
  given  <- LettersOf(prose),
  passed <- WordsOf(handled),
  state  <- CASE at \in {"streaming", "flushing"} -> "open"
              [] at = "left" -> "broken"
              [] OTHER -> "through"

Mirrored == INSTANCE Relay WITH
  given  <- WordsOf(output),
  passed <- WordsOf(channel),
  state  <- IF refused \/ at = "left" THEN "broken"
            ELSE IF at = "ended" THEN "through"
            ELSE "open"

\* The voice gets the prose, and the channel everything, as a relay passes it
\* on: at any moment what was handed over or posted is how the text begins, also
\* when the rest is refused, and nothing comes after the end.
WordsAreRelayed == Streamed!Spec /\ Mirrored!Spec

\* Claude's words reach the channel whichever way the turn ends, unless a
\* message was refused.  ("everything the bot hears and everything Claude says
\* lands there in full", discord_app/mirror.py:3; "the full output always goes
\* to the bound text channel untruncated", .env.example:74.)
EverythingIsMirrored ==
  at \in {"ended", "left"} /\ ~refused => WordsOf(channel) = WordsOf(output)
=============================================================================
