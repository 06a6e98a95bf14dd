--------------------------- MODULE MCSpokenReply ---------------------------
(* SpokenReply for TLC, with texts that meet each rule of the splitter, the *)
(* sanitizer and the mirror.                                               *)
EXTENDS SpokenReply

Text(words) == Tail(FlattenSeq([k \in DOMAIN words |->
                 IF words[k] = "." THEN <<words[k]>> ELSE <<" ", words[k]>>]))

Unfinished == Text(<<"Run", "it", ".", "Then", "e.g.", "it">>)
Joined     == Text(<<"Run", "it", ".">>) \o <<Newline>> \o Text(<<"Then", "it", ".">>)
Counted    == Text(<<"it", "3", ".", "3", ".", "Run">>)
Fenced     == <<Fence, Newline>> \o Text(<<"it", ".", "Run">>) \o <<Newline, Newline, Fence>>
Spinner    == <<"~", " ", "Run", Newline>> \o Text(<<"Then", ".">>)
Blanks     == <<Newline, Newline>>

Prosaic == {Unfinished, Joined, Counted, Fenced, Spinner, Blanks}
=============================================================================
