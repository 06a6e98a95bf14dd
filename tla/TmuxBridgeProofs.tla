-------------------------- MODULE TmuxBridgeProofs --------------------------
(***************************************************************************)
(* What holds of TmuxBridge for any lines, classification, callers and     *)
(* length of the pane.  IInv ties the phase of the generator to the batch  *)
(* it yields and to what was read last.                                    *)
(***************************************************************************)
EXTENDS TmuxBridge, Integers, TLAPS

Yielding == phase \in {"yielding", "finishing"}

\* Between turns nobody has the lock.
HolderIsInside == holder = NULL <=> phase \in {"detached", "free"}

\* The lines being yielded are the ones read last, and not committed.
BatchIsUncommitted ==
  Yielding => batch # <<>> /\ lastRead = committed + Len(batch) /\ ~abandoned

\* Otherwise everything read is committed, unless its consumer left.
RestIsCommitted ==
  ~Yielding =>
    /\ batch = <<>>
    /\ abandoned => committed < lastRead
    /\ ~abandoned => committed = lastRead

FreshIsUnread == phase = "detached" => ~abandoned

IInv ==
  /\ TypeOK
  /\ HolderIsInside
  /\ BatchIsUncommitted
  /\ RestIsCommitted
  /\ FreshIsUnread

LEMMA Empty == ASSUME NEW S PROVE <<>> \in Seq(S) /\ Len(<<>>) = 0
OBVIOUS

LEMMA InitIInv == Init => IInv
<1> SUFFICES ASSUME Init PROVE IInv
  OBVIOUS
<1>1. TypeOK
  <2>1. pane \in Seq(Lines) /\ Len(pane) <= MaxPane /\ waiters \in Seq(Callers)
        /\ previous \in Seq(Lines) /\ batch \in Seq(Lines)
    BY TmuxAssumption, Empty DEF Init
  <2>2. QED
    BY <2>1 DEF Init, TypeOK, Phases
<1>2. HolderIsInside /\ BatchIsUncommitted /\ RestIsCommitted /\ FreshIsUnread
  BY DEF Init, HolderIsInside, BatchIsUncommitted, RestIsCommitted, FreshIsUnread, Yielding
<1>3. QED
  BY <1>1, <1>2 DEF IInv

-----------------------------------------------------------------------------
(* Batches.                                                                *)

\* A failed capture is the empty pane, and a part of a pane is made of lines.
LEMMA BatchType ==
  ASSUME TypeOK, NEW shown \in Captures, NEW i \in Nat \ {0}, NEW j \in Int, j <= Len(shown)
  PROVE  /\ shown \in Seq(Lines)
         /\ SubSeq(shown, i, j) \in Seq(Lines)
         /\ i <= j => Len(SubSeq(shown, i, j)) = j - i + 1
<1>1. shown \in Seq(Lines)
  BY Empty DEF TypeOK, Captures
<1>2. \A k \in i..j : shown[k] \in Lines
  BY <1>1
<1>3. QED
  BY <1>1, <1>2

\* The options of a batch are option lines.
LEMMA OptionsType ==
  ASSUME TypeOK, NEW b
  PROVE  WithOptions(b) \subseteq Options
BY DEF TypeOK, WithOptions, LatestOptions

\* Events are named by places in their batch, or by the one behind it.
LEMMA EventsType ==
  ASSUME NEW b \in Seq(Lines)
  PROVE  Events(b) \subseteq 1..(Len(b) + 1)
<1>1. DOMAIN b = 1..Len(b) /\ Len(b) \in Nat
  OBVIOUS
<1>2. QED
  BY <1>1 DEF Events

-----------------------------------------------------------------------------
(* The steps that read or yield.                                           *)

LEMMA PollKeepsIInv == ASSUME IInv, NEW c \in Callers, Poll(c) PROVE IInv'
<1>1. phase = "polling" /\ ~Yielding /\ batch = <<>> /\ holder = c /\ c # NULL
  BY TmuxAssumption DEF Poll, Yielding, IInv, RestIsCommitted
<1>2. PICK shown \in Captures :
        LET b == SubSeq(shown, committed + 1, Len(shown) - 1)
        IN /\ previous' = shown
           /\ \/ /\ Len(shown) <= committed + 1
                 /\ AfterIteration(saw /\ shown = previous)
                 /\ UNCHANGED <<committed, options, saw, yields, history>>
              \/ /\ Len(shown) > committed + 1
                 /\ Read(b)
                 /\ saw' = TRUE
                 /\ Yield(b, "yielding")
              \/ /\ Len(shown) > committed + 1
                 /\ Read(b)
                 /\ CommitSilently(b)
                 /\ AfterIteration(saw /\ shown = previous)
                 /\ UNCHANGED saw
  BY DEF Poll
<1> DEFINE b == SubSeq(shown, committed + 1, Len(shown) - 1)
<1>3. /\ TypeOK
      /\ committed \in Nat
      /\ UNCHANGED <<pane, holder, waiters, answering>>
  BY DEF IInv, TypeOK, Poll, lock
<1>4. shown \in Seq(Lines)
  BY <1>3, BatchType
<1>5. b \in Seq(Lines) /\ Len(b) \in Nat
  BY <1>3, <1>4, BatchType
<1> HIDE DEF b
<1>6. CASE /\ Len(shown) <= committed + 1
           /\ AfterIteration(saw /\ shown = previous)
           /\ UNCHANGED <<committed, options, saw, yields, history>>
  <2>1. phase' \in {"settling", "error", "polling"}
    BY <1>6 DEF AfterIteration
  <2>2. TypeOK'
    BY <1>2, <1>3, <1>4, <1>6, <2>1 DEF TypeOK, Phases, yields, history
  <2>3. QED
    BY <1>1, <1>3, <1>6, <2>1, <2>2 DEF IInv, HolderIsInside, BatchIsUncommitted,
       RestIsCommitted, FreshIsUnread, Yielding, yields, history
<1>7. CASE /\ Len(shown) > committed + 1
           /\ Read(b)
           /\ saw' = TRUE
           /\ Yield(b, "yielding")
  <2>1. Len(b) \in Nat /\ Len(b) > 0 /\ b # <<>>
    <3>1. Len(b) \in Nat /\ Len(b) > 0
      BY <1>3, <1>4, <1>7, BatchType DEF b
    <3>2. QED
      BY <3>1, Empty
  <2>2. /\ batch' = b /\ batch' # <<>> /\ phase' = "yielding" /\ abandoned' = FALSE
        /\ lastRead' = committed + Len(b) /\ committed' = committed
        /\ options' \subseteq Options /\ due' \subseteq 1..(Len(b) + 1)
    BY <1>3, <1>5, <1>7, <2>1, OptionsType, EventsType DEF Read, Yield
  <2>3. TypeOK'
    <3>1. /\ committed' \in Nat /\ lastRead' \in Nat /\ batch' \in Seq(Lines)
          /\ due' \subseteq 1..(Len(batch') + 1)
      BY <1>3, <1>5, <2>2
    <3>2. phase' \in Phases /\ saw' \in BOOLEAN /\ previous' \in Seq(Lines) /\ abandoned' \in BOOLEAN
      BY <1>2, <1>4, <1>7, <2>2 DEF Phases
    <3>3. QED
      BY <1>3, <3>1, <3>2, <2>2 DEF TypeOK
  <2>4. QED
    BY <1>1, <1>3, <2>2, <2>3 DEF IInv, HolderIsInside, BatchIsUncommitted, RestIsCommitted,
       FreshIsUnread, Yielding
<1>8. CASE /\ Len(shown) > committed + 1
           /\ Read(b)
           /\ CommitSilently(b)
           /\ AfterIteration(saw /\ shown = previous)
           /\ UNCHANGED saw
  <2>1. phase' \in {"settling", "error", "polling"}
    BY <1>8 DEF AfterIteration
  <2>2. /\ committed' = committed + Len(b) /\ lastRead' = committed + Len(b) /\ abandoned' = FALSE
        /\ batch' = batch /\ due' = due /\ saw' = saw /\ options' \subseteq Options
    BY <1>3, <1>8, OptionsType DEF Read, CommitSilently, yields
  <2>3. TypeOK'
    <3>1. /\ committed' \in Nat /\ lastRead' \in Nat /\ batch' \in Seq(Lines)
          /\ due' \subseteq 1..(Len(batch') + 1)
      BY <1>3, <1>5, <2>2 DEF TypeOK
    <3>2. phase' \in Phases /\ saw' \in BOOLEAN /\ previous' \in Seq(Lines) /\ abandoned' \in BOOLEAN
      BY <1>2, <1>3, <1>4, <2>1, <2>2 DEF Phases, TypeOK
    <3>3. QED
      BY <1>3, <3>1, <3>2, <2>2 DEF TypeOK
  <2>4. QED
    BY <1>1, <1>3, <2>1, <2>2, <2>3 DEF IInv, HolderIsInside, BatchIsUncommitted,
       RestIsCommitted, FreshIsUnread, Yielding
<1>9. QED
  BY <1>2, <1>6, <1>7, <1>8 DEF b

LEMMA SettleKeepsIInv == ASSUME IInv, NEW c \in Callers, Settle(c) PROVE IInv'
<1>1. phase = "settling" /\ ~Yielding /\ batch = <<>> /\ holder = c /\ c # NULL
  BY TmuxAssumption DEF Settle, Yielding, IInv, RestIsCommitted
<1>2. PICK shown \in Captures :
        LET b == SubSeq(shown, committed + 1, Len(shown))
        IN \/ /\ Len(shown) <= committed
              /\ phase' = "done"
              /\ UNCHANGED <<committed, options, yields, history>>
           \/ /\ Len(shown) > committed
              /\ Read(b)
              /\ \/ Yield(b, "finishing")
                 \/ CommitSilently(b) /\ phase' = "done"
  BY DEF Settle
<1> DEFINE b == SubSeq(shown, committed + 1, Len(shown))
<1>3. /\ TypeOK
      /\ committed \in Nat
      /\ UNCHANGED <<pane, holder, waiters, answering, previous, saw>>
  BY DEF IInv, TypeOK, Settle, lock, loop
<1>4. shown \in Seq(Lines)
  BY <1>3, BatchType
<1>5. b \in Seq(Lines) /\ Len(b) \in Nat
  BY <1>3, <1>4, BatchType
<1> HIDE DEF b
<1>6. CASE /\ Len(shown) <= committed
           /\ phase' = "done"
           /\ UNCHANGED <<committed, options, yields, history>>
  <2>1. TypeOK'
    BY <1>3, <1>6 DEF TypeOK, Phases, yields, history
  <2>2. QED
    BY <1>1, <1>3, <1>6, <2>1 DEF IInv, HolderIsInside, BatchIsUncommitted, RestIsCommitted,
       FreshIsUnread, Yielding, yields, history
<1>7. CASE Len(shown) > committed /\ Read(b) /\ Yield(b, "finishing")
  <2>1. Len(b) \in Nat /\ Len(b) > 0 /\ b # <<>>
    <3>1. Len(b) \in Nat /\ Len(b) > 0
      BY <1>3, <1>4, <1>7, BatchType DEF b
    <3>2. QED
      BY <3>1, Empty
  <2>2. /\ batch' = b /\ batch' # <<>> /\ phase' = "finishing" /\ abandoned' = FALSE
        /\ lastRead' = committed + Len(b) /\ committed' = committed
        /\ options' \subseteq Options /\ due' \subseteq 1..(Len(b) + 1)
    BY <1>3, <1>5, <1>7, <2>1, OptionsType, EventsType DEF Read, Yield
  <2>3. TypeOK'
    <3>1. /\ committed' \in Nat /\ lastRead' \in Nat /\ batch' \in Seq(Lines)
          /\ due' \subseteq 1..(Len(batch') + 1)
      BY <1>3, <1>5, <2>2
    <3>2. phase' \in Phases /\ abandoned' \in BOOLEAN
      BY <2>2 DEF Phases
    <3>3. QED
      BY <1>3, <3>1, <3>2, <2>2 DEF TypeOK
  <2>4. QED
    BY <1>1, <1>3, <2>2, <2>3 DEF IInv, HolderIsInside, BatchIsUncommitted, RestIsCommitted,
       FreshIsUnread, Yielding
<1>8. CASE Len(shown) > committed /\ Read(b) /\ CommitSilently(b) /\ phase' = "done"
  <2>1. /\ committed' = committed + Len(b) /\ lastRead' = committed + Len(b) /\ abandoned' = FALSE
        /\ batch' = batch /\ due' = due /\ options' \subseteq Options
    BY <1>3, <1>8, OptionsType DEF Read, CommitSilently, yields
  <2>2. TypeOK'
    <3>1. /\ committed' \in Nat /\ lastRead' \in Nat /\ batch' \in Seq(Lines)
          /\ due' \subseteq 1..(Len(batch') + 1)
      BY <1>3, <1>5, <2>1 DEF TypeOK
    <3>2. phase' \in Phases /\ abandoned' \in BOOLEAN
      BY <1>8, <2>1 DEF Phases
    <3>3. QED
      BY <1>3, <3>1, <3>2, <2>1 DEF TypeOK
  <2>3. QED
    BY <1>1, <1>3, <1>8, <2>1, <2>2 DEF IInv, HolderIsInside, BatchIsUncommitted,
       RestIsCommitted, FreshIsUnread, Yielding
<1>9. QED
  BY <1>2, <1>6, <1>7, <1>8 DEF b

LEMMA ResumeKeepsIInv == ASSUME IInv, NEW c \in Callers, Resume(c) PROVE IInv'
<1>1. Yielding /\ batch # <<>> /\ lastRead = committed + Len(batch) /\ ~abandoned
      /\ holder = c /\ c # NULL
  BY TmuxAssumption DEF Resume, Yielding, IInv, BatchIsUncommitted
<1>2. /\ TypeOK
      /\ UNCHANGED <<pane, holder, waiters, options, answering, previous, saw, lastRead, abandoned>>
      /\ due' = {i \in due : ~IsNext(i)}
      /\ committed \in Nat /\ Len(batch) \in Nat
  BY DEF IInv, TypeOK, Resume, lock, loop, history
<1>3. CASE due' # {} /\ UNCHANGED <<phase, committed, batch>>
  <2>1. TypeOK'
    BY <1>2, <1>3 DEF TypeOK
  <2>2. QED
    BY <1>1, <1>2, <1>3, <2>1 DEF IInv, HolderIsInside, BatchIsUncommitted, RestIsCommitted,
       FreshIsUnread, Yielding
<1>4. CASE /\ due' = {}
           /\ committed' = committed + Len(batch)
           /\ batch' = <<>>
           /\ \/ phase = "yielding" /\ AfterIteration(saw)
              \/ phase = "finishing" /\ phase' = "done"
  <2>1. phase' \in {"settling", "error", "polling", "done"}
    BY <1>4 DEF AfterIteration
  <2>2. batch' \in Seq(Lines) /\ committed' \in Nat /\ due' \subseteq 1..(Len(batch') + 1)
    BY <1>2, <1>4, Empty
  <2>3. TypeOK'
    BY <1>2, <2>1, <2>2 DEF TypeOK, Phases
  <2>4. QED
    BY <1>1, <1>2, <1>4, <2>1, <2>3 DEF IInv, HolderIsInside, BatchIsUncommitted,
       RestIsCommitted, FreshIsUnread, Yielding
<1>5. QED
  BY <1>3, <1>4 DEF Resume

LEMMA LeaveKeepsIInv == ASSUME IInv, NEW c \in Callers, Leave(c) PROVE IInv'
<1>1. batch # <<>> /\ lastRead = committed + Len(batch) /\ batch \in Seq(Lines)
      /\ committed \in Nat
  BY DEF Leave, Yielding, IInv, BatchIsUncommitted, TypeOK
<1>2. Len(batch) \in Nat /\ Len(batch) > 0
  BY <1>1
<1>3. TypeOK'
  <2>1. previous' \in Seq(Lines) /\ batch' \in Seq(Lines)
    BY Empty DEF Leave, Release
  <2>2. QED
    BY <2>1 DEF IInv, TypeOK, Leave, Release, Phases
<1>4. QED
  BY <1>1, <1>2, <1>3 DEF IInv, Leave, Release, HolderIsInside, BatchIsUncommitted,
     RestIsCommitted, FreshIsUnread, Yielding

-----------------------------------------------------------------------------
(* The other steps.                                                        *)

LEMMA PaneKeepsIInv ==
  ASSUME IInv,
         \/ \E l \in Lines : Draw(l)
         \/ \E n \in 0..MaxPane : Erase(n)
  PROVE  IInv'
<1>1. pane' \in Seq(Lines) /\ Len(pane') <= MaxPane
  <2>1. CASE \E l \in Lines : Draw(l)
    BY <2>1, TmuxAssumption DEF IInv, TypeOK, Draw
  <2>2. ASSUME NEW n \in 0..MaxPane, Erase(n) PROVE pane' \in Seq(Lines) /\ Len(pane') <= MaxPane
    BY <2>2, TmuxAssumption DEF IInv, TypeOK, Erase
  <2>3. QED
    BY <2>1, <2>2
<1>2. UNCHANGED <<lock, phase, committed, options, answering, loop, yields, history>>
  BY DEF Draw, Erase
<1>3. TypeOK'
  BY <1>1, <1>2 DEF IInv, TypeOK, lock, loop, yields, history
<1>4. QED
  BY <1>2, <1>3 DEF IInv, HolderIsInside, BatchIsUncommitted, RestIsCommitted, FreshIsUnread,
     Yielding, lock, loop, yields, history

LEMMA AttachKeepsIInv == ASSUME IInv, Attach PROVE IInv'
<1>1. PICK shown \in Captures : committed' = Len(shown) /\ lastRead' = Len(shown)
  BY DEF Attach
<1>2. Len(shown) \in Nat
  BY BatchType DEF IInv
<1>3. TypeOK'
  BY <1>1, <1>2 DEF IInv, TypeOK, Attach, Phases, lock, loop, yields
<1>4. QED
  BY <1>1, <1>3 DEF IInv, Attach, HolderIsInside, BatchIsUncommitted, RestIsCommitted,
     FreshIsUnread, Yielding, lock, loop, yields

\* Taking the lock begins a turn with nothing read.
LEMMA BeginKeepsIInv ==
  ASSUME IInv, NEW c \in Callers, holder = NULL, Begin(c), waiters' \in Seq(Callers)
  PROVE  IInv'
<1>1. phase \in {"detached", "free"} /\ c # NULL
  BY TmuxAssumption DEF IInv, HolderIsInside
<1>2. TypeOK'
  BY DEF IInv, TypeOK, Begin, Phases, loop, yields, history
<1>3. QED
  BY <1>1, <1>2 DEF IInv, Begin, HolderIsInside, BatchIsUncommitted, RestIsCommitted,
     FreshIsUnread, Yielding, loop, yields, history

LEMMA SendKeepsIInv == ASSUME IInv, NEW c \in Callers, Send(c) PROVE IInv'
<1>1. CASE holder = NULL /\ Begin(c) /\ UNCHANGED waiters
  BY <1>1, BeginKeepsIInv DEF IInv, TypeOK
<1>2. CASE /\ waiters' = Append(waiters, c)
           /\ UNCHANGED <<pane, holder, phase, committed, options, answering, loop, yields, history>>
  <2>1. TypeOK'
    BY <1>2 DEF IInv, TypeOK, loop, yields, history
  <2>2. QED
    BY <1>2, <2>1 DEF IInv, HolderIsInside, BatchIsUncommitted, RestIsCommitted, FreshIsUnread,
       Yielding, loop, yields, history
<1>3. QED
  BY <1>1, <1>2 DEF Send

LEMMA WakeKeepsIInv == ASSUME IInv, NEW c \in Callers, Wake(c) PROVE IInv'
<1>1. waiters' \in Seq(Callers)
  BY DEF IInv, TypeOK, Wake
<1>2. QED
  BY <1>1, BeginKeepsIInv DEF Wake

LEMMA TypingKeepsIInv ==
  ASSUME IInv, NEW c \in Callers, TypeText(c) \/ TypeEnter(c)
  PROVE  IInv'
<1>1. /\ phase \in {"text", "enter"} /\ phase' \in {"enter", "error", "polling"}
      /\ UNCHANGED <<pane, lock, committed, options, answering, loop, yields, history>>
  BY DEF TypeText, TypeEnter
<1>2. TypeOK'
  BY <1>1 DEF IInv, TypeOK, Phases, lock, loop, yields, history
<1>3. QED
  BY <1>1, <1>2 DEF IInv, HolderIsInside, BatchIsUncommitted, RestIsCommitted, FreshIsUnread,
     Yielding, lock, loop, yields, history

LEMMA EndTurnKeepsIInv == ASSUME IInv, NEW c \in Callers, EndTurn(c) PROVE IInv'
<1>1. TypeOK'
  <2>1. previous' \in Seq(Lines) /\ batch' \in Seq(Lines)
    BY Empty DEF EndTurn, Release
  <2>2. QED
    BY <2>1 DEF IInv, TypeOK, EndTurn, Release, Phases, history
<1>2. QED
  BY <1>1 DEF IInv, EndTurn, Release, HolderIsInside, BatchIsUncommitted, RestIsCommitted,
     FreshIsUnread, Yielding, history

LEMMA AnswersKeepIInv ==
  ASSUME IInv, (\E decision \in Decisions : Respond(decision)) \/ Responded
  PROVE  IInv'
<1>1. /\ answering' \in BOOLEAN /\ options' \subseteq Options
      /\ UNCHANGED <<pane, lock, phase, committed, loop, yields, history>>
  BY DEF IInv, TypeOK, Respond, Responded
<1>2. TypeOK'
  BY <1>1 DEF IInv, TypeOK, lock, loop, yields, history
<1>3. QED
  BY <1>1, <1>2 DEF IInv, HolderIsInside, BatchIsUncommitted, RestIsCommitted, FreshIsUnread,
     Yielding, lock, loop, yields, history

LEMMA NextKeepsIInv == IInv /\ [Next]_vars => IInv'
<1> SUFFICES ASSUME IInv, [Next]_vars PROVE IInv'
  OBVIOUS
<1>1. ASSUME NEW c \in Callers, Turn(c) PROVE IInv'
  BY <1>1, WakeKeepsIInv, TypingKeepsIInv, PollKeepsIInv, ResumeKeepsIInv, SettleKeepsIInv,
     LeaveKeepsIInv, EndTurnKeepsIInv DEF Turn
<1>2. CASE UNCHANGED vars
  <2>1. UNCHANGED <<pane, holder, waiters, phase, committed, options, answering, previous, saw,
                    batch, due, lastRead, abandoned>>
    BY <1>2 DEF vars, lock, loop, yields, history
  <2>2. QED
    BY <2>1 DEF IInv, TypeOK, HolderIsInside, BatchIsUncommitted, RestIsCommitted,
       FreshIsUnread, Yielding
<1>3. QED
  BY <1>1, <1>2, AttachKeepsIInv, PaneKeepsIInv, SendKeepsIInv, AnswersKeepIInv DEF Next

LEMMA IInvHolds == Spec => []IInv
<1>1. QED
  BY InitIInv, NextKeepsIInv, PTL DEF Spec

-----------------------------------------------------------------------------
(* What a reader should know of.                                           *)

\* The state keeps its shape, whatever the pane shows and however captures,
\* answers and turns interleave.
THEOREM TypeCorrect == Spec => []TypeOK
<1>1. IInv => TypeOK
  BY DEF IInv
<1>2. QED
  BY <1>1, IInvHolds, PTL

\* No line is committed before its consumer has taken every event of its
\* batch (send() moves _committed behind the yields).
THEOREM NothingSkipped == Spec => []NothingIsSkipped
<1>1. ASSUME IInv PROVE NothingIsSkipped
  <2>1. committed \in Nat /\ lastRead \in Nat /\ Len(batch) \in Nat
    BY <1>1 DEF IInv, TypeOK
  <2>2. QED
    BY <1>1, <2>1 DEF IInv, NothingIsSkipped, BatchIsUncommitted, RestIsCommitted
<1>2. QED
  BY <1>1, IInvHolds, PTL

\* Every batch begins where the last one ended, unless that one's consumer
\* left: across polls, the capture after settling, turns and callers.
THEOREM InOrder == Spec => ReadsInOrder
<1>1. ASSUME IInv, [Next]_vars
      PROVE  [Reads => committed = lastRead \/ abandoned]_vars
  BY <1>1 DEF IInv, RestIsCommitted, Yielding, Reads
<1>2. QED
  BY <1>1, IInvHolds, PTL DEF Spec, ReadsInOrder
=============================================================================
