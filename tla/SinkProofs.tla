------------------------------ MODULE SinkProofs ------------------------------
(* For any users and any limits the settings allow: the counters of a turn  *)
(* match its audio, which is bounded and whose speech is never trimmed;     *)
(* every turn that ends is reported; and /mute forgets what was said.       *)
EXTENDS Sink, SequenceTheorems, TLAPS

-----------------------------------------------------------------------------
(* One buffer.                                                             *)

\* What CountersMatchAudio and AudioIsBounded say of one buffer.
Sound(b) ==
  /\ b \in Buffer
  /\ b.speech = Len(b.chunks)
  /\ b.silence <= b.speech
  /\ \A i \in 1 .. Len(b.chunks) : b.chunks[i] => i + b.silence <= Len(b.chunks)
  /\ ~b.speaking => b.chunks = <<>>
  /\ Len(b.chunks) < MaxWindows
  /\ Len(b.preroll) <= PrerollWindows

Windows(b) == Len(b.chunks \o b.preroll)

LEMMA WindowsAdd ==
  ASSUME NEW b \in Buffer
  PROVE  Windows(b) = Len(b.chunks) + Len(b.preroll)
BY ConcatProperties DEF Buffer, Windows

LEMMA WindowsTyped ==
  ASSUME NEW b \in Buffer
  PROVE  Windows(b) \in Nat
<1> DEFINE all == b.chunks \o b.preroll
<1>1. b.chunks \in Seq(BOOLEAN) /\ b.preroll \in Seq(BOOLEAN)
  BY DEF Buffer
<1>2. all \in Seq(BOOLEAN)
  BY <1>1, ConcatProperties
<1>3. QED
  BY <1>2, LenProperties DEF Windows

LEMMA EmptyIsSound ==
  /\ Sound(Empty)
  /\ ~Empty.speaking
  /\ Windows(Empty) = 0
<1>1. <<>> \in Seq(BOOLEAN) /\ Len(<<>>) = 0
  BY EmptySeq
<1>2. Empty \in Buffer
  BY <1>1 DEF Empty, Buffer
<1>3. Sound(Empty)
  BY <1>1, <1>2, BufferAssumption DEF Sound, Empty
<1>4. Windows(Empty) = Len(Empty.chunks) + Len(Empty.preroll)
  BY <1>2, WindowsAdd
<1>5. Empty.chunks = <<>> /\ Empty.preroll = <<>> /\ ~Empty.speaking
  BY DEF Empty
<1>6. QED
  BY <1>1, <1>3, <1>4, <1>5

\* The pre-roll keeps its length, or grows by the one window.
LEMMA RolledIsBounded ==
  ASSUME NEW p \in Seq(BOOLEAN), NEW w \in BOOLEAN, Len(p) <= PrerollWindows
  PROVE  /\ Rolled(p, w) \in Seq(BOOLEAN)
         /\ Len(Rolled(p, w)) <= PrerollWindows
         /\ Len(Rolled(p, w)) <= Len(p) + 1
<1>1. CASE Len(p) < PrerollWindows
  BY <1>1, AppendProperties, LenProperties, BufferAssumption DEF Rolled
<1>2. CASE ~(Len(p) < PrerollWindows)
  <2>1. Len(p) = PrerollWindows /\ p # <<>>
    BY <1>2, LenProperties, EmptySeq, BufferAssumption
  <2>2. Tail(p) \in Seq(BOOLEAN) /\ Len(Tail(p)) = Len(p) - 1
    BY <2>1, HeadTailProperties
  <2>3. /\ Append(Tail(p), w) \in Seq(BOOLEAN)
        /\ Len(Append(Tail(p), w)) = Len(p)
    BY <2>2, AppendProperties, LenProperties
  <2>4. QED
    BY <1>2, <2>1, <2>3, BufferAssumption DEF Rolled
<1>3. QED
  BY <1>1, <1>2

LEMMA BegunIsSound ==
  ASSUME NEW b, Sound(b), ~b.speaking, NEW w \in BOOLEAN
  PROVE  Sound(Begun(b, w)) /\ Windows(Begun(b, w)) <= Windows(b) + 1
<1> DEFINE p == Rolled(b.preroll, w)
<1>1. /\ b \in Buffer /\ b.chunks = <<>>
      /\ b.preroll \in Seq(BOOLEAN) /\ Len(b.preroll) <= PrerollWindows
  BY DEF Sound, Buffer
<1>2. /\ p \in Seq(BOOLEAN)
      /\ Len(p) <= PrerollWindows /\ Len(p) <= Len(b.preroll) + 1 /\ Len(p) \in Nat
  BY <1>1, RolledIsBounded, LenProperties
<1>3. b.chunks \o p = p
  BY <1>1, <1>2, ConcatEmptySeq
<1>4. Begun(b, w) = [speaking |-> TRUE, chunks |-> p, preroll |-> <<>>,
                     silence |-> 0, speech |-> Len(p)]
  BY <1>3 DEF Begun
<1>5. Begun(b, w) \in Buffer /\ Len(<<>>) = 0
  BY <1>2, <1>4, EmptySeq DEF Buffer
<1>6. Sound(Begun(b, w))
  <2> HIDE DEF p
  <2> QED
    BY <1>2, <1>4, <1>5, BufferAssumption DEF Sound
<1>7. Windows(Begun(b, w)) = Len(p) + 0 /\ Windows(b) = 0 + Len(b.preroll)
  BY <1>1, <1>4, <1>5, WindowsAdd
<1>8. Len(b.preroll) \in Nat
  BY <1>1, LenProperties
<1>9. QED
  BY <1>2, <1>6, <1>7, <1>8

LEMMA QuietIsSound ==
  ASSUME NEW b, Sound(b), ~b.speaking, NEW w \in BOOLEAN,
         NEW q, q = [b EXCEPT !.preroll = Rolled(@, w)]
  PROVE  Sound(q) /\ Windows(q) <= Windows(b) + 1
<1> DEFINE p == Rolled(b.preroll, w)
           chunks == b.chunks
           preroll == b.preroll
<1>1. /\ b \in Buffer
      /\ preroll \in Seq(BOOLEAN) /\ Len(preroll) <= PrerollWindows
      /\ chunks \in Seq(BOOLEAN)
  BY DEF Sound, Buffer
<1>2. /\ p \in Seq(BOOLEAN)
      /\ Len(p) <= PrerollWindows /\ Len(p) <= Len(preroll) + 1 /\ Len(p) \in Nat
  BY <1>1, RolledIsBounded, LenProperties
<1>3. /\ q \in Buffer
      /\ q.preroll = p /\ q.chunks = b.chunks /\ q.speech = b.speech
      /\ q.silence = b.silence /\ q.speaking = b.speaking
  BY <1>1, <1>2 DEF Buffer
<1>4. Sound(q)
  <2> HIDE DEF p
  <2> QED
    BY <1>2, <1>3 DEF Sound
<1>5. Windows(q) = Len(chunks) + Len(p) /\ Windows(b) = Len(chunks) + Len(preroll)
  <2> HIDE DEF p
  <2> QED
    BY <1>1, <1>3, WindowsAdd
<1>6. Len(chunks) \in Nat /\ Len(preroll) \in Nat
  BY <1>1, LenProperties
<1>7. Windows(q) <= Windows(b) + 1
  <2> HIDE DEF p, chunks, preroll
  <2> QED
    BY <1>2, <1>5, <1>6
<1>8. QED
  BY <1>4, <1>7

LEMMA GrownIsSound ==
  ASSUME NEW b, Sound(b), b.speaking, NEW w \in BOOLEAN, ~Over(Grown(b, w))
  PROVE  Sound(Grown(b, w)) /\ Windows(Grown(b, w)) <= Windows(b) + 1
<1> DEFINE g == Grown(b, w)
           chunks == b.chunks
           preroll == b.preroll
           silence == b.silence
           speech == b.speech
           c == Append(chunks, w)
           s == IF w THEN 0 ELSE silence + 1
<1>1. /\ b \in Buffer
      /\ chunks \in Seq(BOOLEAN) /\ Len(chunks) \in Nat
      /\ preroll \in Seq(BOOLEAN) /\ Len(preroll) \in Nat
      /\ speech \in Nat /\ silence \in Nat
  BY LenProperties DEF Sound, Buffer
<1>2. /\ c \in Seq(BOOLEAN) /\ Len(c) = Len(chunks) + 1
      /\ \A i \in 1 .. Len(chunks) : c[i] = chunks[i]
      /\ c[Len(chunks) + 1] = w
  BY <1>1, AppendProperties
<1>3. /\ speech = Len(chunks) /\ silence <= speech
      /\ \A i \in 1 .. Len(chunks) : chunks[i] => i + silence <= Len(chunks)
      /\ Len(preroll) <= PrerollWindows
  BY DEF Sound
<1>4. /\ g \in Buffer
      /\ g.chunks = c /\ g.speech = speech + 1 /\ g.silence = s
      /\ g.speaking /\ g.preroll = preroll
  <2>1. g = [b EXCEPT !.chunks = c, !.speech = speech + 1, !.silence = s]
    BY DEF Grown
  <2>2. s \in Nat /\ speech + 1 \in Nat
    <3> HIDE DEF silence, speech
    <3> QED
      BY <1>1
  <2> HIDE DEF g, c, s
  <2>3. QED
    BY <1>1, <1>2, <2>1, <2>2 DEF Buffer
<1>5. ~(speech + 1 >= MaxWindows)
  <2> HIDE DEF g
  <2> QED
    BY <1>4 DEF Over, g
<1>6. Windows(g) = Len(c) + Len(preroll) /\ Windows(b) = Len(chunks) + Len(preroll)
  <2> HIDE DEF g, c
  <2> QED
    BY <1>1, <1>4, WindowsAdd
<1>7. \A i \in 1 .. Len(c) : c[i] => i + s <= Len(c)
  <2> HIDE DEF g, chunks, preroll, silence, speech, c
  <2> SUFFICES ASSUME NEW i \in 1 .. Len(c), c[i]
               PROVE  i + s <= Len(c)
    OBVIOUS
  <2>1. CASE w
    BY <2>1, <1>1, <1>2
  <2>2. CASE ~w
    <3>1. i \in 1 .. Len(chunks) /\ chunks[i]
      BY <2>2, <1>1, <1>2
    <3>2. i + silence <= Len(chunks)
      BY <3>1, <1>3
    <3>3. QED
      BY <2>2, <3>2, <1>1, <1>2
  <2>3. QED
    BY <2>1, <2>2
<1> HIDE DEF g, chunks, preroll, silence, speech, c
<1>8. /\ speech + 1 = Len(c) /\ s <= speech + 1
      /\ Len(c) < MaxWindows
      /\ Windows(g) <= Windows(b) + 1
  BY <1>1, <1>2, <1>3, <1>5, <1>6, BufferAssumption
<1>9. Sound(g)
  <2> HIDE DEF s
  <2> QED
    BY <1>3, <1>4, <1>7, <1>8 DEF Sound
<1>10. QED
  BY <1>8, <1>9 DEF g

\* Whatever a window scores, the buffer stays sound and has at most one window
\* more than before.
LEMMA AdvancedIsSound ==
  ASSUME NEW b, Sound(b), NEW w \in BOOLEAN
  PROVE  Sound(Advanced(b, w)) /\ Windows(Advanced(b, w)) <= Windows(b) + 1
<1>1. Windows(b) \in Nat
  BY WindowsTyped DEF Sound
<1>2. b.speaking \in BOOLEAN
  BY DEF Sound, Buffer
<1>3. CASE ~b.speaking /\ w
  BY <1>3, BegunIsSound DEF Advanced
<1>4. CASE ~b.speaking /\ ~w
  BY <1>4, QuietIsSound DEF Advanced
<1>5. CASE b.speaking /\ Over(Grown(b, w))
  BY <1>1, <1>5, EmptyIsSound DEF Advanced
<1>6. CASE b.speaking /\ ~Over(Grown(b, w))
  BY <1>6, GrownIsSound DEF Advanced
<1>7. QED
  BY <1>2, <1>3, <1>4, <1>5, <1>6

\* The trim takes no more than the silence at the end.
LEMMA TrimIsSound ==
  ASSUME NEW b, Sound(b), NEW i \in 1 .. Len(b.chunks), b.chunks[i]
  PROVE  i <= AudioLength(b)
<1>1. Len(b.chunks) \in Nat /\ b.silence \in Nat
  BY LenProperties DEF Sound, Buffer
<1>2. i + b.silence <= Len(b.chunks)
  BY DEF Sound
<1>3. QED
  BY <1>1, <1>2, BufferAssumption DEF AudioLength

-----------------------------------------------------------------------------
(* All buffers.                                                            *)

Types ==
  /\ buffers \in [Users -> Buffer \cup {NULL}]
  /\ lastAudio \in [Users -> {"none", "fresh", "stalled", "idle"}]
  /\ at \in {"idle", "gated", "decoded", "pushing"}
  /\ speaker \in (IF at = "idle" THEN {NULL} ELSE Users)
  /\ muted \in BOOLEAN /\ muting \in BOOLEAN /\ closed \in BOOLEAN

BuffersAreSound == \A u \in Users : buffers[u] # NULL => Sound(buffers[u])

\* A frame is pushed into a buffer nobody takes away meanwhile.
PushHasBuffer == at = "pushing" => buffers[speaker] # NULL

\* How much of what was said a buffer may hold while the sink is muted: a
\* frame in flight has not been pushed yet.
MutedWindows == IF at = "idle" THEN 1 ELSE 0

MutedIsEmpty ==
  /\ muting => muted
  /\ muted /\ ~muting =>
       \A u \in Users : buffers[u] # NULL => Windows(buffers[u]) <= MutedWindows

IInv == Types /\ BuffersAreSound /\ PushHasBuffer /\ BuffersAreTimed /\ MutedIsEmpty

LEMMA IInvInit == Init => IInv
<1> SUFFICES ASSUME Init
             PROVE  IInv
  OBVIOUS
<1> USE DEF Init
<1>1. Types
  BY DEF Types
<1>2. BuffersAreSound /\ PushHasBuffer /\ BuffersAreTimed /\ MutedIsEmpty
  BY DEF BuffersAreSound, PushHasBuffer, BuffersAreTimed, MutedIsEmpty
<1>3. QED
  BY <1>1, <1>2 DEF IInv

\* What every step but Push does to a buffer: it leaves, empties or drops it.
Emptied(u) == buffers'[u] \in {buffers[u], Empty, NULL}

\* Such a step keeps the buffers sound.
LEMMA EmptiedIsSound ==
  ASSUME IInv, buffers' \in [Users -> Buffer \cup {NULL}], \A u \in Users : Emptied(u)
  PROVE  BuffersAreSound'
<1> SUFFICES ASSUME NEW u \in Users, buffers'[u] # NULL
             PROVE  Sound(buffers'[u])
  BY DEF BuffersAreSound
<1>1. CASE buffers'[u] = buffers[u]
  BY <1>1 DEF IInv, BuffersAreSound
<1>2. CASE buffers'[u] = Empty
  BY <1>2, EmptyIsSound
<1>3. QED
  BY <1>1, <1>2 DEF Emptied

\* A step of the reader that pushes nothing keeps what /mute promises.
LEMMA EmptiedWhileMuted ==
  ASSUME IInv, \A u \in Users : Emptied(u),
         UNCHANGED mute,
         muted => (at # "idle" \/ at' = "idle")
  PROVE  MutedIsEmpty'
<1>1. (muting => muted)'
  BY DEF IInv, MutedIsEmpty, mute
<1>2. SUFFICES ASSUME muted, ~muting, NEW u \in Users, buffers'[u] # NULL
               PROVE  Windows(buffers'[u]) <= MutedWindows'
  BY <1>1 DEF MutedIsEmpty, mute
<1>3. MutedWindows \in Nat /\ MutedWindows' \in Nat /\ MutedWindows <= MutedWindows'
  BY <1>2 DEF MutedWindows
<1>4. CASE buffers'[u] = Empty
  BY <1>3, <1>4, EmptyIsSound
<1>5. CASE buffers'[u] = buffers[u]
  <2>1. buffers[u] # NULL
    BY <1>2, <1>5
  <2>2. Windows(buffers[u]) <= MutedWindows /\ buffers[u] \in Buffer
    BY <1>2, <2>1 DEF IInv, MutedIsEmpty, Types
  <2>3. Windows(buffers[u]) \in Nat
    BY <2>2, WindowsTyped
  <2>4. QED
    BY <1>3, <1>5, <2>2, <2>3
<1>6. QED
  BY <1>2, <1>4, <1>5 DEF Emptied

LEMMA LockStep ==
  ASSUME IInv, Lock
  PROVE  IInv'
<1> USE DEF IInv, Lock
<1>1. Empty \in Buffer /\ speaker \in Users /\ Empty # NULL
  BY EmptyIsSound, SinkAssumption DEF Sound, Types
<1>2. Types'
  BY <1>1 DEF Types, Reclaim, KeptFor, Kept, mute
<1>3. \A u \in Users : Emptied(u)
  BY DEF Emptied, KeptFor, Kept
<1>4. BuffersAreSound'
  BY <1>2, <1>3, EmptiedIsSound DEF Types
<1>5. PushHasBuffer'
  BY <1>1 DEF PushHasBuffer, KeptFor, Kept, Reclaimable
<1>6. BuffersAreTimed'
  BY DEF BuffersAreTimed, Reclaim, KeptFor, Kept
<1>7. MutedIsEmpty'
  BY <1>3, EmptiedWhileMuted
<1>8. QED
  BY <1>2, <1>4, <1>5, <1>6, <1>7

LEMMA PushFailsStep ==
  ASSUME IInv, PushFails
  PROVE  IInv'
<1> USE DEF IInv, PushFails, Return
<1>1. Empty \in Buffer /\ speaker \in Users
  BY EmptyIsSound DEF Sound, Types
<1>2. Types'
  BY <1>1 DEF Types, Reclaim, KeptFor, Kept, mute
<1>3. \A u \in Users : Emptied(u)
  BY DEF Emptied, KeptFor, Kept
<1>4. BuffersAreSound'
  BY <1>2, <1>3, EmptiedIsSound DEF Types
<1>5. PushHasBuffer'
  BY DEF PushHasBuffer
<1>6. BuffersAreTimed'
  BY DEF BuffersAreTimed, Reclaim, KeptFor, Kept
<1>7. MutedIsEmpty'
  BY <1>3, EmptiedWhileMuted
<1>8. QED
  BY <1>2, <1>4, <1>5, <1>6, <1>7

LEMMA PushStep ==
  ASSUME IInv, NEW w \in BOOLEAN, Push(w)
  PROVE  IInv'
<1> USE DEF IInv, Push, Return
<1> DEFINE b == buffers[speaker]
           c == Advanced(b, w)
<1>1. speaker \in Users /\ b # NULL /\ Sound(b)
  BY DEF Types, PushHasBuffer, BuffersAreSound
<1>2. Sound(c) /\ Windows(c) <= Windows(b) + 1 /\ c \in Buffer /\ b \in Buffer
  BY <1>1, AdvancedIsSound DEF Sound
<1>3. buffers' = [buffers EXCEPT ![speaker] = c]
  OBVIOUS
<1> HIDE DEF c
<1>4. Types'
  BY <1>1, <1>2, <1>3 DEF Types, mute
<1>5. BuffersAreSound'
  BY <1>1, <1>2, <1>3 DEF BuffersAreSound, Types
<1>6. PushHasBuffer' /\ BuffersAreTimed'
  BY <1>1, <1>3 DEF PushHasBuffer, BuffersAreTimed, Types
<1>7. MutedIsEmpty'
  <2>1. (muting => muted)'
    BY DEF MutedIsEmpty, mute
  <2>2. SUFFICES ASSUME muted, ~muting, NEW u \in Users, buffers'[u] # NULL
                 PROVE  Windows(buffers'[u]) <= 1
    BY <2>1 DEF MutedIsEmpty, MutedWindows, mute
  <2>3. ASSUME NEW v \in Users, buffers[v] # NULL
        PROVE  Windows(buffers[v]) <= 0 /\ Windows(buffers[v]) \in Nat
    BY <2>2, <2>3, WindowsTyped DEF MutedIsEmpty, MutedWindows, Types
  <2>4. Windows(c) \in Nat
    BY <1>2, WindowsTyped
  <2>5. CASE u = speaker
    <3>1. Windows(b) <= 0 /\ Windows(b) \in Nat
      BY <1>1, <2>3
    <3>2. buffers'[u] = c
      BY <1>1, <1>3, <2>5 DEF Types
    <3>3. QED
      BY <1>2, <2>4, <3>1, <3>2
  <2>6. CASE u # speaker
    <3>1. buffers'[u] = buffers[u]
      BY <1>3, <2>6 DEF Types
    <3>2. QED
      BY <2>2, <2>3, <3>1
  <2>7. QED
    BY <2>5, <2>6
<1>8. QED
  BY <1>4, <1>5, <1>6, <1>7

LEMMA DisconnectStep ==
  ASSUME IInv, NEW d \in Users, Disconnect(d)
  PROVE  IInv'
<1> USE DEF IInv, Disconnect
<1>1. Types'
  BY DEF Types, reader, mute
<1>2. \A u \in Users : Emptied(u)
  BY DEF Emptied, Types
<1>3. BuffersAreSound'
  BY <1>1, <1>2, EmptiedIsSound DEF Types
<1>4. PushHasBuffer'
  BY DEF PushHasBuffer, LockFree, reader
<1>5. BuffersAreTimed'
  BY DEF BuffersAreTimed, Types
<1>6. MutedIsEmpty'
  BY <1>2, EmptiedWhileMuted DEF reader
<1>7. QED
  BY <1>1, <1>3, <1>4, <1>5, <1>6

LEMMA SweepStep ==
  ASSUME IInv, Sweep
  PROVE  IInv'
<1> USE DEF IInv, Sweep
<1>1. Types'
  BY EmptyIsSound DEF Types, Sound, reader, mute
<1>2. \A u \in Users : Emptied(u)
  BY DEF Emptied
<1>3. BuffersAreSound'
  BY <1>1, <1>2, EmptiedIsSound DEF Types
<1>4. PushHasBuffer'
  BY DEF PushHasBuffer, LockFree, reader
<1>5. BuffersAreTimed'
  BY DEF BuffersAreTimed, Sweepable, Speaking
<1>6. MutedIsEmpty'
  BY <1>2, EmptiedWhileMuted DEF reader
<1>7. QED
  BY <1>1, <1>3, <1>4, <1>5, <1>6

LEMMA MuteResetsStep ==
  ASSUME IInv, MuteResets
  PROVE  IInv'
<1> USE DEF IInv, MuteResets, Reset
<1>1. Types'
  BY EmptyIsSound DEF Types, Sound, reader
<1>2. \A u \in Users : Emptied(u) /\ buffers'[u] \in {Empty, NULL}
  BY DEF Emptied
<1>3. BuffersAreSound'
  BY <1>1, <1>2, EmptiedIsSound DEF Types
<1>4. PushHasBuffer'
  BY DEF PushHasBuffer, LockFree, reader
<1>5. BuffersAreTimed'
  BY DEF BuffersAreTimed
<1>6. MutedIsEmpty'
  BY <1>2, EmptyIsSound DEF MutedIsEmpty, MutedWindows
<1>7. QED
  BY <1>1, <1>3, <1>4, <1>5, <1>6

LEMMA CleanupStep ==
  ASSUME IInv, Cleanup
  PROVE  IInv'
<1> USE DEF IInv, Cleanup
<1>1. Types'
  BY DEF Types, reader, mute
<1>2. \A u \in Users : Emptied(u)
  BY DEF Emptied
<1>3. BuffersAreSound' /\ BuffersAreTimed'
  BY DEF BuffersAreSound, BuffersAreTimed
<1>4. PushHasBuffer'
  BY DEF PushHasBuffer, LockFree, reader
<1>5. MutedIsEmpty'
  BY <1>2, EmptiedWhileMuted DEF reader
<1>6. QED
  BY <1>1, <1>3, <1>4, <1>5

\* The steps that leave every buffer as it is.
LEMMA QuietStep ==
  ASSUME IInv,
         \/ \E u \in Users : Write(u) \/ Stall(u) \/ Idle(u)
         \/ Decode \/ Drop \/ PushNothing \/ Mute \/ Unmute
         \/ UNCHANGED vars
  PROVE  IInv'
<1> USE DEF IInv
<1>1. buffers' = buffers
  BY DEF Write, Stall, Idle, Decode, Drop, PushNothing, Mute, Unmute, vars
<1>2. Types'
  BY DEF Types, Write, Stall, Idle, Decode, Drop, PushNothing, Mute, Unmute, vars,
         Return, reader, mute
<1>3. BuffersAreSound'
  BY <1>1 DEF BuffersAreSound
<1>4. PushHasBuffer'
  BY <1>1 DEF PushHasBuffer, Write, Stall, Idle, Decode, Drop, PushNothing, Mute, Unmute,
         vars, Return, reader
<1>5. \A u \in Users : lastAudio[u] # "none" => lastAudio'[u] # "none"
  BY DEF Types, Write, Stall, Idle, Decode, Drop, PushNothing, Mute, Unmute, vars
<1>6. BuffersAreTimed'
  BY <1>1, <1>5 DEF BuffersAreTimed
<1>7. MutedIsEmpty'
  <2>1. CASE Mute \/ Unmute
    BY <2>1 DEF Mute, Unmute, MutedIsEmpty
  <2>2. CASE \/ \E u \in Users : Write(u) \/ Stall(u) \/ Idle(u)
             \/ Decode \/ Drop \/ PushNothing
             \/ UNCHANGED vars
    <3>1. UNCHANGED mute /\ (muted => (at # "idle" \/ at' = "idle"))
      BY <2>2 DEF Write, Stall, Idle, Decode, Drop, PushNothing, vars, Return, reader, mute
    <3>2. QED
      BY <1>1, <3>1, EmptiedWhileMuted DEF Emptied
  <2>3. QED
    BY <2>1, <2>2
<1>8. QED
  BY <1>2, <1>3, <1>4, <1>6, <1>7

LEMMA IInvStep ==
  ASSUME IInv, [Next]_vars
  PROVE  IInv'
BY LockStep, PushFailsStep, PushStep, DisconnectStep, SweepStep, MuteResetsStep,
   CleanupStep, QuietStep DEF Next, PushWindow

LEMMA IInvHolds == Spec => []IInv
BY IInvInit, IInvStep, PTL DEF Spec

-----------------------------------------------------------------------------
(* Theorems.                                                               *)

LEMMA VerdictTyped == \A b : Verdict(b) \in {"utterance", "discarded"}
BY DEF Verdict

LEMMA EventsTyped ==
  ASSUME IInv, events \subseteq Event, [Next]_vars
  PROVE  events' \subseteq Event
<1>1. CASE \E w \in BOOLEAN : Push(w)
  <2>1. PICK w \in BOOLEAN : Push(w)
    BY <1>1
  <2>2. speaker \in Users
    BY <2>1 DEF Push, IInv, Types
  <2>3. WindowEvents(buffers[speaker], w) \subseteq {"start", "utterance", "discarded"}
    BY VerdictTyped DEF WindowEvents
  <2>4. QED
    BY <2>1, <2>2, <2>3 DEF Push, Event
<1>2. CASE Sweep \/ Cleanup \/ \E u \in Users : Disconnect(u)
  <2>1. \A users \in SUBSET Users : FlushEvents(users) \subseteq Event
    BY VerdictTyped DEF FlushEvents, Event
  <2>2. QED
    BY <1>2, <2>1 DEF Sweep, Cleanup, Disconnect
<1>3. CASE events' = {} \/ events' = events
  BY <1>3
<1>4. QED
  BY <1>1, <1>2, <1>3 DEF Next, PushWindow, Silent, vars, Write, Stall, Idle, Decode, Drop,
     Lock, PushFails, PushNothing, Mute, MuteResets, Unmute

\* Every reachable state is well typed.
THEOREM TypeCorrect == Spec => []TypeOK
<1>1. Init => events \subseteq Event
  BY DEF Init
<1>2. IInv /\ events \subseteq Event /\ [Next]_vars => (events \subseteq Event)'
  BY EventsTyped
<1>3. IInv /\ events \subseteq Event => TypeOK
  BY DEF IInv, Types, TypeOK
<1>4. QED
  BY <1>1, <1>2, <1>3, IInvHolds, PTL DEF Spec

\* In every buffer the counters say what the audio is, so that the floor, the
\* endpoint and the trim are about the audio there is.
THEOREM CountersCorrect == Spec => []CountersMatchAudio
<1>1. IInv => CountersMatchAudio
  BY DEF IInv, BuffersAreSound, Sound, CountersMatchAudio
<1>2. QED
  BY <1>1, IInvHolds, PTL

\* No window that was scored as speech is cut off the end of a turn, whatever
\* the endpoint and the tail are.
THEOREM SpeechIsKept == Spec => []TrimSparesSpeech
<1>1. IInv => TrimSparesSpeech
  BY TrimIsSound DEF IInv, BuffersAreSound, TrimSparesSpeech, Speaking
<1>2. QED
  BY <1>1, IInvHolds, PTL

\* A buffer never reaches max_utterance_ms, its pre-roll never preroll_ms.
THEOREM AudioBounded == Spec => []AudioIsBounded
<1>1. IInv => AudioIsBounded
  BY DEF IInv, BuffersAreSound, Sound, AudioIsBounded
<1>2. QED
  BY <1>1, IInvHolds, PTL

\* Whoever has a buffer has the time of a frame, so neither the watchdog nor
\* the reclamation overlooks it.
THEOREM BuffersTimed == Spec => []BuffersAreTimed
<1>1. IInv => BuffersAreTimed
  BY DEF IInv
<1>2. QED
  BY <1>1, IInvHolds, PTL

\* /mute leaves at most the window of one frame in flight, for any number of
\* speakers and of mutes.
THEOREM MuteIsHonest == Spec => []MuteForgets
<1>1. ASSUME IInv, muted, ~muting, NEW u \in Users, buffers[u] # NULL
      PROVE  Windows(buffers[u]) <= 1
  <2>1. Windows(buffers[u]) <= MutedWindows
    BY <1>1 DEF IInv, MutedIsEmpty
  <2>2. Windows(buffers[u]) \in Nat
    BY <1>1, WindowsTyped DEF IInv, Types
  <2>3. QED
    BY <2>1, <2>2 DEF MutedWindows
<1>2. IInv => MuteForgets
  BY <1>1 DEF MuteForgets, Windows
<1>3. QED
  BY <1>2, IInvHolds, PTL

\* No step makes a turn disappear: it is reported, or /mute forgets it, or it
\* is too short when the sink is closed.
THEOREM TurnsAreReported == Spec => EveryTurnIsReported
<1> DEFINE Ends(u) == Speaking(u) /\ ~Speaking(u)'
           Accounted(u) == \/ Reported(u)
                           \/ muting /\ ~muting'
                           \/ closed' /\ ~closed /\ Verdict(buffers[u]) = "discarded"
<1>1. ASSUME IInv, [Next]_vars, NEW u \in Users, Ends(u)
      PROVE  Accounted(u)
  <2>1. buffers'[u] # buffers[u]
    BY <1>1 DEF Speaking
  <2>2. <<Verdict(buffers[u]), u>> \in events' => Reported(u)
    BY VerdictTyped DEF Reported
  <2>3. ASSUME NEW users \in SUBSET Users, u \in users
        PROVE  <<Verdict(buffers[u]), u>> \in FlushEvents(users)
    BY <1>1, <2>3 DEF FlushEvents
  <2>4. CASE Lock \/ PushFails
    BY <1>1, <2>1, <2>4 DEF Lock, PushFails, KeptFor, Kept, Reclaimable, Speaking
  <2>5. ASSUME NEW w \in BOOLEAN, Push(w)
        PROVE  Reported(u)
    <3> DEFINE b == buffers[speaker]
    <3>1. u = speaker
      BY <2>1, <2>5 DEF Push, IInv, Types
    <3>2. b # NULL /\ b.speaking /\ buffers'[u] = Advanced(b, w)
      BY <1>1, <2>5, <3>1 DEF Push, Speaking, IInv, Types
    <3>3. Sound(Advanced(b, w))
      BY <1>1, <3>1, <3>2, <2>5, AdvancedIsSound DEF IInv, BuffersAreSound
    <3>4. ~Advanced(b, w).speaking
      BY <1>1, <3>2, <3>3, SinkAssumption DEF Speaking, Sound
    <3>5. Over(Grown(b, w))
      BY <3>2, <3>4 DEF Advanced, Grown
    <3>6. <<Verdict(Grown(b, w)), u>> \in events'
      BY <2>5, <3>1, <3>2, <3>5 DEF Push, WindowEvents
    <3>7. QED
      BY <3>6, VerdictTyped DEF Reported
  <2>6. ASSUME NEW d \in Users, Disconnect(d)
        PROVE  Reported(u)
    <3>1. u = d
      BY <2>1, <2>6 DEF Disconnect, IInv, Types
    <3>2. QED
      BY <2>2, <2>3, <2>6, <3>1 DEF Disconnect
  <2>7. CASE Sweep
    <3>1. Sweepable(u)
      BY <2>1, <2>7 DEF Sweep
    <3>2. QED
      BY <2>2, <2>3, <2>7, <3>1 DEF Sweep
  <2>8. CASE MuteResets
    BY <2>8 DEF MuteResets
  <2>9. CASE Cleanup
    <3>1. <<Verdict(buffers[u]), u>> \in FlushEvents(Users)
      BY <2>3
    <3>2. CASE Verdict(buffers[u]) = "utterance"
      BY <2>2, <2>9, <3>1, <3>2 DEF Cleanup
    <3>3. CASE Verdict(buffers[u]) = "discarded"
      BY <2>9, <3>3 DEF Cleanup
    <3>4. QED
      BY <3>2, <3>3, VerdictTyped
  <2>10. CASE buffers' = buffers
    BY <2>1, <2>10
  <2>11. QED
    BY <1>1, <2>4, <2>5, <2>6, <2>7, <2>8, <2>9, <2>10 DEF Next, PushWindow, vars, Write,
       Stall, Idle, Decode, Drop, PushNothing, Mute, Unmute
<1>2. IInv /\ [Next]_vars => [\A u \in Users : Ends(u) => Accounted(u)]_vars
  BY <1>1
<1>3. QED
  BY <1>2, IInvHolds, PTL DEF Spec, EveryTurnIsReported
=============================================================================
