--------------------------- MODULE FramingProofs ---------------------------
(***************************************************************************)
(* Proofs about Framing for every alphabet, every limit, and any number of *)
(* lost bytes: Deframer.feed finds its way back into the byte stream.      *)
(***************************************************************************)
EXTENDS Framing, SequenceTheorems, TLAPS

-----------------------------------------------------------------------------
(* The sender.                                                             *)

SenderInv ==
    /\ out \in Payloads /\ pos \in 0 .. Len(out) + 1 /\ esc_sent \in BOOLEAN
    /\ esc_sent => pos \in 1 .. Len(out) /\ out[pos] \in Markers

\* A payload is a sequence of bytes that fits.
LEMMA PayloadSeq ==
    ASSUME NEW p \in Payloads
    PROVE  p \in Seq(Byte) /\ Len(p) \in 0 .. MaxLen
<1>1. PICK n \in 0 .. MaxLen : p \in [1 .. n -> Byte]
  BY DEF Payloads
<1>2. n \in Nat
  BY FramingAssumption
<1>. QED  BY <1>1, <1>2

\* The four kinds of places in a frame, what is sent there and where it leads.
AtStart  == pos = 0
AtByte   == pos \in 1 .. Len(out) /\ ~AtEscape
AtEnd    == pos = Len(out) + 1

LEMMA Places == ASSUME SenderInv PROVE AtStart \/ AtEscape \/ AtByte \/ AtEnd
<1>1. Len(out) \in Nat
  BY PayloadSeq DEF SenderInv
<1>. QED  BY <1>1 DEF SenderInv, AtStart, AtByte, AtEnd

LEMMA StartByte ==
    ASSUME SenderInv, AtStart, AdvanceSender
    PROVE  CurrentByte = SOF /\ pos' = 1 /\ ~esc_sent' /\ out' \in Payloads
<1>1. ~AtEscape /\ pos = 0 /\ Len(out) \in Nat
  BY PayloadSeq DEF SenderInv, AtStart, AtEscape
<1>2. ~esc_sent'
  BY <1>1 DEF AdvanceSender
<1>. QED  BY <1>1, <1>2 DEF CurrentByte, AdvanceSender

LEMMA EscapeByte ==
    ASSUME SenderInv, AtEscape, AdvanceSender
    PROVE  /\ CurrentByte = ESC /\ pos' = pos /\ pos >= 1 /\ esc_sent' /\ ~esc_sent
           /\ out' = out
<1>1. Len(out) \in Nat /\ pos \in 1 .. Len(out) /\ out[pos] \in Markers /\ ~esc_sent
  BY PayloadSeq DEF SenderInv, AtEscape, NeedsEscape
<1>2. esc_sent' /\ pos' = pos
  BY DEF AdvanceSender
<1>3. out' = out /\ pos >= 1
  BY <1>1 DEF AdvanceSender
<1>4. CurrentByte = ESC
  BY <1>1 DEF CurrentByte, NeedsEscape
<1>. QED  BY <1>1, <1>2, <1>3, <1>4

LEMMA DataByte ==
    ASSUME SenderInv, AtByte, AdvanceSender
    PROVE  /\ CurrentByte = out[pos] /\ pos' = pos + 1 /\ pos >= 1 /\ ~esc_sent'
           /\ out' = out /\ out[pos] \in Byte /\ (~esc_sent => out[pos] \notin Markers)
<1>1. Len(out) \in Nat /\ out \in Seq(Byte)
  BY PayloadSeq DEF SenderInv
<1>2. out[pos] \in Byte
  BY <1>1, ElementOfSeq DEF AtByte
<1>3. pos \in 1 .. Len(out) /\ ~AtEscape /\ (out[pos] \in Markers => esc_sent)
  BY DEF AtByte, AtEscape, NeedsEscape
<1>4. ~esc_sent'
  BY <1>3 DEF AdvanceSender
<1>5. pos' = pos + 1 /\ pos >= 1 /\ out' = out
  BY <1>1, <1>3 DEF AdvanceSender
<1>6. CurrentByte = out[pos]
  BY <1>1, <1>3 DEF CurrentByte, NeedsEscape
<1>. QED  BY <1>2, <1>3, <1>4, <1>5, <1>6

LEMMA EndByte ==
    ASSUME SenderInv, AtEnd, AdvanceSender
    PROVE  CurrentByte = EOF /\ pos' = 0 /\ pos >= 1 /\ ~esc_sent' /\ ~esc_sent /\ out' = out
<1>1. Len(out) \in Nat
  BY PayloadSeq DEF SenderInv
<1>2. ~AtEscape /\ ~esc_sent
  BY <1>1 DEF AtEnd, AtEscape, SenderInv
<1>3. ~esc_sent'
  BY <1>2 DEF AdvanceSender
<1>. QED  BY <1>1, <1>2, <1>3 DEF CurrentByte, AdvanceSender, AtEnd, SenderInv

LEMMA SenderStep == ASSUME SenderInv, AdvanceSender PROVE SenderInv'
<1>1. Len(out) \in Nat
  BY PayloadSeq DEF SenderInv
<1>0. esc_sent' \in BOOLEAN
  BY DEF AdvanceSender, AtEscape
<1>2. CASE AtStart
  <2>1. Len(out') \in Nat
    BY <1>2, StartByte, PayloadSeq
  <2>. QED  BY <1>0, <1>2, <2>1, StartByte DEF SenderInv
<1>3. CASE AtEscape
  BY <1>0, <1>3, EscapeByte DEF SenderInv, AtEscape, NeedsEscape
<1>4. CASE AtByte
  BY <1>0, <1>1, <1>4, DataByte DEF SenderInv, AtByte
<1>5. CASE AtEnd
  BY <1>0, <1>1, <1>5, EndByte DEF SenderInv
<1>. QED  BY <1>2, <1>3, <1>4, <1>5, Places

-----------------------------------------------------------------------------
(* The inductive invariant.                                                *)

DeframerType ==
    /\ active \in BOOLEAN /\ escaped \in BOOLEAN
    /\ payload \in Seq(Byte) /\ Len(payload) <= MAX_PAYLOAD
    /\ whole \in BOOLEAN /\ prev_whole \in BOOLEAN /\ clean_start \in BOOLEAN
    /\ lost \in 0 .. MaxLost

\* Inside a frame without loss, the two sides agree about the pending escape,
\* even if the deframer took the frame's start for data of the one before.
EscapeInv ==
    /\ ~active => ~escaped
    /\ whole /\ pos = 0 => ~escaped
    /\ whole /\ pos >= 1 => (escaped => esc_sent) /\ (active /\ esc_sent => escaped)

\* So no escape is pending after such a frame.
StartInv == prev_whole => clean_start

\* From a clean start, the deframer has the bytes that were sent.
FollowInv ==
    /\ whole /\ clean_start /\ pos = 0 => yielded = <<out>>
    /\ whole /\ clean_start /\ pos >= 1 =>
          active /\ payload = SubSeq(out, 1, pos - 1) /\ yielded = <<>>

FrameInv == SenderInv /\ DeframerType /\ EscapeInv /\ StartInv /\ FollowInv

\* The markers are bytes, different ones.
LEMMA ByteFacts == /\ SOF \in Byte /\ ESC \in Byte /\ EOF \in Byte
                   /\ SOF # ESC /\ SOF # EOF /\ ESC # EOF
                   /\ SOF \in Markers /\ ESC \in Markers /\ EOF \in Markers
  BY FramingAssumption DEF Byte, Markers

LEMMA CurrentIsByte == ASSUME SenderInv PROVE CurrentByte \in Byte
<1>1. Len(out) \in Nat /\ out \in Seq(Byte)
  BY PayloadSeq DEF SenderInv
<1>2. pos \in 1 .. Len(out) => out[pos] \in Byte
  BY <1>1, ElementOfSeq
<1>. QED  BY <1>1, <1>2, ByteFacts DEF CurrentByte, SenderInv

LEMMA AppendByteType ==
    ASSUME DeframerType, NEW b \in Byte, AppendByte(b)
    PROVE  /\ active' \in BOOLEAN /\ escaped' = FALSE
           /\ payload' \in Seq(Byte) /\ Len(payload') <= MAX_PAYLOAD
<1>1. Append(payload, b) \in Seq(Byte) /\ Len(Append(payload, b)) \in Nat
  BY AppendProperties, LenProperties DEF DeframerType
<1>2. <<>> \in Seq(Byte) /\ Len(<<>>) = 0
  BY EmptySeq
<1>3. MAX_PAYLOAD \in Nat /\ 0 <= MAX_PAYLOAD
  BY FramingAssumption
<1>4. CASE TooLong(Append(payload, b))
  BY <1>2, <1>3, <1>4 DEF AppendByte
<1>5. CASE ~TooLong(Append(payload, b))
  <2>1. Len(Append(payload, b)) <= MAX_PAYLOAD
    BY <1>1, <1>3, <1>5 DEF TooLong
  <2>. QED  BY <1>1, <1>5, <2>1 DEF AppendByte
<1>. QED  BY <1>4, <1>5

\* feed keeps its types, and an escape is pending inside a frame only.
LEMMA FeedType ==
    ASSUME DeframerType, ~active => ~escaped, NEW b \in Byte, Feed(b)
    PROVE  /\ active' \in BOOLEAN /\ escaped' \in BOOLEAN /\ (~active' => ~escaped')
           /\ payload' \in Seq(Byte) /\ Len(payload') <= MAX_PAYLOAD
<1>1. <<>> \in Seq(Byte) /\ Len(<<>>) <= MAX_PAYLOAD
  BY EmptySeq, FramingAssumption
<1>2. CASE active /\ (escaped \/ b \notin Markers) /\ AppendByte(b)
  BY <1>2, AppendByteType
<1>3. CASE active' \in BOOLEAN /\ (~active' => ~escaped') /\ escaped' \in BOOLEAN
           /\ payload' \in {payload, <<>>}
  BY <1>1, <1>3 DEF DeframerType
<1>4. CASE \/ ~active /\ active' = TRUE /\ payload' = <<>> /\ UNCHANGED escaped
           \/ ~active /\ UNCHANGED <<active, escaped, payload>>
           \/ active /\ escaped' = TRUE /\ UNCHANGED <<active, payload>>
           \/ active /\ ~escaped /\ Restart /\ UNCHANGED <<active, escaped>>
           \/ active /\ ~escaped /\ active' = FALSE /\ payload' = <<>> /\ UNCHANGED escaped
  BY <1>3, <1>4 DEF Restart, DeframerType
<1>. QED  BY <1>2, <1>4 DEF Feed

LEMMA NoteStartType ==
    ASSUME DeframerType, NEW d \in BOOLEAN, NoteStart(d)
    PROVE  whole' \in BOOLEAN /\ prev_whole' \in BOOLEAN /\ clean_start' \in BOOLEAN
  BY DEF DeframerType, NoteStart

\* A lost byte: nothing is claimed of the rest of this frame, and the next one
\* starts as the deframer is.
LEMMA LostStep == ASSUME FrameInv, Lost PROVE FrameInv'
<1>1. SenderInv' /\ SenderInv
  BY SenderStep DEF FrameInv, Lost
<1>2. DeframerType'
  <2>1. lost' \in 0 .. MaxLost
    BY FramingAssumption DEF Lost, FrameInv, DeframerType
  <2>. QED  BY <2>1, NoteStartType DEF FrameInv, Lost, DeframerType
<1>3. whole' = FALSE
  BY DEF FrameInv, Lost, NoteStart, DeframerType
<1>4. EscapeInv' /\ FollowInv'
  BY <1>3 DEF FrameInv, Lost, EscapeInv, FollowInv
<1>5. StartInv'
  BY DEF FrameInv, Lost, NoteStart, StartInv, EscapeInv
<1>. QED  BY <1>1, <1>2, <1>4, <1>5 DEF FrameInv

\* A delivered byte, by the place it has in the frame.
LEMMA StartStep ==
    ASSUME FrameInv, Delivered, AtStart PROVE EscapeInv' /\ StartInv' /\ FollowInv'
<1>1. CurrentByte = SOF /\ pos' = 1 /\ ~esc_sent' /\ out' \in Payloads /\ pos = 0
  BY StartByte DEF FrameInv, Delivered, AtStart
<1>2. Feed(SOF) /\ whole' = TRUE /\ prev_whole' = whole /\ clean_start' = ~escaped
  BY <1>1 DEF Delivered, NoteStart
<1>3. StartInv'
  BY <1>1, <1>2 DEF FrameInv, EscapeInv, StartInv
<1>4. escaped' = FALSE
  BY <1>2, ByteFacts DEF Feed, AppendByte, FrameInv, EscapeInv, DeframerType
<1>5. (~active' => ~escaped') /\ EscapeInv'
  BY <1>1, <1>4 DEF EscapeInv
<1>6. ~escaped => active' /\ payload' = <<>>
  BY <1>2, ByteFacts DEF Feed, Restart, FrameInv, DeframerType
<1>7. yielded' = <<>>
  <2>1. ~Yields(SOF)
    BY ByteFacts DEF Yields
  <2>. QED  BY <1>1, <2>1 DEF Delivered
<1>8. SubSeq(out', 1, 0) = <<>>
  OBVIOUS
<1>9. FollowInv'
  <2>1. pos' # 0 /\ pos' - 1 = 0
    BY <1>1
  <2>. QED  BY <1>2, <1>6, <1>7, <1>8, <2>1 DEF FollowInv
<1>. QED  BY <1>3, <1>5, <1>9

\* Inside the frame the history is that of its first byte.
LEMMA Inside ==
    ASSUME FrameInv, Delivered, pos >= 1
    PROVE  UNCHANGED <<whole, prev_whole, clean_start>> /\ StartInv'
<1>0. pos # 0
  BY DEF FrameInv, SenderInv
<1>1. pos # 0 /\ NoteStart(TRUE)
  BY <1>0 DEF Delivered
<1>2. UNCHANGED <<whole, prev_whole, clean_start>>
  BY <1>1 DEF NoteStart, FrameInv, DeframerType
<1>. QED  BY <1>2 DEF FrameInv, StartInv

LEMMA EscapeStep ==
    ASSUME FrameInv, Delivered, AtEscape PROVE EscapeInv' /\ StartInv' /\ FollowInv'
<1>1. /\ CurrentByte = ESC /\ pos' = pos /\ pos >= 1 /\ esc_sent' /\ ~esc_sent
      /\ out' = out /\ pos # 0
  BY EscapeByte DEF FrameInv, Delivered, SenderInv
<1>2. UNCHANGED <<whole, prev_whole, clean_start>> /\ StartInv'
  BY <1>1, Inside
<1>3. Feed(ESC) /\ ESC \in Byte /\ (~active => ~escaped) /\ DeframerType
  BY <1>1, ByteFacts DEF Delivered, FrameInv, EscapeInv
<1>4. ~active' => ~escaped'
  BY <1>3, FeedType
<1>5. whole => ~escaped
  BY <1>1 DEF FrameInv, EscapeInv
<1>6. whole => active' = active /\ payload' = payload /\ (active => escaped')
  BY <1>3, <1>5, ByteFacts DEF Feed
<1>7. EscapeInv'
  BY <1>1, <1>2, <1>4, <1>6 DEF EscapeInv
<1>8. yielded' = yielded \o <<>>
  <2>1. ~Yields(ESC)
    BY ByteFacts DEF Yields
  <2>. QED  BY <1>1, <2>1 DEF Delivered
<1>9. FollowInv'
  BY <1>1, <1>2, <1>6, <1>8 DEF FrameInv, FollowInv
<1>. QED  BY <1>2, <1>7, <1>9

LEMMA ByteStep ==
    ASSUME FrameInv, Delivered, AtByte PROVE EscapeInv' /\ StartInv' /\ FollowInv'
<1>. DEFINE b == out[pos]
<1>1. /\ CurrentByte = b /\ pos' = pos + 1 /\ pos >= 1 /\ ~esc_sent'
      /\ out' = out /\ pos # 0 /\ b \in Byte /\ (~esc_sent => b \notin Markers)
      /\ pos \in 1 .. Len(out) /\ Len(out) \in 0 .. MaxLen /\ out \in Seq(Byte)
  BY DataByte, PayloadSeq DEF FrameInv, Delivered, SenderInv, AtByte
<1>2. UNCHANGED <<whole, prev_whole, clean_start>> /\ StartInv'
  BY <1>1, Inside
<1>3. Feed(b) /\ (~active => ~escaped) /\ DeframerType
  BY <1>1 DEF Delivered, FrameInv, EscapeInv
<1>. HIDE DEF b
<1>4. ~active' => ~escaped'
  BY <1>1, <1>3, FeedType
<1>5. whole => (escaped => esc_sent) /\ (active /\ esc_sent => escaped)
  BY <1>1 DEF FrameInv, EscapeInv
<1>6. whole /\ active => AppendByte(b) /\ (escaped \/ b \notin Markers)
  BY <1>1, <1>3, <1>5, ByteFacts DEF Feed
<1>7. whole => ~escaped'
  BY <1>3, <1>6 DEF Feed, AppendByte
<1>8. EscapeInv'
  BY <1>1, <1>2, <1>4, <1>7 DEF EscapeInv
<1>9. ASSUME whole, clean_start PROVE active' /\ payload' = SubSeq(out, 1, pos) /\ yielded' = <<>>
  <2>1. active /\ payload = SubSeq(out, 1, pos - 1) /\ yielded = <<>>
    BY <1>1, <1>9 DEF FrameInv, FollowInv
  <2>2. Append(payload, b) = SubSeq(out, 1, pos)
    <3>1. pos \in Int /\ 1 <= pos + 1 /\ \A i \in 1 .. pos : out[i] \in Byte
      BY <1>1, ElementOfSeq
    <3>. QED  BY <1>1, <2>1, <3>1 DEF b
  <2>3. Len(SubSeq(out, 1, pos)) = pos
    BY <1>1
  <2>4. ~TooLong(Append(payload, b))
    BY <1>1, <2>2, <2>3, FramingAssumption DEF TooLong
  <2>5. ~Yields(b)
    BY <2>1, <1>6, <1>9, ByteFacts DEF Yields
  <2>6. active' /\ payload' = SubSeq(out, 1, pos)
    BY <1>6, <1>9, <2>1, <2>2, <2>4 DEF AppendByte
  <2>7. yielded' = <<>> \o <<>>
    BY <1>1, <2>1, <2>5 DEF Delivered
  <2>. QED  BY <2>6, <2>7
<1>10. FollowInv'
  <2>1. pos' >= 1 /\ pos' # 0 /\ pos' - 1 = pos
    BY <1>1
  <2>. QED  BY <1>1, <1>2, <1>9, <2>1 DEF FollowInv
<1>. QED  BY <1>2, <1>8, <1>10

LEMMA EndStep ==
    ASSUME FrameInv, Delivered, AtEnd PROVE EscapeInv' /\ StartInv' /\ FollowInv'
<1>1. /\ CurrentByte = EOF /\ pos' = 0 /\ pos >= 1 /\ ~esc_sent' /\ ~esc_sent
      /\ out' = out /\ pos # 0 /\ pos - 1 = Len(out) /\ out \in Seq(Byte) /\ Len(out) \in Nat
  BY EndByte, PayloadSeq DEF FrameInv, Delivered, SenderInv, AtEnd
<1>2. UNCHANGED <<whole, prev_whole, clean_start>> /\ StartInv'
  BY <1>1, Inside
<1>3. Feed(EOF) /\ (~active => ~escaped) /\ DeframerType
  BY <1>1 DEF Delivered, FrameInv, EscapeInv
<1>4. ~active' => ~escaped'
  BY <1>3, ByteFacts, FeedType
<1>5. whole => ~escaped
  BY <1>1 DEF FrameInv, EscapeInv
<1>6. whole => ~escaped'
  BY <1>3, <1>5, ByteFacts DEF Feed
<1>7. EscapeInv'
  BY <1>1, <1>2, <1>4, <1>6 DEF EscapeInv
<1>8. ASSUME whole, clean_start PROVE yielded' = <<out>>
  <2>1. active /\ payload = SubSeq(out, 1, Len(out)) /\ yielded = <<>>
    BY <1>1, <1>8 DEF FrameInv, FollowInv
  <2>2. payload = out
    BY <2>1, <1>1, SubSeqFull
  <2>3. Yields(EOF)
    BY <2>1, <1>5, <1>8 DEF Yields
  <2>. QED  BY <1>1, <2>1, <2>2, <2>3 DEF Delivered
<1>9. FollowInv'
  BY <1>1, <1>2, <1>8 DEF FollowInv
<1>. QED  BY <1>2, <1>7, <1>9

LEMMA DeliveredStep == ASSUME FrameInv, Delivered PROVE FrameInv'
<1>1. SenderInv' /\ SenderInv
  BY SenderStep DEF FrameInv, Delivered
<1>2. DeframerType'
  <2>1. Feed(CurrentByte) /\ (~active => ~escaped) /\ DeframerType /\ CurrentByte \in Byte
    BY <1>1, CurrentIsByte DEF Delivered, FrameInv, EscapeInv
  <2>. QED  BY <2>1, FeedType, NoteStartType DEF Delivered, DeframerType
<1>3. EscapeInv' /\ StartInv' /\ FollowInv'
  BY <1>1, Places, StartStep, EscapeStep, ByteStep, EndStep
<1>. QED  BY <1>1, <1>2, <1>3 DEF FrameInv

LEMMA FrameStep == FrameInv /\ [Next]_vars => FrameInv'
<1>. SUFFICES ASSUME FrameInv, [Next]_vars PROVE FrameInv'
  OBVIOUS
<1>1. CASE UNCHANGED vars
  BY <1>1 DEF vars, sender, deframer, history, FrameInv, SenderInv, DeframerType, EscapeInv,
     StartInv, FollowInv
<1>. QED  BY <1>1, DeliveredStep, LostStep DEF Next

LEMMA FrameInit == Init => FrameInv
<1>. SUFFICES ASSUME Init PROVE FrameInv
  OBVIOUS
<1>1. <<>> \in Seq(Byte) /\ Len(<<>>) = 0
  BY EmptySeq
<1>2. SenderInv
  BY DEF Init, SenderInv
<1>3. MAX_PAYLOAD \in Nat /\ 0 \in 0 .. MaxLost
  BY FramingAssumption
<1>4. DeframerType
  <2>1. payload \in Seq(Byte) /\ Len(payload) <= MAX_PAYLOAD
    BY <1>1, <1>3 DEF Init
  <2>. QED  BY <2>1, <1>3 DEF Init, DeframerType
<1>5. EscapeInv /\ StartInv /\ FollowInv
  BY DEF Init, EscapeInv, StartInv, FollowInv
<1>. QED  BY <1>2, <1>4, <1>5 DEF FrameInv

-----------------------------------------------------------------------------
\* Whatever is lost, a frame that arrives whole after a whole one, or after a
\* clean start, is yielded once and unchanged: Deframer.feed never needs more
\* than one frame to recover, for all payloads up to the limit.
THEOREM DeframerResynchronises == Spec => []Resynchronises
<1>1. FrameInv => Resynchronises
  BY DEF FrameInv, StartInv, FollowInv, Resynchronises
<1>. QED  BY <1>1, FrameInit, FrameStep, PTL DEF Spec

\* The deframer's buffer never outgrows the limit of feed, however the bytes of
\* broken frames run together.
THEOREM DeframerBounded == Spec => []TypeOK
<1>1. FrameInv => TypeOK
  <2>. SUFFICES ASSUME FrameInv PROVE TypeOK
    OBVIOUS
  <2>1. Len(out) \in 0 .. MaxLen
    BY PayloadSeq DEF FrameInv, SenderInv
  <2>. QED  BY <2>1, FramingAssumption DEF FrameInv, SenderInv, DeframerType, TypeOK
<1>. QED  BY <1>1, FrameInit, FrameStep, PTL DEF Spec

=============================================================================
