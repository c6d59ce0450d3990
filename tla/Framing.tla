------------------------------ MODULE Framing ------------------------------
(***************************************************************************)
(* The byte framing of the Studio port: frame and class Deframer of        *)
(* tools/read_diag_dump.py.  A payload travels as SOF, its bytes with an   *)
(* ESC before each byte that is itself a marker, and EOF.  The sender      *)
(* emits one frame after the other, the channel may lose any byte, and the *)
(* receiver may start listening in the middle of a frame.                  *)
(*                                                                         *)
(* The chunks port.read returns do not matter: feed keeps its state        *)
(* between them, so one byte is one step.                                  *)
(***************************************************************************)
EXTENDS Integers, Sequences

CONSTANTS
    SOF, ESC, EOF, Plain,   \* the markers and the other byte values
    MAX_PAYLOAD,            \* 512 in feed
    MaxLen,                 \* bound: length of the payloads sent
    MaxLost                 \* bound: bytes lost

Markers == {SOF, ESC, EOF}
Byte == Markers \cup Plain

ASSUME FramingAssumption ==
    /\ SOF # ESC /\ SOF # EOF /\ ESC # EOF /\ Plain \cap Markers = {}
    /\ MaxLen \in Nat /\ MAX_PAYLOAD \in Nat /\ MaxLen <= MAX_PAYLOAD
    /\ MaxLost \in Nat

VARIABLES
    out, pos, esc_sent,          \* the frame being sent and the place in it
    active, escaped, payload,    \* Deframer
    yielded,                     \* history: payloads yielded during this frame
    whole, prev_whole,           \* history: no byte of this (the previous) frame was lost
    clean_start,                 \* history: no escape was pending when this frame began
    lost                         \* budget spent

sender   == <<out, pos, esc_sent>>
deframer == <<active, escaped, payload, yielded>>
history  == <<whole, prev_whole, clean_start>>
vars == <<sender, deframer, history, lost>>

Payloads == UNION {[1 .. n -> Byte] : n \in 0 .. MaxLen}

TypeOK ==
    /\ out \in Payloads /\ pos \in 0 .. MaxLen + 1 /\ esc_sent \in BOOLEAN
    /\ active \in BOOLEAN /\ escaped \in BOOLEAN
    /\ Len(payload) <= MAX_PAYLOAD
    /\ whole \in BOOLEAN /\ prev_whole \in BOOLEAN /\ clean_start \in BOOLEAN
    /\ lost \in 0 .. MaxLost

\* The receiver joins at any place of a frame.
Init ==
    /\ out \in Payloads /\ pos \in 0 .. Len(out) + 1
    /\ esc_sent \in BOOLEAN /\ (esc_sent => pos \in 1 .. Len(out) /\ out[pos] \in Markers)
    /\ active = FALSE /\ escaped = FALSE /\ payload = <<>> /\ yielded = <<>>
    /\ whole = FALSE /\ prev_whole = FALSE /\ clean_start = TRUE
    /\ lost = 0

-----------------------------------------------------------------------------
(* frame                                                                   *)

NeedsEscape(b) == b \in Markers

\* The byte at this place of the frame.
CurrentByte ==
    IF pos = 0 THEN SOF
    ELSE IF pos > Len(out) THEN EOF
    ELSE IF NeedsEscape(out[pos]) /\ ~esc_sent THEN ESC
    ELSE out[pos]

AtEscape == pos \in 1 .. Len(out) /\ NeedsEscape(out[pos]) /\ ~esc_sent

\* The sender moves past the current byte; after EOF it is back before an SOF.
AdvanceSender ==
    /\ esc_sent' = AtEscape
    /\ pos' = IF AtEscape THEN pos ELSE IF pos > Len(out) THEN 0 ELSE pos + 1
    /\ IF pos = 0 THEN out' \in Payloads ELSE UNCHANGED out

-----------------------------------------------------------------------------
(* Deframer.feed, one byte.                                                *)

TooLong(p) == Len(p) > MAX_PAYLOAD

\* The byte goes into the payload; a payload over the limit resets everything.
AppendByte(b) ==
    /\ escaped' = FALSE
    /\ IF TooLong(Append(payload, b))
       THEN active' = FALSE /\ payload' = <<>>
       ELSE active' = TRUE /\ payload' = Append(payload, b)

\* Mutant: a start marker inside a frame keeps the bytes of the broken one.
RestartKeepsBytes == UNCHANGED payload
Restart == payload' = <<>>

Feed(b) ==
    \/ /\ ~active /\ b = SOF
       /\ active' = TRUE /\ payload' = <<>> /\ UNCHANGED escaped
    \/ /\ ~active /\ b # SOF
       /\ UNCHANGED <<active, escaped, payload>>
    \/ /\ active /\ (escaped \/ b \notin Markers)
       /\ AppendByte(b)
    \/ /\ active /\ ~escaped /\ b = ESC
       /\ escaped' = TRUE /\ UNCHANGED <<active, payload>>
    \/ /\ active /\ ~escaped /\ b = SOF
       /\ Restart /\ UNCHANGED <<active, escaped>>
    \/ /\ active /\ ~escaped /\ b = EOF
       /\ active' = FALSE /\ payload' = <<>> /\ UNCHANGED escaped

Yields(b) == active /\ ~escaped /\ b = EOF

-----------------------------------------------------------------------------
\* A frame begins: what is known of the one before becomes prev_whole.
NoteStart(delivered) ==
    IF pos = 0
    THEN whole' = delivered /\ prev_whole' = whole /\ clean_start' = ~escaped
    ELSE whole' = (whole /\ delivered) /\ UNCHANGED <<prev_whole, clean_start>>

Delivered ==
    /\ AdvanceSender /\ Feed(CurrentByte) /\ NoteStart(TRUE)
    /\ yielded' = (IF pos = 0 THEN <<>> ELSE yielded)
                    \o (IF Yields(CurrentByte) THEN <<payload>> ELSE <<>>)
    /\ UNCHANGED lost

Lost ==
    /\ lost < MaxLost /\ lost' = lost + 1
    /\ AdvanceSender /\ NoteStart(FALSE)
    /\ yielded' = IF pos = 0 THEN <<>> ELSE yielded
    /\ UNCHANGED <<active, escaped, payload>>

Next == Delivered \/ Lost
Spec == Init /\ [][Next]_vars

-----------------------------------------------------------------------------
\* A frame that arrives without loss is yielded, exactly once and as it was
\* sent, if the frame before it arrived without loss too, or if no escape was
\* pending when it began.  So a lost byte costs Deframer.feed at most the frame
\* it is lost from and the one after it, whatever the bytes are and wherever
\* the over-long limit strikes.
Resynchronises ==
    pos = 0 /\ whole /\ (prev_whole \/ clean_start) => yielded = <<out>>

=============================================================================
