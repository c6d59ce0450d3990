----------------------------- MODULE DumpProofs -----------------------------
(***************************************************************************)
(* Proofs about DumpProtocol, for every size of snapshot and buffer, any   *)
(* number of dumps and of lines lost, and any use of cable and endpoint: a *)
(* dump the reader accepts is whole.                                       *)
(*                                                                         *)
(* What the reader concludes rests on what may be on the wire: a begin     *)
(* line tells the size of its snapshot, no two snapshots have the same id, *)
(* and a snapshot is taken before any line of its dump can be read.        *)
(***************************************************************************)
EXTENDS DumpProtocol, SequenceTheorems, TLAPS

LineKinds == {"boot", "begin", "data", "end"}
Lines == [kind: LineKinds, id: 1 .. MaxDumps, n: 0 .. MaxLines, sum: 0 .. MaxLines]

\* The lines the keyboard may have sent so far.
Sent ==
    {l \in Lines :
        /\ l.id <= id
        /\ l.kind = "begin" => /\ l.sum = sizes[l.id]
                               /\ dump_pc \in {"boot", "begin"} => l.id < id
        /\ l.kind = "data" => l.n < MaxLines}

-----------------------------------------------------------------------------
(* The inductive invariant.                                                *)

DeviceType ==
    /\ dump_queued \in BOOLEAN /\ dump_pc \in {"idle", "boot", "begin", "data"}
    /\ id \in 0 .. MaxDumps /\ ordinal \in 0 .. MaxLines /\ snap \in Snapshots
    /\ sizes \in [1 .. MaxDumps -> 0 .. MaxLines]
    /\ dump_pc # "idle" => id >= 1

WireInv == wire \in Seq(Sent) /\ Len(wire) <= TX_CAP

ReaderType ==
    /\ request \in BOOLEAN
    /\ reader \in {"closed", "reading", "accepted", "rejected", "timeout", "gone"}
    /\ dump_id \in {None} \cup 1 .. MaxDumps
    /\ expected \in 0 .. MaxLines /\ next_line \in 0 .. MaxLines
    /\ error \in BOOLEAN /\ complete \in BOOLEAN /\ accepted \in Seq(Nat)

\* What the verifier knows as long as it has found no error.
Followed ==
    /\ expected = sizes[dump_id] /\ Len(accepted) = next_line
    /\ \A i \in 1 .. Len(accepted) : accepted[i] = i - 1
VerifierInv ==
    /\ dump_id # None => /\ dump_id <= id
                         /\ dump_pc \in {"boot", "begin"} => dump_id < id
    /\ dump_id # None /\ ~error => Followed
    /\ complete => reader = "accepted" /\ ~error /\ dump_id # None /\ next_line = expected

Inv == DeviceType /\ WireInv /\ ReaderType /\ VerifierInv /\ StudioTypeOK

\* No snapshot is larger than the bounds allow.
LEMMA SnapBound ==
    ASSUME NEW s \in Snapshots
    PROVE  SnapSize(s) \in 0 .. MaxLines /\ ExpectedLines(s) = SnapSize(s)
  <1>1. s.blocks \in 0 .. MaxBlocks /\ s.persisted \in 0 .. MaxEvents /\ s.ram \in 0 .. MaxEvents
    BY DEF Snapshots
  <1> QED
    BY <1>1, DumpAssumption DEF SnapSize, ExpectedLines, MaxLines

\* The bounds are numbers.
LEMMA Bounds ==
    MaxLines \in Nat /\ MaxDumps \in Nat /\ TX_CAP \in Nat /\ TX_CAP >= 1 /\ EmptySnap \in Snapshots
  BY DumpAssumption DEF MaxLines, EmptySnap, Snapshots

\* The verifier's state implies its verdict.
LEMMA InvMeansWhole == Inv => CompleteMeansWhole
  BY DEF Inv, VerifierInv, Followed, CompleteMeansWhole, ReaderType

\* The parts imply TypeOK.
LEMMA InvTyped == Inv => TypeOK
  BY DEF Inv, TypeOK, DeviceType, WireInv, ReaderType

\* The first state.
LEMMA InitInv == Init => Inv
  <1> SUFFICES ASSUME Init PROVE Inv
    OBVIOUS
  <1>1. DeviceType
    <2>1. sizes \in [1 .. MaxDumps -> 0 .. MaxLines]
      BY Bounds DEF Init
    <2>2. id \in 0 .. MaxDumps /\ ordinal \in 0 .. MaxLines /\ snap \in Snapshots
      BY Bounds DEF Init
    <2> QED
      BY <2>1, <2>2 DEF Init, DeviceType
  <1>2. WireInv
    BY Bounds DEF Init, WireInv
  <1>3. ReaderType
    <2>1. accepted \in Seq(Nat)
      BY DEF Init
    <2>2. expected \in 0 .. MaxLines /\ next_line \in 0 .. MaxLines
      BY Bounds DEF Init
    <2> QED
      BY <2>1, <2>2 DEF Init, ReaderType
  <1>4. VerifierInv
    BY DEF Init, VerifierInv
  <1>5. StudioTypeOK
    <2>1. powered \in BOOLEAN /\ selected \in {"USB", "BLE"} /\ usb_work \in BOOLEAN
      BY DEF Init, StudioInit
    <2>2. tries \in 0 .. STUDIO_TRIES
      BY StudioAssumption DEF Init, StudioInit
    <2>3. moves \in [cable: 0 .. MaxCable, switches: 0 .. MaxSwitches]
      BY StudioAssumption DEF Init, StudioInit
    <2> QED
      BY <2>1, <2>2, <2>3 DEF StudioTypeOK
  <1> QED
    BY <1>1, <1>2, <1>3, <1>4, <1>5 DEF Inv

-----------------------------------------------------------------------------
(* Lines come and go.                                                      *)

\* Taking lines off keeps the others.
LEMMA TailKeeps ==
    ASSUME WireInv, wire # <<>>
    PROVE  Tail(wire) \in Seq(Sent) /\ Len(Tail(wire)) <= TX_CAP /\ Head(wire) \in Sent
  BY Bounds DEF WireInv

\* So does losing one.
LEMMA RemoveKeeps ==
    ASSUME WireInv, NEW i \in 1 .. Len(wire)
    PROVE  RemoveAt(wire, i) \in Seq(Sent) /\ Len(RemoveAt(wire, i)) <= TX_CAP
  <1>0. wire \in Seq(Sent) /\ Len(wire) \in Nat /\ Len(wire) <= TX_CAP
    BY DEF WireInv
  <1>1. SubSeq(wire, 1, i - 1) \in Seq(Sent) /\ Len(SubSeq(wire, 1, i - 1)) = i - 1
    <2>1. \A j \in 1 .. i - 1 : wire[j] \in Sent
      BY <1>0
    <2> QED
      BY <2>1, SubSeqProperties
  <1>2. SubSeq(wire, i + 1, Len(wire)) \in Seq(Sent) /\ Len(SubSeq(wire, i + 1, Len(wire))) = Len(wire) - i
    <2>1. \A j \in i + 1 .. Len(wire) : wire[j] \in Sent
      BY <1>0
    <2>2. i + 1 \in Int /\ Len(wire) \in Int
      BY <1>0
    <2>3. SubSeq(wire, i + 1, Len(wire)) \in Seq(Sent)
          /\ Len(SubSeq(wire, i + 1, Len(wire))) = IF i + 1 <= Len(wire) THEN Len(wire) - (i + 1) + 1 ELSE 0
      BY <2>1, <2>2, SubSeqProperties
    <2> QED
      BY <2>3, <1>0
  <1>3. /\ RemoveAt(wire, i) \in Seq(Sent)
        /\ Len(RemoveAt(wire, i)) = Len(SubSeq(wire, 1, i - 1)) + Len(SubSeq(wire, i + 1, Len(wire)))
    BY <1>1, <1>2, ConcatProperties DEF RemoveAt
  <1>4. TX_CAP \in Nat /\ i \in Nat
    BY <1>0, Bounds
  <1>5. (i - 1) + (Len(wire) - i) <= TX_CAP
    BY <1>0, <1>4
  <1>6. Len(RemoveAt(wire, i)) = (i - 1) + (Len(wire) - i)
    BY <1>1, <1>2, <1>3, Zenon
  <1> QED
    BY <1>3, <1>5, <1>6, Zenon

\* A sequence over a set is one over a larger set.
LEMMA SeqGrows ==
    ASSUME NEW S, NEW T, S \subseteq T, NEW q \in Seq(S)
    PROVE  q \in Seq(T)
  <1>1. Len(q) \in Nat /\ DOMAIN q = 1 .. Len(q) /\ q \in [1 .. Len(q) -> S]
    OBVIOUS
  <1>2. q \in [1 .. Len(q) -> T]
    BY <1>1
  <1> QED
    BY <1>1, <1>2

\* A line that passes goes behind the others.
LEMMA SendKeeps ==
    ASSUME WireInv, Sent \subseteq Sent',
           NEW kind, NEW n, NEW sum, Send(kind, n, sum),
           [kind |-> kind, id |-> id, n |-> n, sum |-> sum] \in Sent'
    PROVE  WireInv'
  <1> DEFINE line == [kind |-> kind, id |-> id, n |-> n, sum |-> sum]
  <1>1. wire \in Seq(Sent')
    BY SeqGrows DEF WireInv
  <1>2. wire' = Append(wire, line) /\ Len(wire) < TX_CAP /\ line \in Sent'
    BY DEF Send
  <1> HIDE DEF line
  <1> QED
    BY <1>1, <1>2, Bounds DEF WireInv

\* The reader is not involved in what the keyboard does.
LEMMA ReaderFrame ==
    ASSUME ReaderType, UNCHANGED <<verifierVars, reader>>, request' \in BOOLEAN
    PROVE  ReaderType'
  BY DEF ReaderType, verifierVars

-----------------------------------------------------------------------------
(* The keyboard.                                                           *)

\* A dump starts with a new id.
LEMMA DumpStartKeeps ==
    ASSUME Inv, DumpStart
    PROVE  Inv'
  <1>1. DeviceType'
    <2>1. id' \in 0 .. MaxDumps /\ id' >= 1 /\ ordinal' \in 0 .. MaxLines
      BY Bounds DEF Inv, DumpStart, DeviceType
    <2> QED
      BY <2>1 DEF Inv, DumpStart, DeviceType
  <1>2. Sent \subseteq Sent'
    BY DEF Inv, DumpStart, DeviceType, Sent, Lines
  <1>3. WireInv'
    BY <1>2, SeqGrows DEF Inv, WireInv, DumpStart
  <1>4. ReaderType' /\ StudioTypeOK'
    BY ReaderFrame DEF Inv, DumpStart, StudioTypeOK, studioVars, ReaderType
  <1>5. VerifierInv'
    BY DEF Inv, DumpStart, DeviceType, ReaderType, VerifierInv, Followed, verifierVars, None
  <1> QED
    BY <1>1, <1>3, <1>4, <1>5 DEF Inv

\* The boot lines go out before the snapshot is taken.
LEMMA SendBootKeeps ==
    ASSUME Inv, SendBoot
    PROVE  Inv'
  <1>1. DeviceType'
    BY DEF Inv, SendBoot, DeviceType
  <1>2. Sent \subseteq Sent'
    BY DEF Inv, SendBoot, Sent, Lines
  <1>3. [kind |-> "boot", id |-> id, n |-> 0, sum |-> 0] \in Sent'
    BY Bounds DEF Inv, SendBoot, DeviceType, Sent, Lines, LineKinds
  <1>4. WireInv'
    BY <1>2, <1>3, SendKeeps DEF Inv, SendBoot
  <1>5. ReaderType' /\ StudioTypeOK'
    BY ReaderFrame DEF Inv, SendBoot, StudioTypeOK, studioVars, ReaderType
  <1>6. VerifierInv'
    BY DEF Inv, SendBoot, VerifierInv, Followed, verifierVars
  <1> QED
    BY <1>1, <1>4, <1>5, <1>6 DEF Inv

\* The snapshot is taken and announced: no line of it was read before.
LEMMA SendBeginKeeps ==
    ASSUME Inv, SendBegin
    PROVE  Inv'
  <1>1. PICK s \in Snapshots : /\ snap' = s
                               /\ sizes' = [sizes EXCEPT ![id] = SnapSize(s)]
                               /\ Send("begin", ExpectedLines(s), SnapSize(s))
    BY DEF SendBegin
  <1>2. SnapSize(s) \in 0 .. MaxLines /\ ExpectedLines(s) = SnapSize(s)
    BY SnapBound
  <1>3. dump_pc = "begin" /\ dump_pc' = "data" /\ id' = id /\ id \in 1 .. MaxDumps
    BY Bounds DEF Inv, SendBegin, DeviceType
  <1>4. sizes' \in [1 .. MaxDumps -> 0 .. MaxLines] /\ sizes'[id] = SnapSize(s)
        /\ \A d \in 1 .. MaxDumps : d < id => sizes'[d] = sizes[d]
    BY <1>1, <1>2, <1>3 DEF Inv, DeviceType
  <1>5. DeviceType'
    BY <1>1, <1>3, <1>4 DEF Inv, SendBegin, DeviceType
  <1>6. Sent \subseteq Sent'
    BY <1>3, <1>4 DEF Sent, Lines
  <1>7. [kind |-> "begin", id |-> id, n |-> ExpectedLines(s), sum |-> SnapSize(s)] \in Sent'
    BY <1>2, <1>3, <1>4 DEF Sent, Lines, LineKinds
  <1>8. WireInv'
    BY <1>1, <1>6, <1>7, SendKeeps DEF Inv
  <1>9. ReaderType' /\ StudioTypeOK'
    BY ReaderFrame DEF Inv, SendBegin, StudioTypeOK, studioVars, ReaderType
  <1>10. VerifierInv'
    <2>1. dump_id # None => dump_id \in 1 .. MaxDumps /\ dump_id < id
      BY <1>3 DEF Inv, VerifierInv, ReaderType
    <2>2. dump_id # None => sizes'[dump_id] = sizes[dump_id]
      BY <2>1, <1>4
    <2> QED
      BY <1>3, <2>1, <2>2 DEF Inv, SendBegin, VerifierInv, Followed, verifierVars
  <1> QED
    BY <1>5, <1>8, <1>9, <1>10 DEF Inv

\* A data line goes out.
LEMMA SendDataKeeps ==
    ASSUME Inv, SendData
    PROVE  Inv'
  <1>1. ordinal < SnapSize(snap) /\ SnapSize(snap) \in 0 .. MaxLines /\ ordinal \in 0 .. MaxLines
        /\ id \in 1 .. MaxDumps
    BY SnapBound, Bounds DEF Inv, SendData, DeviceType
  <1>2. DeviceType'
    BY <1>1, Bounds DEF Inv, SendData, DeviceType
  <1>3. Sent' = Sent
    BY DEF SendData, Sent
  <1>4. [kind |-> "data", id |-> id, n |-> ordinal, sum |-> 0] \in Sent'
    BY <1>1, <1>3, Bounds DEF Sent, Lines, LineKinds
  <1>5. WireInv'
    BY <1>3, <1>4, SendKeeps DEF Inv, SendData
  <1>6. ReaderType' /\ StudioTypeOK'
    BY ReaderFrame DEF Inv, SendData, StudioTypeOK, studioVars, ReaderType
  <1>7. VerifierInv'
    BY DEF Inv, SendData, VerifierInv, Followed, verifierVars
  <1> QED
    BY <1>2, <1>5, <1>6, <1>7 DEF Inv

\* A dump ends, or is given up.
LEMMA DumpOverKeeps ==
    ASSUME Inv, DumpEnd \/ DumpAbort
    PROVE  Inv'
  <1>1. /\ dump_pc' = "idle" /\ snap' = EmptySnap /\ dump_pc # "idle"
        /\ UNCHANGED <<dump_queued, id, ordinal, sizes, verifierVars, reader, request, studioVars>>
    BY DEF DumpEnd, DumpAbort
  <1>2. DeviceType'
    BY <1>1, Bounds DEF Inv, DeviceType
  <1>3. Sent \subseteq Sent'
    BY <1>1 DEF Sent
  <1>4. ordinal \in 0 .. MaxLines /\ id \in 1 .. MaxDumps
    BY <1>1, Bounds DEF Inv, DeviceType
  <1>5. [kind |-> "end", id |-> id, n |-> ordinal, sum |-> 0] \in Sent'
    BY <1>1, <1>4, Bounds DEF Sent, Lines, LineKinds
  <1>6. WireInv'
    <2>1. CASE UNCHANGED wire
      BY <2>1, <1>3, SeqGrows DEF Inv, WireInv
    <2>2. CASE Send("end", ordinal, 0)
      BY <2>2, <1>3, <1>5, SendKeeps DEF Inv
    <2> QED
      BY <2>1, <2>2 DEF DumpEnd, DumpAbort
  <1>7. ReaderType' /\ StudioTypeOK'
    BY <1>1, ReaderFrame DEF Inv, StudioTypeOK, studioVars, ReaderType
  <1>8. VerifierInv'
    BY <1>1 DEF Inv, VerifierInv, Followed, verifierVars
  <1> QED
    BY <1>2, <1>6, <1>7, <1>8 DEF Inv

-----------------------------------------------------------------------------
(* The computer and the cable.                                             *)

\* Steps that leave the keyboard's dump alone.
LEMMA DeviceFrame ==
    ASSUME Inv, UNCHANGED <<dump_pc, id, ordinal, snap, sizes>>, dump_queued' \in BOOLEAN
    PROVE  DeviceType' /\ Sent' = Sent
  <1>1. DeviceType'
    BY DEF Inv, DeviceType
  <1>2. Sent' = Sent
    BY DEF Sent
  <1> QED
    BY <1>1, <1>2

\* A begin line makes the verifier start over.
LEMMA FeedBeginKeeps ==
    ASSUME Inv, NEW line \in Sent, line.kind = "begin", FeedBegin(line),
           UNCHANGED <<dump_pc, id, sizes>>, reader' = IF complete' THEN "accepted" ELSE reader,
           request' = request
    PROVE  ReaderType' /\ VerifierInv'
  <1>1. /\ line.id \in 1 .. MaxDumps /\ line.n \in 0 .. MaxLines /\ line.sum = sizes[line.id]
        /\ line.id <= id /\ (dump_pc \in {"boot", "begin"} => line.id < id)
    BY DEF Sent, Lines
  <1>2. dump_id' = line.id /\ expected' = line.n /\ next_line' = 0 /\ error' = (line.n # line.sum)
        /\ complete' = FALSE /\ accepted' = <<>>
    BY DEF FeedBegin
  <1>3. accepted' \in Seq(Nat) /\ Len(accepted') = 0
    BY <1>2
  <1>4. error' \in BOOLEAN /\ complete' \in BOOLEAN /\ reader' = reader
    BY <1>2
  <1>5. ReaderType'
    <2>1. next_line' \in 0 .. MaxLines
      BY <1>2, Bounds
    <2> QED
      BY <1>1, <1>2, <1>3, <1>4, <2>1 DEF Inv, ReaderType
  <1>6. ~error' => Followed'
    <2>1. ~error' => expected' = sizes'[dump_id']
      BY <1>1, <1>2
    <2>2. Len(accepted') = next_line' /\ \A i \in 1 .. Len(accepted') : accepted'[i] = i - 1
      BY <1>2, <1>3
    <2> QED
      BY <2>1, <2>2 DEF Followed
  <1>7. VerifierInv'
    BY <1>1, <1>2, <1>6 DEF VerifierInv
  <1> QED
    BY <1>5, <1>7

\* A data line of its dump is the next one or an error.
LEMMA FeedDataKeeps ==
    ASSUME Inv, NEW line \in Sent, line.kind = "data", FeedData(line), dump_id # None,
           reader = "reading", UNCHANGED <<dump_pc, id, sizes, reader, request>>
    PROVE  ReaderType' /\ VerifierInv'
  <1>1. line.n \in 0 .. MaxLines - 1 /\ line.n \in Nat /\ line.n + 1 \in 0 .. MaxLines
    BY Bounds DEF Sent, Lines
  <1>2. /\ error' = (error \/ line.n # next_line) /\ next_line' = line.n + 1
        /\ accepted' = Append(accepted, line.n) /\ UNCHANGED <<dump_id, expected, complete>>
    BY DEF FeedData, OrdinalError
  <1>3. accepted \in Seq(Nat) /\ accepted' \in Seq(Nat) /\ Len(accepted') = Len(accepted) + 1
    BY <1>1, <1>2 DEF Inv, ReaderType
  <1>4. error' \in BOOLEAN
    BY <1>2
  <1>5. ReaderType'
    BY <1>1, <1>2, <1>3, <1>4 DEF Inv, ReaderType
  <1>6. ~error' => Followed'
    <2> SUFFICES ASSUME ~error' PROVE Followed'
      OBVIOUS
    <2>1. ~error /\ line.n = next_line
      BY <1>2 DEF Inv, ReaderType
    <2>2. Followed
      BY <2>1 DEF Inv, VerifierInv
    <2>3. Len(accepted') = next_line'
      BY <1>2, <1>3, <2>1, <2>2 DEF Followed
    <2>4. \A i \in 1 .. Len(accepted') : accepted'[i] = i - 1
      BY <1>1, <1>2, <1>3, <2>1, <2>2 DEF Followed
    <2> QED
      BY <1>2, <2>2, <2>3, <2>4 DEF Followed
  <1>7. ~complete
    BY DEF Inv, VerifierInv
  <1>8. VerifierInv'
    BY <1>2, <1>6, <1>7 DEF Inv, VerifierInv
  <1> QED
    BY <1>5, <1>8

\* An end line decides.
LEMMA FeedEndKeeps ==
    ASSUME Inv, FeedEnd(Head(wire)), dump_id # None, UNCHANGED <<dump_pc, id, sizes, request>>,
           reader' = IF complete' THEN "accepted" ELSE "rejected"
    PROVE  ReaderType' /\ VerifierInv'
  <1>1. /\ error' = (error \/ Head(wire).n # expected \/ next_line # expected)
        /\ complete' = ~error' /\ UNCHANGED <<dump_id, expected, next_line, accepted>>
    BY DEF FeedEnd
  <1>2. error' \in BOOLEAN /\ complete' \in BOOLEAN /\ reader' \in {"accepted", "rejected"}
    BY <1>1
  <1>3. ReaderType'
    BY <1>1, <1>2 DEF Inv, ReaderType
  <1>4. ~error' => ~error /\ next_line = expected
    BY <1>1 DEF Inv, ReaderType
  <1>5. ~error' => Followed'
    BY <1>1, <1>4 DEF Inv, VerifierInv, Followed
  <1>6. complete' => ~error'
    BY <1>1, <1>2
  <1>7. VerifierInv'
    BY <1>1, <1>2, <1>4, <1>5, <1>6 DEF Inv, VerifierInv
  <1> QED
    BY <1>3, <1>7

\* The reader takes a line.
LEMMA ReadLineKeeps ==
    ASSUME Inv, ReadLine
    PROVE  Inv'
  <1> DEFINE line == Head(wire)
             mine == dump_id # None /\ line.id = dump_id
  <1>0. /\ reader = "reading" /\ wire # <<>> /\ wire' = Tail(wire)
        /\ \/ line.kind = "begin" /\ FeedBegin(line)
           \/ line.kind = "data" /\ mine /\ FeedData(line)
           \/ line.kind = "end" /\ mine /\ FeedEnd(line)
           \/ /\ line.kind = "boot" \/ (line.kind \in {"data", "end"} /\ ~mine)
              /\ UNCHANGED verifierVars
        /\ reader' = IF complete' THEN "accepted"
                     ELSE IF line.kind = "end" /\ mine THEN "rejected" ELSE reader
        /\ UNCHANGED <<deviceVars, request, studioVars>>
    BY DEF ReadLine
  <1>1. Tail(wire) \in Seq(Sent) /\ Len(Tail(wire)) <= TX_CAP /\ line \in Sent
    BY <1>0, TailKeeps DEF Inv
  <1>2. DeviceType' /\ Sent' = Sent /\ StudioTypeOK'
    BY <1>0, DeviceFrame DEF Inv, deviceVars, DeviceType, studioVars, StudioTypeOK
  <1>3. WireInv'
    BY <1>0, <1>1, <1>2 DEF WireInv
  <1>4. UNCHANGED <<dump_pc, id, sizes, request>> /\ ~complete
    BY <1>0 DEF deviceVars, Inv, VerifierInv
  <1>5. ReaderType' /\ VerifierInv'
    <2>1. CASE line.kind = "begin" /\ FeedBegin(line)
      BY <2>1, <1>0, <1>1, <1>4, FeedBeginKeeps
    <2>2. CASE line.kind = "data" /\ mine /\ FeedData(line)
      <3>1. reader' = reader
        BY <2>2, <1>0, <1>4 DEF FeedData
      <3> QED
        BY <2>2, <3>1, <1>0, <1>1, <1>4, FeedDataKeeps
    <2>3. CASE line.kind = "end" /\ mine /\ FeedEnd(line)
      BY <2>3, <1>0, <1>4, FeedEndKeeps
    <2>4. CASE (line.kind = "boot" \/ (line.kind \in {"data", "end"} /\ ~mine)) /\ UNCHANGED verifierVars
      <3>1. reader' = reader
        BY <2>4, <1>0, <1>4 DEF verifierVars
      <3> QED
        BY <2>4, <3>1, <1>0, <1>4 DEF Inv, ReaderType, VerifierInv, Followed, verifierVars
    <2> QED
      BY <1>0, <2>1, <2>2, <2>3, <2>4
  <1> QED
    BY <1>2, <1>3, <1>5 DEF Inv

\* Requests, the port and its reader, and lines that get lost.
LEMMA PortKeeps ==
    ASSUME Inv,
           RequestDump \/ OpenReader \/ RequestArrives \/ Deadline \/ LoseLine \/ Unread
    PROVE  Inv'
  <1>1. /\ UNCHANGED <<dump_pc, id, ordinal, snap, sizes, verifierVars, studioVars>>
        /\ dump_queued' \in BOOLEAN /\ request' \in BOOLEAN
    BY DEF Inv, DeviceType, ReaderType, deviceVars, RequestDump, OpenReader, RequestArrives,
           Deadline, LoseLine, Unread
  <1>2. DeviceType' /\ Sent' = Sent
    BY <1>1, DeviceFrame
  <1>3. StudioTypeOK'
    BY <1>1 DEF Inv, StudioTypeOK, studioVars
  <1>4. WireInv'
    <2>1. wire' = wire \/ (wire # <<>> /\ wire' = Tail(wire)) \/ \E i \in 1 .. Len(wire) : wire' = RemoveAt(wire, i)
      BY DEF RequestDump, OpenReader, RequestArrives, Deadline, LoseLine, Unread
    <2> QED
      BY <1>2, <2>1, TailKeeps, RemoveKeeps DEF Inv, WireInv
  <1>5. reader' = reader \/ (reader # "accepted" /\ reader' \in {"reading", "timeout"} /\ ~complete)
    BY DEF Inv, ReaderType, VerifierInv, RequestDump, OpenReader, RequestArrives, Deadline, LoseLine, Unread
  <1>6. ReaderType' /\ VerifierInv'
    BY <1>1, <1>5 DEF Inv, ReaderType, VerifierInv, Followed, verifierVars
  <1> QED
    BY <1>2, <1>3, <1>4, <1>6 DEF Inv

\* Cable and endpoint.
LEMMA UsbKeeps ==
    ASSUME Inv, Cable \/ Endpoint
    PROVE  Inv'
  <1>1. /\ UNCHANGED <<deviceVars, verifierVars>> /\ (wire' = wire \/ wire' = <<>>)
        /\ request' \in BOOLEAN
        /\ reader' = reader \/ (reader = "reading" /\ reader' = "gone")
    BY DEF Inv, ReaderType, Cable, Endpoint
  <1>2. DeviceType' /\ Sent' = Sent
    BY <1>1, DeviceFrame DEF Inv, DeviceType, deviceVars
  <1>3. WireInv'
    <2>1. <<>> \in Seq(Sent) /\ Len(<<>>) <= TX_CAP
      BY Bounds
    <2> QED
      BY <1>1, <1>2, <2>1 DEF Inv, WireInv
  <1>4. ReaderType' /\ VerifierInv'
    BY <1>1 DEF Inv, ReaderType, VerifierInv, Followed, verifierVars, deviceVars
  <1>5. StudioTypeOK'
    <2>1. CASE Cable
      <3>1. moves' \in [cable: 0 .. MaxCable, switches: 0 .. MaxSwitches]
        BY <2>1, StudioAssumption DEF Inv, Cable, PlugCable, StudioTypeOK
      <3> QED
        BY <2>1, <3>1 DEF Inv, Cable, PlugCable, StudioTypeOK
    <2>2. CASE SwitchToBle
      <3>1. moves' \in [cable: 0 .. MaxCable, switches: 0 .. MaxSwitches]
        BY <2>2, StudioAssumption DEF Inv, SwitchToBle, StudioTypeOK
      <3> QED
        BY <2>2, <3>1 DEF Inv, SwitchToBle, StudioTypeOK
    <2>3. CASE PreferUsb
      <3>1. tries' \in 0 .. STUDIO_TRIES
        BY <2>3, StudioAssumption
        DEF Inv, PreferUsb, CableOut, UsbSelected, UsbRefused, TriesLeft, StudioTypeOK
      <3>2. usb_work' \in BOOLEAN /\ selected' \in {"USB", "BLE"} /\ UNCHANGED <<powered, moves>>
        BY <2>3 DEF Inv, PreferUsb, CableOut, UsbSelected, UsbRefused, StudioTypeOK
      <3> QED
        BY <3>1, <3>2 DEF Inv, StudioTypeOK
    <2> QED
      BY <2>1, <2>2, <2>3 DEF Endpoint
  <1> QED
    BY <1>2, <1>3, <1>4, <1>5 DEF Inv

-----------------------------------------------------------------------------
(* The theorems.                                                           *)

\* Every step keeps the invariant.
LEMMA NextInv == Inv /\ [Next]_vars => Inv'
  <1> SUFFICES ASSUME Inv, [Next]_vars PROVE Inv'
    OBVIOUS
  <1>1. CASE Device
    BY <1>1, DumpStartKeeps, SendBootKeeps, SendBeginKeeps, SendDataKeeps, DumpOverKeeps DEF Device
  <1>2. CASE DumpAbort
    BY <1>2, DumpOverKeeps
  <1>3. CASE RequestDump \/ OpenReader \/ RequestArrives \/ Deadline \/ LoseLine \/ Unread
    BY <1>3, PortKeeps
  <1>4. CASE ReadLine
    BY <1>4, ReadLineKeeps
  <1>5. CASE Cable \/ Endpoint
    BY <1>5, UsbKeeps
  <1>6. CASE UNCHANGED vars
    <2>1. /\ UNCHANGED <<deviceVars, verifierVars, wire, reader, request, studioVars>>
      BY <1>6 DEF vars
    <2>2. DeviceType' /\ Sent' = Sent
      BY <2>1, DeviceFrame DEF Inv, DeviceType, deviceVars
    <2>3. WireInv' /\ StudioTypeOK'
      BY <2>1, <2>2 DEF Inv, WireInv, StudioTypeOK, studioVars
    <2>4. ReaderType' /\ VerifierInv'
      BY <2>1 DEF Inv, ReaderType, VerifierInv, Followed, verifierVars, deviceVars
    <2> QED
      BY <2>2, <2>3, <2>4 DEF Inv
  <1> QED
    BY <1>1, <1>2, <1>3, <1>4, <1>5, <1>6 DEF Next

\* Inv is an invariant: the strengthening both theorems below rest on.
THEOREM DumpInvariant == Spec => []Inv
  BY InitInv, NextInv, PTL DEF Spec

\* Device, wire and verifier stay well-typed; in particular the transmit buffer
\* never holds more lines than it has room for.
THEOREM DumpTypeCorrect == Spec => []TypeOK
  BY InvTyped, DumpInvariant, PTL

\* A dump the reader accepts is a whole snapshot, in order and without a gap,
\* whatever was lost, given up or left over from an earlier dump.
THEOREM AcceptedDumpIsWhole == Spec => []CompleteMeansWhole
  BY InvMeansWhole, DumpInvariant, PTL

=============================================================================
