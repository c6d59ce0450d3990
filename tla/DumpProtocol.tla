---------------------------- MODULE DumpProtocol ----------------------------
(***************************************************************************)
(* The verified journal dump: totem_host_event_log_dump on the keyboard's  *)
(* dump queue, the framed USB lines, and DumpVerifier with the main loop   *)
(* of tools/read_diag_dump.py on the computer.                             *)
(*                                                                         *)
(* A line is its kind, the dump id, one number n (the announced line count *)
(* of a begin, the ordinal of a data line, the count of an end) and, for a *)
(* begin, the sum of its blocks, persisted and ram counts.                 *)
(* Lines may get lost between the two programs.  The id is the uptime at   *)
(* which the dump starts; two dumps start in different milliseconds.       *)
(* Request and lines pass only while USB is the selected endpoint, which   *)
(* is what StudioUsb sees to.                                              *)
(***************************************************************************)
EXTENDS StudioUsb, SequencesExt

CONSTANTS
    MaxBlocks, MaxEvents,   \* bounds: blocks, and events in flash or in RAM, of a snapshot
    TX_CAP,                 \* lines the transmit buffer holds
    MaxDumps,               \* bound: dumps started
    MaxAborts,              \* bound: dumps given up after the retries of dump_send
    MaxLost                 \* bound: lines lost on the way

ASSUME DumpAssumption ==
    /\ MaxBlocks \in Nat /\ MaxEvents \in Nat /\ TX_CAP \in Nat \ {0}
    /\ MaxDumps \in Nat /\ MaxAborts \in Nat /\ MaxLost \in Nat

VARIABLES
    dump_queued,    \* dump_work is queued
    dump_pc,        \* where totem_host_event_log_dump is
    id, ordinal, snap,
    wire,           \* lines sent and not yet read
    reader,         \* "closed", "reading", "accepted", "rejected", "timeout", "gone"
    request,        \* the reader's D1 has not reached the keyboard yet
    dump_id, expected, next_line, error, complete,   \* DumpVerifier
    accepted,       \* history: ordinals of the data lines since the begin
    sizes,          \* history: number of data lines of each dump's snapshot
    used            \* budgets spent

deviceVars   == <<dump_queued, dump_pc, id, ordinal, snap, sizes>>
verifierVars == <<dump_id, expected, next_line, error, complete, accepted>>
vars == <<deviceVars, verifierVars, wire, reader, request, used, studioVars>>

None == -1
Snapshots == [blocks: 0 .. MaxBlocks, persisted: 0 .. MaxEvents, ram: 0 .. MaxEvents]
EmptySnap == [blocks |-> 0, persisted |-> 0, ram |-> 0]
SnapSize(s) == s.blocks + s.persisted + s.ram
MaxLines == MaxBlocks + 2 * MaxEvents

TypeOK ==
    /\ dump_queued \in BOOLEAN
    /\ dump_pc \in {"idle", "boot", "begin", "data"}
    /\ id \in 0 .. MaxDumps /\ ordinal \in 0 .. MaxLines /\ snap \in Snapshots
    /\ Len(wire) <= TX_CAP /\ request \in BOOLEAN /\ StudioTypeOK
    /\ reader \in {"closed", "reading", "accepted", "rejected", "timeout", "gone"}
    /\ dump_id \in {None} \cup 1 .. MaxDumps
    /\ expected \in 0 .. MaxLines /\ next_line \in 0 .. MaxLines
    /\ error \in BOOLEAN /\ complete \in BOOLEAN

Init ==
    /\ dump_queued = FALSE /\ dump_pc = "idle" /\ id = 0 /\ ordinal = 0 /\ snap = EmptySnap
    /\ wire = <<>> /\ reader = "closed" /\ request = FALSE /\ StudioInit
    /\ dump_id = None /\ expected = 0 /\ next_line = 0 /\ error = FALSE /\ complete = FALSE
    /\ accepted = <<>> /\ sizes = [d \in 1 .. MaxDumps |-> 0]
    /\ used = [aborts |-> 0, lost |-> 0]

-----------------------------------------------------------------------------
(* The keyboard.                                                           *)

\* The combo; a request made while a dump runs queues one more.  The bound
\* leaves the last dump to the reader's own request.
RequestDump ==
    /\ id < MaxDumps - 1 /\ ~dump_queued
    /\ dump_queued' = TRUE
    /\ UNCHANGED <<dump_pc, id, ordinal, snap, sizes, verifierVars, wire, reader, used, request, studioVars>>

DumpStart ==
    /\ dump_pc = "idle" /\ dump_queued /\ id < MaxDumps
    /\ dump_queued' = FALSE /\ dump_pc' = "boot"
    /\ id' = id + 1 /\ ordinal' = 0
    /\ UNCHANGED <<snap, sizes, verifierVars, wire, reader, used, request, studioVars>>

\* totem_studio_send_diag_line refuses a line while USB is not selected; dump_send
\* tries again until it passes and the transmit buffer has room.
Send(kind, n, sum) ==
    /\ selected = "USB" /\ Len(wire) < TX_CAP
    /\ wire' = Append(wire, [kind |-> kind, id |-> id, n |-> n, sum |-> sum])

\* The two totem_boot lines and the saved fault, which the verifier ignores.
SendBoot ==
    /\ dump_pc = "boot" /\ dump_pc' = "begin"
    /\ Send("boot", 0, 0)
    /\ UNCHANGED <<dump_queued, id, ordinal, snap, sizes, verifierVars, reader, used, request, studioVars>>

\* Mutant: the block header lines are not counted.
EventsOnly(s) == s.persisted + s.ram
ExpectedLines(s) == s.blocks + s.persisted + s.ram

\* The snapshot is taken under ring_mu, then announced.
SendBegin ==
    /\ dump_pc = "begin" /\ dump_pc' = "data"
    /\ \E s \in Snapshots :
          /\ snap' = s
          /\ sizes' = [sizes EXCEPT ![id] = SnapSize(s)]
          /\ Send("begin", ExpectedLines(s), SnapSize(s))
    /\ UNCHANGED <<dump_queued, id, ordinal, verifierVars, reader, used, request, studioVars>>

\* dump_data: the ordinal advances only when the line was sent.
SendData ==
    /\ dump_pc = "data" /\ ordinal < SnapSize(snap)
    /\ Send("data", ordinal, 0)
    /\ ordinal' = ordinal + 1
    /\ UNCHANGED <<dump_queued, dump_pc, id, snap, sizes, verifierVars, reader, used, request, studioVars>>

\* The end marker, if every announced line was sent.
DumpEnd ==
    /\ dump_pc = "data" /\ ordinal = SnapSize(snap)
    /\ IF ordinal = ExpectedLines(snap) THEN Send("end", ordinal, 0) ELSE UNCHANGED wire
    /\ dump_pc' = "idle" /\ snap' = EmptySnap
    /\ UNCHANGED <<dump_queued, id, ordinal, sizes, verifierVars, reader, used, request, studioVars>>

\* dump_send ran out of attempts, with the buffer full or another endpoint
\* selected: no further line.
DumpAbort ==
    /\ dump_pc # "idle" /\ (used.aborts < MaxAborts \/ selected = "BLE")
    /\ used' = [used EXCEPT !.aborts = IF @ < MaxAborts THEN @ + 1 ELSE @]
    /\ dump_pc' = "idle" /\ snap' = EmptySnap
    /\ UNCHANGED <<dump_queued, id, ordinal, sizes, verifierVars, wire, reader, request, studioVars>>

-----------------------------------------------------------------------------
(* The computer.                                                           *)

\* main opens the port, which is there while the cable is in, and sends D1.
OpenReader ==
    /\ reader = "closed" /\ powered /\ reader' = "reading"
    /\ request' = TRUE
    /\ UNCHANGED <<deviceVars, verifierVars, wire, used, studioVars>>

\* dump_frame_cb: Studio receives D1 once it listens.
RequestArrives ==
    /\ request /\ selected = "USB"
    /\ request' = FALSE /\ dump_queued' = TRUE
    /\ UNCHANGED <<dump_pc, id, ordinal, snap, sizes, verifierVars, wire, reader, used, studioVars>>

\* DumpVerifier.feed by line kind.
FeedBegin(line) ==
    /\ dump_id' = line.id /\ expected' = line.n
    /\ next_line' = 0 /\ error' = (line.n # line.sum) /\ complete' = FALSE
    /\ accepted' = <<>>

\* Mutant: a gap in the ordinals is not an error.
GapIgnored(n) == error
OrdinalError(n) == error \/ n # next_line

FeedData(line) ==
    /\ error' = OrdinalError(line.n)
    /\ next_line' = line.n + 1
    /\ accepted' = Append(accepted, line.n)
    /\ UNCHANGED <<dump_id, expected, complete>>

FeedEnd(line) ==
    /\ error' = (error \/ line.n # expected \/ next_line # expected)
    /\ complete' = ~error'
    /\ UNCHANGED <<dump_id, expected, next_line, accepted>>

\* Lines of another dump, and every line before the first begin, change nothing.
ReadLine ==
    /\ reader = "reading" /\ wire # <<>>
    /\ wire' = Tail(wire)
    /\ LET line == Head(wire)
           mine == dump_id # None /\ line.id = dump_id
       IN  /\ \/ line.kind = "begin" /\ FeedBegin(line)
              \/ line.kind = "data" /\ mine /\ FeedData(line)
              \/ line.kind = "end" /\ mine /\ FeedEnd(line)
              \/ /\ line.kind = "boot" \/ (line.kind \in {"data", "end"} /\ ~mine)
                 /\ UNCHANGED verifierVars
           /\ reader' = IF complete' THEN "accepted"
                        ELSE IF line.kind = "end" /\ mine THEN "rejected" ELSE reader
    /\ UNCHANGED <<deviceVars, used, request, studioVars>>

Deadline ==
    /\ reader = "reading" /\ reader' = "timeout"
    /\ UNCHANGED <<deviceVars, verifierVars, wire, used, request, studioVars>>

\* A line is lost on its way (a full log buffer, a damaged frame).
LoseLine ==
    /\ used.lost < MaxLost /\ used' = [used EXCEPT !.lost = @ + 1]
    /\ \E i \in 1 .. Len(wire) : wire' = RemoveAt(wire, i)
    /\ UNCHANGED <<deviceVars, verifierVars, reader, request, studioVars>>

\* Nobody reads the port: what arrives is dropped, the oldest first.
Unread ==
    /\ reader # "reading" /\ wire # <<>>
    /\ wire' = Tail(wire)
    /\ UNCHANGED <<deviceVars, verifierVars, reader, used, request, studioVars>>

-----------------------------------------------------------------------------
\* The cable: pulled out, it takes the port and what is on the way with it.
Cable ==
    /\ PlugCable
    /\ wire' = <<>> /\ request' = FALSE
    /\ reader' = IF reader = "reading" THEN "gone" ELSE reader
    /\ UNCHANGED <<deviceVars, verifierVars, used>>

Endpoint ==
    /\ SwitchToBle \/ PreferUsb
    /\ UNCHANGED <<deviceVars, verifierVars, wire, reader, request, used>>

Device == DumpStart \/ SendBoot \/ SendBegin \/ SendData \/ DumpEnd
Next == RequestDump \/ Device \/ DumpAbort \/ OpenReader \/ RequestArrives \/ ReadLine
        \/ Deadline \/ LoseLine \/ Unread \/ Cable \/ Endpoint

Spec == Init /\ [][Next]_vars

\* The dump queue serves its work and goes on while the buffer has room; the
\* system work queue serves the selection of USB; the reader opens the port and
\* reads; Studio receives what was sent to it once it listens.
FairSpec == Spec /\ WF_vars(Device) /\ WF_vars(ReadLine) /\ WF_vars(OpenReader)
                 /\ WF_vars(Unread) /\ WF_vars(RequestArrives)
                 /\ WF_vars(PreferUsb /\ Endpoint)

-----------------------------------------------------------------------------
\* A dump the reader accepts is whole: it has received every data line of one
\* snapshot, once and in order, whatever was lost, given up or interleaved with
\* the remains of an earlier dump ("a receiver must observe all ordinals and
\* the matching end marker", totem_host_event_log_dump).
CompleteMeansWhole ==
    complete => /\ Len(accepted) = sizes[dump_id]
                /\ \A i \in 1 .. Len(accepted) : accepted[i] = i - 1

\* Unless a line is lost, a dump or the selection of USB is given up, or the time
\* runs out, a reader whose cable stays in ends with an accepted dump, even when
\* it opens the port in the middle of one that somebody else asked for, or while
\* the keyboard is on Bluetooth (main of read_diag_dump.py).
ReaderSucceeds ==
    <>[]powered =>
        <>(reader \in {"accepted", "timeout", "gone"} \/ used.lost > 0 \/ used.aborts > 0
           \/ tries = STUDIO_TRIES)

=============================================================================
