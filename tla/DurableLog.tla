----------------------------- MODULE DurableLog -----------------------------
(***************************************************************************)
(* What the diagnostic journal promises about settings storage, without    *)
(* slots, RAM, threads or resets: a log of numbered blocks of events.      *)
(* A block is added only at the new end, and the only block that may go    *)
(* missing is the oldest, never the last one left.  A reader after any     *)
(* reset therefore finds the most recent blocks, in order, up to the last. *)
(***************************************************************************)
EXTENDS Integers

VARIABLE blocks     \* the blocks a boot would find valid

Before(a, b) ==
    /\ a.journal_seq < b.journal_seq
    /\ a.first_event_seq + a.count <= b.first_event_seq

Init == blocks = {}

\* b follows everything saved; room is made for it at the old end.
Append(b) ==
    /\ \A a \in blocks : Before(a, b)
    /\ \A a \in blocks \ blocks' : \A c \in blocks \ {a} : Before(a, c)
    /\ blocks' = (blocks \cap blocks') \cup {b}

\* The block being replaced is ruined by a save that fails or is interrupted.
LoseOldest(a) ==
    /\ \A c \in blocks \ {a} : Before(a, c)
    /\ blocks # {a}
    /\ blocks' = blocks \ {a}

Next == (\E b \in blocks' : Append(b)) \/ (\E a \in blocks : LoseOldest(a))

Spec == Init /\ [][Next]_blocks

=============================================================================
