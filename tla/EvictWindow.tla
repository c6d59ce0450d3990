----------------------------- MODULE EvictWindow -----------------------------
(***************************************************************************)
(* The two bounded histories of exclusive_host.c in the form the code      *)
(* keeps them: the ring of eviction times behind thrash_win_count, and the *)
(* buffer of authentication failures behind CLASS_A_SUSPECT.  Both are     *)
(* compared with the complete histories they stand for.                    *)
(***************************************************************************)
EXTENDS Integers, FiniteSets

CONSTANTS
    RING_SIZE,      \* THRASH_RING_SIZE
    WINDOW,         \* THRASH_WINDOW_MS, in ticks
    FAIL_WINDOW,    \* CLASS_A_WINDOW_MS, in ticks
    THRESHOLD,      \* CLASS_A_FAIL_THRESHOLD
    MaxTime,        \* bound: uptime in ticks
    MaxEvents       \* bound: evictions, and failures, ever noted

ASSUME WindowAssumption ==
    /\ RING_SIZE \in Nat /\ RING_SIZE >= 2 /\ THRESHOLD \in Nat \ {0}
    /\ WINDOW \in Nat /\ FAIL_WINDOW \in Nat /\ MaxTime \in Nat /\ MaxEvents \in Nat

VARIABLES
    now, thrash_ring, thrash_ring_head, thrash_ring_count,
    class_a_fail_ts, class_a_fail_count,
    suspect,            \* the latest failure recorded CLASS_A_SUSPECT
    evictions, fails,   \* history: <<n, time>> of each event since it was last cleared
    noted               \* history: events ever noted

thrashVars == <<thrash_ring, thrash_ring_head, thrash_ring_count, evictions>>
classVars  == <<class_a_fail_ts, class_a_fail_count, suspect, fails>>
vars == <<now, thrashVars, classVars, noted>>

Kinds == {"evict", "fail"}

TypeOK ==
    /\ now \in 0 .. MaxTime
    /\ thrash_ring \in [0 .. RING_SIZE - 1 -> 0 .. MaxTime]
    /\ thrash_ring_head \in 0 .. RING_SIZE - 1 /\ thrash_ring_count \in 0 .. RING_SIZE
    /\ class_a_fail_ts \in [0 .. THRESHOLD - 1 -> 0 .. MaxTime]
    /\ class_a_fail_count \in 0 .. THRESHOLD
    /\ suspect \in BOOLEAN
    /\ evictions \subseteq (1 .. MaxEvents) \X (0 .. MaxTime)
    /\ fails \subseteq (1 .. MaxEvents) \X (0 .. MaxTime)
    /\ noted \in [Kinds -> 0 .. MaxEvents]

Init ==
    /\ now = 0
    /\ thrash_ring = [i \in 0 .. RING_SIZE - 1 |-> 0]
    /\ thrash_ring_head = 0 /\ thrash_ring_count = 0
    /\ class_a_fail_ts = [i \in 0 .. THRESHOLD - 1 |-> 0]
    /\ class_a_fail_count = 0 /\ suspect = FALSE
    /\ evictions = {} /\ fails = {} /\ noted = [k \in Kinds |-> 0]

-----------------------------------------------------------------------------
\* Mutant: the walk starts at the next write position.
FromHead(i) == (thrash_ring_head + RING_SIZE - i) % RING_SIZE
\* The ring index that is i places before the newest entry.
Back(i) == (thrash_ring_head + RING_SIZE - 1 - i) % RING_SIZE

\* The walk stops at the first entry outside the window.
thrash_win_count ==
    Cardinality({i \in 0 .. thrash_ring_count - 1 :
                    \A j \in 0 .. i : now - thrash_ring[Back(j)] <= WINDOW})

HeadAfter == (thrash_ring_head + 1) % RING_SIZE

thrash_note_bg_evict ==
    /\ noted["evict"] < MaxEvents
    /\ noted' = [noted EXCEPT !["evict"] = @ + 1]
    /\ evictions' = evictions \cup {<<noted["evict"] + 1, now>>}
    /\ thrash_ring' = [thrash_ring EXCEPT ![thrash_ring_head] = now]
    /\ thrash_ring_head' = HeadAfter
    /\ thrash_ring_count' = IF thrash_ring_count < RING_SIZE THEN thrash_ring_count + 1
                            ELSE thrash_ring_count
    /\ UNCHANGED <<now, classVars>>

\* Failures of the buffer still inside the window, in order, from index 0.
KeptFails == {i \in 0 .. class_a_fail_count - 1 : now - class_a_fail_ts[i] <= FAIL_WINDOW}
NthKept(n) == CHOOSE i \in KeptFails : Cardinality({j \in KeptFails : j < i}) = n

\* Mutant: a full buffer overwrites its last entry instead of shifting.
OverwriteLast(ts, kept) == [ts EXCEPT ![IF kept < THRESHOLD THEN kept ELSE THRESHOLD - 1] = now]
\* The new failure is appended, shifting a full buffer.
AppendFail(ts, kept) ==
    IF kept < THRESHOLD THEN [ts EXCEPT ![kept] = now]
    ELSE [i \in 0 .. THRESHOLD - 1 |-> IF i < THRESHOLD - 1 THEN ts[i + 1] ELSE now]

\* class_a_note_auth_event(true), from security_changed or a disconnect for
\* authentication failure of the active host.
class_a_note_fail ==
    /\ noted["fail"] < MaxEvents
    /\ noted' = [noted EXCEPT !["fail"] = @ + 1]
    /\ fails' = fails \cup {<<noted["fail"] + 1, now>>}
    /\ LET kept == Cardinality(KeptFails)
           compact == [i \in 0 .. THRESHOLD - 1 |->
                         IF i < kept THEN class_a_fail_ts[NthKept(i)] ELSE class_a_fail_ts[i]]
       IN  /\ class_a_fail_ts' = AppendFail(compact, kept)
           /\ class_a_fail_count' = IF kept < THRESHOLD THEN kept + 1 ELSE kept
    /\ suspect' = (class_a_fail_count' >= THRESHOLD /\ thrash_win_count < 2)
    /\ UNCHANGED <<now, thrashVars>>

\* class_a_note_auth_event(false): the active host reached security level 2.
class_a_note_ok ==
    /\ class_a_fail_count' = 0 /\ fails' = {}
    /\ UNCHANGED <<now, thrashVars, class_a_fail_ts, suspect, noted>>

\* A profile switch: thrash_clear and class_a_note_auth_event(false).
Switch ==
    /\ thrash_ring_head' = 0 /\ thrash_ring_count' = 0 /\ evictions' = {}
    /\ class_a_fail_count' = 0 /\ fails' = {}
    /\ UNCHANGED <<now, thrash_ring, class_a_fail_ts, suspect, noted>>

Tick == now < MaxTime /\ now' = now + 1 /\ UNCHANGED <<thrashVars, classVars, noted>>

Next == thrash_note_bg_evict \/ class_a_note_fail \/ class_a_note_ok \/ Switch \/ Tick

Spec == Init /\ [][Next]_vars

-----------------------------------------------------------------------------
Recent(events, w) == Cardinality({e \in events : now - e[2] <= w})

\* The wrapped ring counts exactly the evictions of the window since the last
\* switch, up to its size.
WinCountExact ==
    thrash_win_count = IF Recent(evictions, WINDOW) < RING_SIZE
                       THEN Recent(evictions, WINDOW) ELSE RING_SIZE

\* CLASS_A_SUSPECT is recorded for exactly those failures that are at least the
\* THRESHOLD-th of the window since the last success or switch, while fewer
\* than two evictions are in theirs: pruning and shifting lose nothing.
SuspectExact ==
    [][noted'["fail"] # noted["fail"] =>
         (suspect' <=> /\ Cardinality({e \in fails' : now - e[2] <= FAIL_WINDOW}) >= THRESHOLD
                       /\ Recent(evictions, WINDOW) < 2)]_vars

=============================================================================
