------------------------- MODULE DiagnosticsProofs -------------------------
(***************************************************************************)
(* Proofs about Diagnostics, for every size of inbox, queue and counter,   *)
(* any number of profiles and exchanges and any load: the timing inbox is  *)
(* a queue that loses nothing silently and is always served, the journal   *)
(* follows every exchange in the order of its causes, no count is lost to  *)
(* the summary, and every report is accounted for.                         *)
(***************************************************************************)
EXTENDS Diagnostics, SequenceTheorems, FiniteSetTheorems, FunctionTheorems, TLAPS

-----------------------------------------------------------------------------
(* The inbox.                                                              *)

HookNames == {"request", "requested", "received", "arrived", "put", "taken", "reply", "queued",
              "replied", "changed", "channels", "done"}
Hooks == Exchanges \X HookNames

\* The place k behind another, without the remainder.
LEMMA WrappedAt ==
    ASSUME NEW c \in Nat \ {0}, NEW h \in 0 .. c - 1, NEW k \in 0 .. c
    PROVE  (h + k) % c = IF h + k < c THEN h + k ELSE h + k - c
  OBVIOUS

\* The same for the inbox.
LEMMA Wrapped ==
    ASSUME NEW h \in 0 .. TIMING_CAP - 1, NEW k \in 0 .. TIMING_CAP
    PROVE  (h + k) % TIMING_CAP = IF h + k < TIMING_CAP THEN h + k ELSE h + k - TIMING_CAP
  BY WrappedAt, InboxAssumption

InboxTyped ==
    /\ InboxTypeOK
    /\ timing_inbox \in [Places -> Hooks \cup {NoRecord}]
    /\ accepted \in Seq(Hooks)
    /\ owed \in Int /\ saturated \in BOOLEAN

\* The invariant of the inbox.
InboxInv == InboxTyped /\ InboxIsQueue /\ NothingVanishes /\ InboxServed

\* The inbox starts empty.
LEMMA InboxInitInv == InboxInit => InboxInv
  <1> SUFFICES ASSUME InboxInit PROVE InboxInv
    OBVIOUS
  <1>1. InboxTyped
    <2>1. InboxTypeOK
      BY InboxAssumption DEF InboxInit, InboxTypeOK, Places
    <2>2. timing_inbox \in [Places -> Hooks \cup {NoRecord}]
      BY DEF InboxInit
    <2>4. accepted \in Seq(Hooks)
      BY DEF InboxInit
    <2>3. owed \in Int
      BY DEF InboxInit
    <2>5. saturated \in BOOLEAN
      BY DEF InboxInit
    <2> QED
      BY <2>1, <2>2, <2>3, <2>4, <2>5 DEF InboxTyped
  <1>2. InboxIsQueue /\ NothingVanishes /\ InboxServed
    BY DEF InboxInit, InboxIsQueue, NothingVanishes, InboxServed
  <1> QED
    BY <1>1, <1>2 DEF InboxInv

\* A capture keeps the queue and the account, whatever the caller does next.
LEMMA StoreKeeps ==
    ASSUME InboxInv, NEW record \in Hooks, Store(record),
           timing_queued' \in BOOLEAN
    PROVE  InboxTyped' /\ InboxIsQueue' /\ NothingVanishes'
  <1>1. TIMING_CAP \in Nat /\ TIMING_CAP >= 1 /\ timing_head \in 0 .. TIMING_CAP - 1
        /\ timing_count \in 0 .. TIMING_CAP
    BY InboxAssumption DEF InboxInv, InboxTyped, InboxTypeOK, Places
  <1>4. FreePlace = IF timing_head + timing_count < TIMING_CAP THEN timing_head + timing_count
                    ELSE timing_head + timing_count - TIMING_CAP
    BY <1>1, Wrapped DEF FreePlace
  <1> USE DEF Store
  <1>2. CASE HasRoom
    <2>2. FreePlace \in Places
      BY <1>4, <1>1, <1>2 DEF Places, HasRoom
    <2>3. InboxTyped'
      BY <2>2, <1>1, <1>2, InboxAssumption DEF InboxInv, InboxTyped, InboxTypeOK, HasRoom
    <2>4. InboxIsQueue'
      <3>1. accepted \in Seq(Hooks) /\ Len(accepted) = timing_count
        BY DEF InboxInv, InboxTyped, InboxIsQueue
      <3>2. accepted' = Append(accepted, record) /\ timing_count' = timing_count + 1
            /\ timing_head' = timing_head
        BY <1>2
      <3>3. ASSUME NEW i \in 1 .. timing_count + 1
            PROVE  timing_inbox'[(timing_head + (i - 1)) % TIMING_CAP] = accepted'[i]
        <4>1. (timing_head + (i - 1)) % TIMING_CAP =
                IF timing_head + (i - 1) < TIMING_CAP THEN timing_head + (i - 1)
                ELSE timing_head + (i - 1) - TIMING_CAP
          <5>1. i - 1 \in 0 .. TIMING_CAP
            BY <1>1, <1>2 DEF HasRoom
          <5> QED
            BY <1>1, <5>1, Wrapped
        <4>2. CASE i = timing_count + 1
          <5>1. (timing_head + (i - 1)) % TIMING_CAP = FreePlace
            BY <4>1, <4>2, <1>4, <1>1
          <5>2. timing_inbox'[FreePlace] = record
            BY <1>2, <2>2 DEF InboxInv, InboxTyped
          <5> QED
            BY <5>1, <5>2, <4>2, <3>1, <3>2
        <4>3. CASE i # timing_count + 1
          <5>1. (timing_head + (i - 1)) % TIMING_CAP \in Places \ {FreePlace}
            BY <4>1, <4>3, <1>4, <1>1, <1>2 DEF Places, HasRoom
          <5>2. timing_inbox'[(timing_head + (i - 1)) % TIMING_CAP] =
                  timing_inbox[(timing_head + (i - 1)) % TIMING_CAP]
            BY <5>1, <1>2 DEF InboxInv, InboxTyped
          <5>3. i \in 1 .. Len(accepted) /\ accepted'[i] = accepted[i]
            BY <4>3, <3>1, <3>2, <1>1
          <5> QED
            BY <5>2, <5>3 DEF InboxInv, InboxIsQueue
        <4> QED
          BY <4>2, <4>3
      <3>4. Len(accepted') = timing_count + 1
        BY <3>1, <3>2
      <3> QED
        BY <3>2, <3>3, <3>4 DEF InboxIsQueue
    <2>5. NothingVanishes'
      BY <1>1, <1>2 DEF InboxInv, InboxTyped, InboxTypeOK, NothingVanishes
    <2> QED
      BY <2>3, <2>4, <2>5
  <1>3. CASE ~HasRoom
    <2>1. InboxTyped'
      BY <1>3, InboxAssumption DEF InboxInv, InboxTyped, InboxTypeOK, OneMoreDropped
    <2>2. InboxIsQueue'
      BY <1>3 DEF InboxInv, InboxIsQueue
    <2>3. NothingVanishes'
      <3> SUFFICES ASSUME ~saturated'
                   PROVE  owed' = timing_count' + timing_dropped'
        BY DEF NothingVanishes
      <3>1. ~saturated /\ timing_dropped # DROPPED_MAX
        BY <1>3 DEF InboxInv, InboxTyped
      <3>2. timing_dropped' = timing_dropped + 1
        BY <1>3, <3>1, InboxAssumption DEF InboxInv, InboxTyped, InboxTypeOK, OneMoreDropped
      <3>3. owed = timing_count + timing_dropped
        BY <3>1 DEF InboxInv, NothingVanishes
      <3> QED
        BY <1>1, <1>3, <3>2, <3>3 DEF InboxInv, InboxTyped, InboxTypeOK
    <2> QED
      BY <2>1, <2>2, <2>3
  <1> QED
    BY <1>2, <1>3

\* A capture in a thread or in an interrupt: the work will be submitted.
LEMMA CaptureKeeps ==
    ASSUME InboxInv, NEW record \in Hooks,
           CaptureInIsr(record) \/ \E c \in SecThreads : Capture(c, record)
    PROVE  InboxInv'
  <1>1. Store(record) /\ timing_queued' \in BOOLEAN
    BY DEF CaptureInIsr, Capture, InboxInv, InboxTyped, InboxTypeOK
  <1>2. InboxServed'
    BY DEF CaptureInIsr, Capture, InboxServed
  <1> QED
    BY <1>1, <1>2, StoreKeeps DEF InboxInv

\* timing_drain takes the oldest record out.
LEMMA DrainOneKeeps ==
    ASSUME InboxInv, DrainOne
    PROVE  InboxInv'
  <1>1. TIMING_CAP \in Nat \ {0} /\ timing_head \in 0 .. TIMING_CAP - 1
        /\ timing_count \in 1 .. TIMING_CAP
    BY InboxAssumption DEF InboxInv, InboxTyped, InboxTypeOK, Places, DrainOne, MoreToDrain
  <1>2. timing_head' = IF timing_head + 1 < TIMING_CAP THEN timing_head + 1
                       ELSE timing_head + 1 - TIMING_CAP
    BY <1>1, Wrapped DEF DrainOne
  <1>3. accepted \in Seq(Hooks) /\ Len(accepted) = timing_count /\ accepted' = Tail(accepted)
        /\ timing_count' = timing_count - 1
    BY DEF DrainOne, InboxInv, InboxTyped, InboxIsQueue
  <1>4. accepted' \in Seq(Hooks) /\ Len(accepted') = timing_count'
    BY <1>1, <1>3
  <1>5. InboxTyped'
    <2>1. timing_head' \in Places /\ timing_count' \in 0 .. TIMING_CAP
      BY <1>1, <1>2, <1>3 DEF Places
    <2>2. owed' \in Int
      BY DEF DrainOne, InboxInv, InboxTyped
    <2> QED
      BY <1>4, <2>1, <2>2 DEF DrainOne, InboxInv, InboxTyped, InboxTypeOK
  <1>6. InboxIsQueue'
    <2>1. ASSUME NEW i \in 1 .. Len(accepted')
          PROVE  timing_inbox'[(timing_head' + (i - 1)) % TIMING_CAP] = accepted'[i]
      <3>1. i \in 1 .. timing_count - 1
        BY <1>3, <1>4
      <3>2. timing_head' \in 0 .. TIMING_CAP - 1 /\ i - 1 \in 0 .. TIMING_CAP /\ i \in 0 .. TIMING_CAP
        BY <1>1, <1>2, <3>1
      <3>3. (timing_head' + (i - 1)) % TIMING_CAP =
              IF timing_head' + (i - 1) < TIMING_CAP THEN timing_head' + (i - 1)
              ELSE timing_head' + (i - 1) - TIMING_CAP
        BY <3>2, Wrapped
      <3>4. (timing_head + i) % TIMING_CAP =
              IF timing_head + i < TIMING_CAP THEN timing_head + i ELSE timing_head + i - TIMING_CAP
        BY <1>1, <3>2, Wrapped
      <3>5. (timing_head' + (i - 1)) % TIMING_CAP = (timing_head + i) % TIMING_CAP
        BY <1>1, <1>2, <3>1, <3>3, <3>4
      <3>6. i + 1 \in 1 .. Len(accepted) /\ timing_head + (i + 1) - 1 = timing_head + i
        BY <3>1, <1>1, <1>3
      <3>7. timing_inbox[(timing_head + i) % TIMING_CAP] = accepted[i + 1]
        BY <3>6 DEF InboxInv, InboxIsQueue
      <3>8. accepted'[i] = accepted[i + 1]
        BY <1>1, <1>3, <3>1
      <3> QED
        BY <3>5, <3>7, <3>8 DEF DrainOne
    <2>2. timing_head' \in Int
      BY <1>1, <1>2
    <2>3. \A i \in 1 .. Len(accepted') : timing_head' + i - 1 = timing_head' + (i - 1)
      BY <2>2
    <2> QED
      BY <1>4, <2>1, <2>3 DEF InboxIsQueue
  <1>7. NothingVanishes'
    BY <1>1 DEF DrainOne, InboxInv, InboxTyped, InboxTypeOK, NothingVanishes
  <1>8. InboxServed'
    BY DEF DrainOne, InboxServed
  <1> QED
    BY <1>5, <1>6, <1>7, <1>8 DEF InboxInv

\* The other steps of the work queue and of k_work_submit: the last round
\* reports what was dropped, and leaves nothing unserved.
LEMMA ServeKeeps ==
    ASSUME InboxInv, DrainStart \/ DrainEnd \/ \E c \in SecThreads : Submit(c)
    PROVE  InboxInv'
  <1>1. CASE DrainStart \/ \E c \in SecThreads : Submit(c)
    <2>1. UNCHANGED inboxData /\ timing_queued' \in BOOLEAN /\ draining' \in BOOLEAN
      BY <1>1 DEF DrainStart, Submit, InboxInv, InboxTyped, InboxTypeOK
    <2>2. InboxServed'
      BY <1>1 DEF DrainStart, Submit, InboxServed
    <2>3. InboxTyped'
      BY <2>1 DEF inboxData, InboxInv, InboxTyped, InboxTypeOK
    <2>4. InboxIsQueue' /\ NothingVanishes'
      BY <2>1 DEF inboxData, InboxInv, InboxIsQueue, NothingVanishes
    <2> QED
      BY <2>2, <2>3, <2>4 DEF InboxInv
  <1>2. CASE DrainEnd
    <2>1. timing_count = 0 /\ timing_dropped \in Int /\ owed \in Int
      BY <1>2, InboxAssumption DEF DrainEnd, MoreToDrain, InboxInv, InboxTyped, InboxTypeOK
    <2>2. InboxTyped'
      <3>1. owed' \in Int
        BY <1>2, <2>1 DEF DrainEnd
      <3>2. timing_dropped' \in 0 .. DROPPED_MAX
        BY <1>2, InboxAssumption DEF DrainEnd
      <3>3. draining' \in BOOLEAN
        BY <1>2 DEF DrainEnd
      <3> QED
        BY <1>2, <3>1, <3>2, <3>3 DEF DrainEnd, InboxInv, InboxTyped, InboxTypeOK
    <2>3. InboxIsQueue'
      BY <1>2 DEF DrainEnd, InboxInv, InboxIsQueue
    <2>4. NothingVanishes'
      <3>1. /\ timing_count' = timing_count /\ timing_dropped' = 0 /\ saturated' = saturated
            /\ owed' = owed - timing_dropped
        BY <1>2 DEF DrainEnd
      <3>2. ~saturated => owed = timing_count + timing_dropped
        BY DEF InboxInv, NothingVanishes
      <3> QED
        BY <2>1, <3>1, <3>2 DEF NothingVanishes
    <2>5. InboxServed'
      BY <1>2, <2>1 DEF DrainEnd, InboxServed
    <2> QED
      BY <2>2, <2>3, <2>4, <2>5 DEF InboxInv
  <1> QED
    BY <1>1, <1>2

\* Steps that leave the inbox alone.
LEMMA InboxFrame ==
    ASSUME InboxInv, UNCHANGED inboxVars
    PROVE  InboxInv'
  <1> USE DEF inboxVars, inboxData
  <1>1. InboxTyped'
    BY DEF InboxInv, InboxTyped, InboxTypeOK
  <1>2. InboxIsQueue' /\ NothingVanishes' /\ InboxServed'
    BY DEF InboxInv, InboxIsQueue, NothingVanishes, InboxServed
  <1> QED
    BY <1>1, <1>2 DEF InboxInv

-----------------------------------------------------------------------------
(* The hooks that fill it.                                                 *)

HookInv ==
    /\ hooks \in [SecThreads -> Seq(Hooks)]
    /\ rx_queue \in Seq(Exchanges)

\* A hook's captures are records of its exchange.
LEMMA CapturesTyped ==
    ASSUME NEW n \in Exchanges, NEW stages \in Seq(HookNames)
    PROVE  Captures(n, stages) \in Seq(Hooks)
  <1>1. Len(stages) \in Nat /\ DOMAIN stages = 1 .. Len(stages)
    OBVIOUS
  <1>2. \A i \in 1 .. Len(stages) : stages[i] \in HookNames
    OBVIOUS
  <1>3. Captures(n, stages) \in [1 .. Len(stages) -> Hooks]
    BY <1>1, <1>2 DEF Captures, Hooks
  <1> QED
    BY <1>1, <1>3

\* What the hooks of each kind capture.
LEMMA HandlingTyped ==
    /\ Stages("request") \in Seq(HookNames)
    /\ \A k : Handling(k) \in Seq(HookNames)
  <1>1. Stages("request") = <<"request", "requested">>
    BY DEF Stages
  <1>2. <<"request", "requested">> \in Seq(HookNames)
    BY DEF HookNames
  <1>3. LtkHandling \in Seq(HookNames)
    BY DEF HookNames, LtkHandling
  <1>4. EncryptHandling \in Seq(HookNames)
    BY DEF HookNames, EncryptHandling
  <1>5. RefusalHandling \in Seq(HookNames)
    BY DEF HookNames, RefusalHandling
  <1> QED
    BY <1>1, <1>2, <1>3, <1>4, <1>5 DEF Handling

\* The put of an event is observed and then made.
LEMMA PutTyped ==
    ASSUME NEW n \in Exchanges
    PROVE  slist_put(n) \in Seq(Hooks)
  BY DEF slist_put, Hooks, HookNames

\* The Bluetooth threads and the interrupts keep the hooks typed and the inbox
\* sound.
LEMMA PairingKeeps ==
    ASSUME InboxInv, HookInv, Pairing
    PROVE  InboxInv' /\ HookInv'
  <1>1. ASSUME NEW n \in Exchanges, SecurityRequest(n) PROVE InboxInv' /\ HookInv'
    <2>1. Captures(n, Stages("request")) \in Seq(Hooks)
      BY CapturesTyped, HandlingTyped
    <2>2. HookInv'
      BY <1>1, <2>1 DEF SecurityRequest, HookInv, SecThreads
    <2> QED
      BY <1>1, <2>2, InboxFrame DEF SecurityRequest
  <1>2. ASSUME NEW n \in Exchanges, LtkRequested(n) PROVE InboxInv' /\ HookInv'
    <2>1. slist_put(n) \in Seq(Hooks) /\ <<n, "received">> \in Hooks
      BY PutTyped DEF Hooks, HookNames
    <2>2. HookInv'
      BY <1>2, <2>1 DEF LtkRequested, HookInv, SecThreads
    <2>3. CaptureInIsr(<<n, "received">>)
      BY <1>2 DEF LtkRequested
    <2> QED
      BY <2>1, <2>2, <2>3, CaptureKeeps
  <1>3. ASSUME NEW n \in Exchanges, EncryptionChanged(n) PROVE InboxInv' /\ HookInv'
    <2>1. HookInv'
      BY <1>3, PutTyped DEF EncryptionChanged, HookInv, SecThreads
    <2> QED
      BY <1>3, <2>1, InboxFrame DEF EncryptionChanged
  <1>4. CASE TakeEvent
    <2>1. Head(rx_queue) \in Exchanges /\ Tail(rx_queue) \in Seq(Exchanges)
      BY <1>4 DEF TakeEvent, HookInv
    <2>2. Captures(Head(rx_queue), Handling(kind[Head(rx_queue)])) \in Seq(Hooks)
      BY <2>1, CapturesTyped, HandlingTyped
    <2>3. HookInv'
      BY <1>4, <2>1, <2>2 DEF TakeEvent, HookInv, SecThreads
    <2> QED
      BY <1>4, <2>3, InboxFrame DEF TakeEvent
  <1>5. ASSUME NEW t \in SecThreads, HookStep(t) PROVE InboxInv' /\ HookInv'
    <2>1. Head(hooks[t]) \in Hooks /\ Tail(hooks[t]) \in Seq(Hooks)
      BY <1>5 DEF HookStep, HookInv
    <2>2. Head(hooks[t])[1] \in Exchanges
      BY <2>1 DEF Hooks
    <2>3. HookInv'
      <3>1. hooks' \in [SecThreads -> Seq(Hooks)]
        BY <1>5, <2>1 DEF HookStep, HookInv
      <3>2. rx_queue' \in Seq(Exchanges)
        <4>1. rx_queue' = rx_queue \/ rx_queue' = Append(rx_queue, Head(hooks[t])[1])
          BY <1>5 DEF HookStep
        <4> QED
          BY <4>1, <2>2 DEF HookInv
      <3> QED
        BY <3>1, <3>2 DEF HookInv
    <2>4. UNCHANGED inboxVars \/ Capture(t, Head(hooks[t]))
      BY <1>5 DEF HookStep
    <2> QED
      BY <2>1, <2>3, <2>4, InboxFrame, CaptureKeeps
  <1>6. ASSUME NEW t \in SecThreads, Submit(t), UNCHANGED securityVars PROVE InboxInv' /\ HookInv'
    <2>1. HookInv'
      BY <1>6 DEF HookInv, securityVars
    <2> QED
      BY <1>6, <2>1, ServeKeeps
  <1> QED
    BY <1>1, <1>2, <1>3, <1>4, <1>5, <1>6 DEF Pairing

-----------------------------------------------------------------------------
(* The counters.                                                           *)

\* The fourteen stages have fourteen names.
LEMMA StagesDistinct ==
    /\ Len(StageNames) = 14
    /\ \A a \in 1 .. 14 : StageNames[a] \in HidStages
    /\ \A a, b \in 1 .. 14 : StageNames[a] = StageNames[b] => a = b
  <1>1. Len(StageNames) = 14 /\ DOMAIN StageNames = 1 .. 14
    BY DEF StageNames
  <1>2. \A a, b \in 1 .. 14 : StageNames[a] = StageNames[b] => a = b
    BY DEF StageNames
  <1> QED
    BY <1>1, <1>2 DEF HidStages

\* flush_counts visits counters, and no counter twice.
LEMMA AtCounter ==
    ASSUME NEW i \in 0 .. Order - 1
    PROVE  At(i) \in Counters
  <1>1. i \in Nat /\ i < 14 * PROFILE_COUNT /\ PROFILE_COUNT \in Nat
    BY HidAssumption, StagesDistinct DEF Order
  <1>2. i \div 14 \in Profiles /\ (i % 14) + 1 \in 1 .. 14
    BY <1>1 DEF Profiles
  <1> QED
    BY <1>2, StagesDistinct DEF At, Counters

\* Each counter has one turn.
LEMMA AtInjective ==
    ASSUME NEW i \in 0 .. Order - 1, NEW j \in 0 .. Order - 1, At(i) = At(j)
    PROVE  i = j
  <1>1. i \in Nat /\ j \in Nat
    BY HidAssumption, StagesDistinct DEF Order
  <1>2. i \div 14 = j \div 14 /\ StageNames[(i % 14) + 1] = StageNames[(j % 14) + 1]
    BY StagesDistinct DEF At
  <1>3. (i % 14) + 1 \in 1 .. 14 /\ (j % 14) + 1 \in 1 .. 14
    BY <1>1
  <1>4. (i % 14) + 1 = (j % 14) + 1
    BY <1>2, <1>3, StagesDistinct
  <1> QED
    BY <1>1, <1>2, <1>4

Totals == 0 .. TOTAL_MOD - 1
CounterStates == [total: Totals, dirty: BOOLEAN, error: BOOLEAN]
Events == Counters \X BOOLEAN

\* HidTypeOK, part by part.
CountType ==
    counts \in [Counters -> CounterStates] /\ recorded \in [Counters -> Totals]
TodoType == todo \in [HidThreads -> Seq(Events)]
FlushType ==
    to_schedule \subseteq HidThreads /\ summary_scheduled \in BOOLEAN /\ flush \in 0 .. Order
HookType ==
    /\ msgq \in Seq(BOOLEAN) /\ Len(msgq) <= HOG_QUEUE
    /\ active \in Profiles /\ notify_profile \in Profiles \cup {-1} /\ conn \in Profiles \cup {NoConn}
    /\ put \in [pc: {"idle", "wait", "evict", "again"}, profile: Profiles, up: BOOLEAN]
    /\ dequeued_report \in BOOLEAN /\ all_up_report \in BOOLEAN /\ keyboard_notify \in BOOLEAN
    /\ unmapped \in Totals /\ uncounted_up \in Totals

HidInv == CountType /\ TodoType /\ FlushType /\ HookType /\ CountsReported

\* Nothing is counted at the start.
LEMMA HidInitInv == HidInit => HidInv
  <1> SUFFICES ASSUME HidInit PROVE HidInv
    OBVIOUS
  <1>0. 0 \in Totals /\ 0 \in Profiles
    BY HidAssumption DEF Totals, Profiles
  <1>1. CountType
    <2>1. [total |-> 0, dirty |-> FALSE, error |-> FALSE] \in CounterStates
      BY <1>0 DEF CounterStates
    <2> QED
      BY <1>0, <2>1 DEF HidInit, CountType
  <1>2. TodoType
    BY DEF HidInit, TodoType
  <1>3. FlushType
    <2>1. Order \in 0 .. Order
      BY HidAssumption, StagesDistinct DEF Order
    <2> QED
      BY <2>1 DEF HidInit, FlushType
  <1>4. HookType
    <2>1. msgq \in Seq(BOOLEAN) /\ Len(msgq) <= HOG_QUEUE
      BY HidAssumption DEF HidInit
    <2>2. put \in [pc: {"idle", "wait", "evict", "again"}, profile: Profiles, up: BOOLEAN]
      BY <1>0 DEF HidInit, NoPut
    <2>3. /\ active \in Profiles /\ notify_profile \in Profiles \cup {-1} /\ conn \in Profiles \cup {NoConn}
          /\ unmapped \in Totals /\ uncounted_up \in Totals
      BY <1>0 DEF HidInit
    <2>4. dequeued_report \in BOOLEAN /\ all_up_report \in BOOLEAN /\ keyboard_notify \in BOOLEAN
      BY DEF HidInit
    <2> QED
      BY <2>1, <2>2, <2>3, <2>4 DEF HookType
  <1>5. CountsReported
    BY AtCounter DEF HidInit, CountsReported
  <1> QED
    BY <1>1, <1>2, <1>3, <1>4, <1>5 DEF HidInv

\* Hooks change neither the counters nor the summary's state.
LEMMA CountsFrame ==
    ASSUME CountType, FlushType, CountsReported,
           UNCHANGED <<counts, to_schedule, summary_scheduled, flush, recorded>>
    PROVE  CountType' /\ FlushType' /\ CountsReported'
  BY DEF CountType, FlushType, CountsReported

\* The calls of count_event that a hook makes.
LEMMA EventTyped ==
    ASSUME NEW p, NEW stage \in HidStages, NEW err \in BOOLEAN, NEW cond \in BOOLEAN
    PROVE  Event(p, stage, err) \in Seq(Events) /\ EventIf(cond, p, stage, err) \in Seq(Events)
  <1>1. Event(p, stage, err) \in Seq(Events)
    <2>1. CASE p \in Profiles
      BY <2>1 DEF Event, Events, Counters
    <2>2. CASE p \notin Profiles
      BY <2>2 DEF Event
    <2> QED
      BY <2>1, <2>2
  <1>2. <<>> \in Seq(Events)
    OBVIOUS
  <1> QED
    BY <1>1, <1>2 DEF EventIf

\* The names that the hooks use are stages.
LEMMA StageTyped ==
    {"RELEASE_OK", "RELEASE_FAILED", "QUEUED", "QUEUE_FAILED", "DEQUEUED", "EVICTED", "NO_HOST_DROP",
     "NOTIFY_ACCEPTED", "NOTIFY_FAILED", "UNSUBSCRIBED", "ALL_UP_QUEUED", "ALL_UP_ACCEPTED",
     "ALL_UP_EVICTED", "ALL_UP_FAILED"} \subseteq HidStages
  <1>1. /\ StageNames[1] = "RELEASE_OK" /\ StageNames[2] = "RELEASE_FAILED"
        /\ StageNames[3] = "QUEUED" /\ StageNames[4] = "QUEUE_FAILED" /\ StageNames[5] = "DEQUEUED"
        /\ StageNames[6] = "EVICTED" /\ StageNames[7] = "NO_HOST_DROP"
        /\ StageNames[8] = "NOTIFY_ACCEPTED" /\ StageNames[9] = "NOTIFY_FAILED"
        /\ StageNames[10] = "UNSUBSCRIBED" /\ StageNames[11] = "ALL_UP_QUEUED"
        /\ StageNames[12] = "ALL_UP_ACCEPTED" /\ StageNames[13] = "ALL_UP_EVICTED"
        /\ StageNames[14] = "ALL_UP_FAILED"
    BY DEF StageNames
  <1>2. \A a \in 1 .. 14 : StageNames[a] \in HidStages
    BY StagesDistinct
  <1> QED
    BY <1>1, <1>2

\* Two hooks' calls in a row.
LEMMA TwoEvents ==
    ASSUME NEW s \in Seq(Events), NEW u \in Seq(Events)
    PROVE  s \o u \in Seq(Events)
  BY ConcatProperties

\* A hook that makes such calls, whatever it does to its own variables.
LEMMA CallsKeeps ==
    ASSUME HidInv, NEW t \in HidThreads, NEW events \in Seq(Events), Calls(t, events), HookType'
    PROVE  HidInv'
  <1>1. TodoType'
    BY DEF HidInv, TodoType, Calls
  <1>2. CountType' /\ FlushType' /\ CountsReported'
    BY CountsFrame DEF HidInv, Calls
  <1> QED
    BY <1>1, <1>2 DEF HidInv

\* count_event marks its counter and schedules the summary.
LEMMA CountEventKeeps ==
    ASSUME HidInv, NEW t \in HidThreads, CountEvent(t)
    PROVE  HidInv'
  <1> DEFINE k == Head(todo[t])[1]
             err == Head(todo[t])[2]
  <1>1. Head(todo[t]) \in Events /\ Tail(todo[t]) \in Seq(Events)
    BY DEF CountEvent, HidInv, TodoType
  <1>2. k \in Counters /\ err \in BOOLEAN
    BY <1>1 DEF Events
  <1>3. counts' = [counts EXCEPT ![k] = Count(counts[k], err)]
    BY DEF CountEvent
  <1> HIDE DEF k, err
  <1>4. Count(counts[k], err) \in CounterStates /\ Count(counts[k], err).dirty = TRUE
    <2>1. counts[k] \in CounterStates
      BY <1>2 DEF HidInv, CountType
    <2>2. (counts[k].total + 1) % TOTAL_MOD \in Totals
      BY <2>1, HidAssumption DEF CounterStates, Totals
    <2>3. (counts[k].error \/ err) \in BOOLEAN
      OBVIOUS
    <2> QED
      BY <2>2, <2>3 DEF CounterStates, Count
  <1>5. CountType'
    BY <1>2, <1>3, <1>4 DEF CountEvent, HidInv, CountType
  <1>6. TodoType'
    BY <1>1 DEF CountEvent, HidInv, TodoType
  <1>7. FlushType' /\ to_schedule' # {}
    BY DEF CountEvent, HidInv, FlushType
  <1>8. HookType'
    BY DEF CountEvent, HidInv, HookType, hookVars
  <1>9. CountsReported'
    <2>1. ASSUME NEW i \in 0 .. Order - 1
          PROVE  (recorded[At(i)] # counts'[At(i)].total \/ counts'[At(i)].error) => counts'[At(i)].dirty
      <3>1. CASE At(i) = k
        BY <3>1, <1>2, <1>3, <1>4 DEF HidInv, CountType
      <3>2. CASE At(i) # k
        <4>1. counts'[At(i)] = counts[At(i)]
          BY <3>2, <1>3, AtCounter DEF HidInv, CountType
        <4> QED
          BY <4>1 DEF HidInv, CountsReported
      <3> QED
        BY <3>1, <3>2
    <2>2. recorded' = recorded
      BY DEF CountEvent
    <2> QED
      BY <1>7, <2>1, <2>2 DEF CountsReported
  <1> QED
    BY <1>5, <1>6, <1>7, <1>8, <1>9 DEF HidInv

\* k_work_schedule after the unlock, and the start of flush_counts.
LEMMA ScheduleKeeps ==
    ASSUME HidInv, FlushStart \/ \E t \in HidThreads : Schedule(t)
    PROVE  HidInv'
  <1>0. UNCHANGED <<counts, recorded, todo, hookVars>>
    BY DEF FlushStart, Schedule
  <1>1. CountType' /\ TodoType' /\ HookType'
    BY <1>0 DEF HidInv, CountType, TodoType, HookType, hookVars
  <1>2. FlushType'
    <2>1. 0 \in 0 .. Order
      BY HidAssumption, StagesDistinct DEF Order
    <2>2. CASE FlushStart
      BY <2>1, <2>2 DEF FlushStart, HidInv, FlushType
    <2>3. CASE \E t \in HidThreads : Schedule(t)
      BY <2>3 DEF Schedule, Scheduled, HidInv, FlushType
    <2> QED
      BY <2>2, <2>3
  <1>3. CountsReported'
    <2>1. summary_scheduled' \/ flush' = 0
      BY DEF FlushStart, Schedule, Scheduled
    <2> QED
      BY <1>0, <2>1 DEF HidInv, CountsReported
  <1> QED
    BY <1>1, <1>2, <1>3 DEF HidInv

\* flush_counts reports a dirty counter.  No other one is cleaned with it.
LEMMA FlushOneKeeps ==
    ASSUME HidInv, FlushOne
    PROVE  HidInv'
  <1>0. flush \in 0 .. Order - 1 /\ Order \in Nat
    BY HidAssumption, StagesDistinct DEF FlushOne, Flushing, HidInv, FlushType, Order
  <1> DEFINE k == At(flush)
  <1>1. k \in Counters
    BY <1>0, AtCounter
  <1>2. /\ counts' = [counts EXCEPT ![k].dirty = FALSE, ![k].error = FALSE]
        /\ recorded' = [recorded EXCEPT ![k] = counts[k].total]
    BY DEF FlushOne, Copied
  <1>3. \A j \in 0 .. Order - 1 : At(j) = k => j = flush
    BY <1>0, AtInjective
  <1> HIDE DEF k
  <1>4. counts[k] \in CounterStates
    BY <1>1 DEF HidInv, CountType
  <1>5. /\ counts'[k] \in CounterStates /\ counts'[k].total = counts[k].total
        /\ counts'[k].dirty = FALSE /\ counts'[k].error = FALSE
        /\ \A c \in Counters : c # k => counts'[c] = counts[c]
    <2>1. \A c \in Counters : c # k => counts'[c] = counts[c]
      BY <1>2 DEF HidInv, CountType
    <2>2. counts'[k] = [counts[k] EXCEPT !.dirty = FALSE, !.error = FALSE]
      BY <1>1, <1>2 DEF HidInv, CountType
    <2>3. ASSUME NEW r \in CounterStates
          PROVE  LET q == [r EXCEPT !.dirty = FALSE, !.error = FALSE]
                 IN  q \in CounterStates /\ q.total = r.total /\ q.dirty = FALSE /\ q.error = FALSE
      BY DEF CounterStates
    <2> QED
      BY <1>4, <2>1, <2>2, <2>3
  <1>6. CountType'
    <2>1. counts'[k] \in CounterStates /\ counts[k].total \in Totals
      BY <1>4, <1>5 DEF CounterStates
    <2>2. \A c \in Counters : counts'[c] \in CounterStates
      BY <1>5, <2>1 DEF HidInv, CountType
    <2>3. counts' \in [Counters -> CounterStates]
      BY <1>2, <2>2 DEF HidInv, CountType
    <2>4. recorded' \in [Counters -> Totals]
      BY <1>2, <2>1 DEF HidInv, CountType
    <2> QED
      BY <2>3, <2>4 DEF CountType
  <1>7. TodoType' /\ HookType'
    BY DEF FlushOne, HidInv, TodoType, HookType, hookVars
  <1>8. FlushType'
    BY <1>0 DEF FlushOne, HidInv, FlushType
  <1>9. CountsReported'
    <2>1. ASSUME NEW i \in 0 .. Order - 1
          PROVE  /\ recorded'[At(i)] # counts'[At(i)].total \/ counts'[At(i)].error
                       => counts'[At(i)].dirty
                 /\ counts'[At(i)].dirty => summary_scheduled \/ to_schedule # {} \/ flush + 1 <= i
      <3>1. CASE At(i) = k
        BY <3>1, <1>1, <1>2, <1>5 DEF HidInv, CountType
      <3>2. CASE At(i) # k
        <4>1. counts'[At(i)] = counts[At(i)] /\ recorded'[At(i)] = recorded[At(i)]
          BY <3>2, <1>2, <1>5, AtCounter DEF HidInv, CountType
        <4>2. i # flush
          BY <3>2 DEF k
        <4>3. flush <= i => flush + 1 <= i
          BY <4>2, <1>0
        <4> QED
          BY <4>1, <4>3 DEF HidInv, CountsReported
      <3> QED
        BY <3>1, <3>2
    <2> QED
      BY <2>1 DEF FlushOne, CountsReported
  <1> QED
    BY <1>6, <1>7, <1>8, <1>9 DEF HidInv

\* It passes clean counters.
LEMMA FlushPassKeeps ==
    ASSUME HidInv, FlushPass
    PROVE  HidInv'
  <1>0. Order \in Nat /\ flush \in Nat
    BY HidAssumption, StagesDistinct DEF HidInv, FlushType, Order
  <1>1. PICK m \in flush + 1 .. Order :
          /\ \A j \in flush .. m - 1 : ~counts[At(j)].dirty
          /\ flush' = m
    BY DEF FlushPass
  <1>2. CountType' /\ TodoType' /\ HookType'
    BY DEF FlushPass, HidInv, CountType, TodoType, HookType, hookVars
  <1>3. FlushType'
    BY <1>0, <1>1 DEF FlushPass, HidInv, FlushType
  <1>4. CountsReported'
    <2>1. ASSUME NEW i \in 0 .. Order - 1, counts[At(i)].dirty, flush <= i
          PROVE  m <= i
      <3>1. i \notin flush .. m - 1
        BY <1>1, <2>1
      <3> QED
        BY <3>1, <1>0, <1>1, <2>1
    <2> QED
      BY <1>1, <2>1 DEF FlushPass, HidInv, CountsReported
  <1> QED
    BY <1>2, <1>3, <1>4 DEF HidInv

\* One if b holds.
OneIf(b) == IF b THEN 1 ELSE 0

\* What a notification adds to the histories, which count modulo TOTAL_MOD too.
LEMMA HistoriesCounted ==
    ASSUME HookType, NEW err, Notify(err)
    PROVE  LET lost == OneIf(notify_profile \notin Profiles)
               up == OneIf(all_up_report /\ notify_profile \notin Profiles)
           IN  /\ unmapped' \in Totals /\ uncounted_up' \in Totals
               /\ unmapped' = unmapped + lost \/ unmapped' = unmapped + lost - TOTAL_MOD
               /\ uncounted_up' = uncounted_up + up \/ uncounted_up' = uncounted_up + up - TOTAL_MOD
  <1> DEFINE lost == OneIf(notify_profile \notin Profiles)
             up == OneIf(all_up_report /\ notify_profile \notin Profiles)
  <1>1. unmapped \in 0 .. TOTAL_MOD - 1 /\ uncounted_up \in 0 .. TOTAL_MOD - 1
        /\ TOTAL_MOD \in Nat \ {0}
    BY HidAssumption DEF HookType, Totals
  <1>2. unmapped' = (unmapped + lost) % TOTAL_MOD /\ uncounted_up' = (uncounted_up + up) % TOTAL_MOD
    BY DEF Notify, OneIf
  <1>3. lost \in 0 .. 1 /\ up \in 0 .. 1
    BY DEF OneIf
  <1> HIDE DEF lost, up
  <1>4. ASSUME NEW x \in 0 .. TOTAL_MOD - 1, NEW k \in 0 .. 1
        PROVE  /\ (x + k) % TOTAL_MOD \in 0 .. TOTAL_MOD - 1
               /\ (x + k) % TOTAL_MOD = x + k \/ (x + k) % TOTAL_MOD = x + k - TOTAL_MOD
    <2>1. k \in 0 .. TOTAL_MOD
      BY <1>1
    <2>2. (x + k) % TOTAL_MOD = IF x + k < TOTAL_MOD THEN x + k ELSE x + k - TOTAL_MOD
      BY <1>1, <2>1, WrappedAt
    <2> QED
      BY <1>1, <2>2
  <1>5. /\ unmapped' \in Totals /\ uncounted_up' \in Totals
        /\ unmapped' = unmapped + lost \/ unmapped' = unmapped + lost - TOTAL_MOD
        /\ uncounted_up' = uncounted_up + up \/ uncounted_up' = uncounted_up + up - TOTAL_MOD
    BY <1>1, <1>2, <1>3, <1>4 DEF Totals
  <1> QED
    BY <1>5 DEF lost, up

\* The hooks of the key thread and the HOG worker.
LEMMA HooksKeep ==
    ASSUME HidInv,
           \/ \E err \in BOOLEAN : Release(err)
           \/ \E up \in BOOLEAN : PutStart(up)
           \/ \E p \in Profiles : Select(p)
           \/ HidWorker \/ HidKeys
    PROVE  HidInv'
  <1> USE DEF HidThreads
  <1>1. ASSUME NEW err \in BOOLEAN, Release(err) PROVE HidInv'
    <2>1. HookType'
      BY <1>1 DEF Release, hookVars, HidInv, HookType
    <2>2. Event(active, IF err THEN "RELEASE_FAILED" ELSE "RELEASE_OK", err) \in Seq(Events)
      BY EventTyped, StageTyped DEF HidInv, HookType
    <2> QED
      BY <1>1, <2>1, <2>2, CallsKeeps DEF Release
  <1>2. ASSUME NEW up \in BOOLEAN, PutStart(up) PROVE HidInv'
    <2>1. put' \in [pc: {"idle", "wait", "evict", "again"}, profile: Profiles, up: BOOLEAN]
      BY <1>2 DEF PutStart, HidInv, HookType
    <2>2. HookType' /\ TodoType'
      BY <1>2, <2>1 DEF PutStart, HidInv, HookType, TodoType
    <2>3. CountType' /\ FlushType' /\ CountsReported'
      BY <1>2, CountsFrame DEF PutStart, HidInv
    <2> QED
      BY <2>2, <2>3 DEF HidInv
  <1>3. ASSUME NEW p \in Profiles, Select(p) PROVE HidInv'
    <2>1. HookType' /\ TodoType'
      BY <1>3 DEF Select, HidInv, HookType, TodoType
    <2>2. CountType' /\ FlushType' /\ CountsReported'
      BY <1>3, CountsFrame DEF Select, HidInv
    <2> QED
      BY <2>1, <2>2 DEF HidInv
  <1>4. CASE PutDone
    <2>1. msgq' \in Seq(BOOLEAN) /\ Len(msgq') <= HOG_QUEUE
      BY <1>4, HidAssumption DEF PutDone, HidInv, HookType
    <2>2. put' \in [pc: {"idle", "wait", "evict", "again"}, profile: Profiles, up: BOOLEAN]
      BY <1>4, HidAssumption DEF PutDone, NoPut, Profiles
    <2>3. HookType'
      BY <1>4, <2>1, <2>2 DEF PutDone, HidInv, HookType
    <2>4. put.profile \in Profiles /\ put.up \in BOOLEAN
      BY DEF HidInv, HookType
    <2>5. /\ Event(put.profile, "QUEUED", FALSE) \in Seq(Events)
          /\ EventIf(put.up, put.profile, "ALL_UP_QUEUED", FALSE) \in Seq(Events)
      BY <2>4, EventTyped, StageTyped
    <2> QED
      BY <1>4, <2>3, <2>5, TwoEvents, CallsKeeps DEF PutDone
  <1>5. CASE PutFailed
    <2>1. put' \in [pc: {"idle", "wait", "evict", "again"}, profile: Profiles, up: BOOLEAN]
      BY <1>5 DEF PutFailed, HidInv, HookType
    <2>2. HookType'
      BY <1>5, <2>1 DEF PutFailed, HidInv, HookType
    <2>3. put.profile \in Profiles
      BY DEF HidInv, HookType
    <2>4. Event(put.profile, "QUEUE_FAILED", TRUE) \in Seq(Events)
      BY <2>3, EventTyped, StageTyped
    <2> QED
      BY <1>5, <2>2, <2>4, CallsKeeps DEF PutFailed
  <1>6. CASE Evict
    <2>1. put' \in [pc: {"idle", "wait", "evict", "again"}, profile: Profiles, up: BOOLEAN]
      BY <1>6 DEF Evict, HidInv, HookType
    <2>2. msgq' \in Seq(BOOLEAN) /\ Len(msgq') <= HOG_QUEUE
      <3>1. msgq \in Seq(BOOLEAN) /\ Len(msgq) <= HOG_QUEUE /\ HOG_QUEUE \in Nat
        BY HidAssumption DEF HidInv, HookType
      <3>2. msgq' = msgq \/ (msgq # <<>> /\ msgq' = Tail(msgq))
        BY <1>6 DEF Evict
      <3> QED
        BY <3>1, <3>2
    <2>3. HookType'
      BY <1>6, <2>1, <2>2 DEF Evict, HidInv, HookType
    <2>4. msgq # <<>> => Head(msgq) \in BOOLEAN
      BY DEF HidInv, HookType
    <2>5. active \in Profiles
      BY DEF HidInv, HookType
    <2>6. /\ Event(active, GetStage(FALSE), FALSE) \in Seq(Events)
          /\ msgq # <<>> => EventIf(Head(msgq), active, "ALL_UP_EVICTED", FALSE) \in Seq(Events)
      BY <2>4, <2>5, EventTyped, StageTyped DEF GetStage
    <2>7. CASE msgq = <<>>
      <3>1. Calls("keys", <<>>) /\ <<>> \in Seq(Events)
        BY <1>6, <2>7 DEF Evict
      <3> QED
        BY <2>3, <3>1, CallsKeeps
    <2>8. CASE msgq # <<>>
      BY <1>6, <2>8, <2>3, <2>6, TwoEvents, CallsKeeps DEF Evict
    <2> QED
      BY <2>7, <2>8
  <1>7. CASE Dequeue
    <2>1. Head(msgq) \in BOOLEAN /\ msgq' \in Seq(BOOLEAN) /\ Len(msgq') <= HOG_QUEUE
      BY <1>7, HidAssumption DEF Dequeue, HidInv, HookType
    <2>2. HookType'
      BY <1>7, <2>1 DEF Dequeue, UpNow, HidInv, HookType
    <2>3. Event(active, GetStage(TRUE), FALSE) \in Seq(Events)
      BY EventTyped, StageTyped DEF GetStage, HidInv, HookType
    <2> QED
      BY <1>7, <2>2, <2>3, CallsKeeps DEF Dequeue
  <1>8. CASE NoHost
    <2>1. uncounted_up' \in Totals
      <3>1. uncounted_up \in Nat /\ (IF dequeued_report /\ all_up_report THEN 1 ELSE 0) \in Nat
        BY HidAssumption DEF HidInv, HookType, Totals
      <3>2. \A x \in Nat : x % TOTAL_MOD \in Totals
        BY HidAssumption DEF Totals
      <3>3. uncounted_up + (IF dequeued_report /\ all_up_report THEN 1 ELSE 0) \in Nat
        BY <3>1
      <3> QED
        BY <1>8, <3>2, <3>3 DEF NoHost
    <2>2. HookType'
      BY <1>8, <2>1 DEF NoHost, HidInv, HookType
    <2>3. EventIf(dequeued_report, active, "NO_HOST_DROP", FALSE) \in Seq(Events)
      BY EventTyped, StageTyped DEF HidInv, HookType
    <2> QED
      BY <1>8, <2>2, <2>3, CallsKeeps DEF NoHost
  <1>9. ASSUME NEW subscribed \in BOOLEAN, Observed(subscribed) PROVE HidInv'
    <2>1. HookType'
      <3>1. notify_profile' \in Profiles \cup {-1} /\ conn' \in Profiles \cup {NoConn}
        BY <1>9 DEF Observed, NoConn, HidInv, HookType
      <3> QED
        BY <1>9, <3>1 DEF Observed, HidInv, HookType
    <2>2. EventIf(~subscribed, notify_profile', "UNSUBSCRIBED", FALSE) \in Seq(Events)
      BY EventTyped, StageTyped
    <2> QED
      BY <1>9, <2>1, <2>2, CallsKeeps DEF Observed
  <1>10. ASSUME NEW err \in BOOLEAN, Notify(err) PROVE HidInv'
    <2>1. HookType'
      <3>1. unmapped' \in Totals /\ uncounted_up' \in Totals
        BY <1>10, HistoriesCounted DEF HidInv
      <3> QED
        BY <1>10, <3>1 DEF Notify, HidInv, HookType
    <2>2. all_up_report \in BOOLEAN
      BY DEF HidInv, HookType
    <2>3. /\ (IF err THEN "NOTIFY_FAILED" ELSE "NOTIFY_ACCEPTED") \in HidStages
          /\ (IF err THEN "ALL_UP_FAILED" ELSE "ALL_UP_ACCEPTED") \in HidStages
      BY StageTyped
    <2>4. /\ Event(notify_profile, IF err THEN "NOTIFY_FAILED" ELSE "NOTIFY_ACCEPTED", err) \in Seq(Events)
          /\ EventIf(all_up_report, notify_profile,
                     IF err THEN "ALL_UP_FAILED" ELSE "ALL_UP_ACCEPTED", err) \in Seq(Events)
      BY <2>2, <2>3, EventTyped
    <2> QED
      BY <1>10, <2>1, <2>4, TwoEvents, CallsKeeps DEF Notify
  <1>11. put.up \in BOOLEAN
    BY DEF HidInv, HookType
  <1>12. CASE HostFound
    <2>1. HookType' /\ TodoType'
      BY <1>12 DEF HostFound, HidInv, HookType, TodoType
    <2>2. CountType' /\ FlushType' /\ CountsReported'
      BY <1>12, CountsFrame DEF HostFound, HidInv
    <2> QED
      BY <2>1, <2>2 DEF HidInv
  <1> QED
    BY <1>1, <1>2, <1>3, <1>4, <1>5, <1>6, <1>7, <1>8, <1>9, <1>10, <1>11, <1>12
    DEF HidWorker, HidKeys, PutAgain

\* Steps that leave the counters and their hooks alone.
LEMMA HidFrame ==
    ASSUME HidInv, UNCHANGED hidVars
    PROVE  HidInv'
  <1>1. TodoType' /\ HookType'
    BY DEF HidInv, TodoType, HookType, hidVars
  <1>2. CountType' /\ FlushType' /\ CountsReported'
    BY CountsFrame DEF HidInv, hidVars
  <1> QED
    BY <1>1, <1>2 DEF HidInv

-----------------------------------------------------------------------------
(* How many calls and units there are.                                     *)

\* The units of a stage in c; the places in q of calls for a stage s; those of the
\* all-up reports.
UnitsOf(c, s) == {u \in Profiles \X Totals : u[2] < c[<<u[1], s>>].total}
Calling(q, s) == {i \in DOMAIN q : q[i][1][2] = s}
Ups(q) == {i \in DOMAIN q : q[i]}

\* The one multiple of m from 0 to m - 1 is 0.
LEMMA OnlyZero ==
    ASSUME NEW m \in Nat \ {0}, NEW e \in Int, 0 <= m * e, m * e < m
    PROVE  m * e = 0
  <1>1. CASE e = 0
    BY <1>1
  <1>2. CASE e >= 1
    BY <1>2
  <1>3. CASE e <= -1
    BY <1>3
  <1> QED
    BY <1>1, <1>2, <1>3

\* So a balance that is zero modulo m stays so.
LEMMA SameRemainder ==
    ASSUME NEW m \in Nat \ {0}, NEW x \in Int, x % m = 0, NEW y, y = x \/ y = x + m \/ y = x - m
    PROVE  y % m = 0
  <1> DEFINE q == x \div m
             d == y \div m
             r == y % m
  <1>1. y \in Int
    OBVIOUS
  <1>2. q \in Int /\ x = m * q
    OBVIOUS
  <1>3. d \in Int /\ r \in Int /\ y = m * d + r /\ 0 <= r /\ r < m
    BY <1>1
  <1> HIDE DEF q, d, r
  <1>4. PICK e \in Int : r = m * e
    <2>1. CASE y = x
      <3>1. r = m * (q - d) /\ q - d \in Int
        BY <1>2, <1>3, <2>1
      <3> QED
        BY <3>1
    <2>2. CASE y = x + m
      <3>1. r = m * (q + 1 - d) /\ q + 1 - d \in Int
        BY <1>2, <1>3, <2>2
      <3> QED
        BY <3>1
    <2>3. CASE y = x - m
      <3>1. r = m * (q - 1 - d) /\ q - 1 - d \in Int
        BY <1>2, <1>3, <2>3
      <3> QED
        BY <3>1
    <2> QED
      BY <2>1, <2>2, <2>3
  <1>5. r = 0
    BY <1>3, <1>4, OnlyZero
  <1> QED
    BY <1>5 DEF r

\* The places of a queue after its first entry is taken off.
LEMMA PlacesShift ==
    ASSUME NEW n \in Nat, NEW S \in SUBSET (1 .. n)
    PROVE  LET T == {i \in 1 .. n - 1 : i + 1 \in S}
           IN  /\ IsFiniteSet(S) /\ IsFiniteSet(T)
               /\ Cardinality(S) \in Nat /\ Cardinality(T) \in Nat
               /\ Cardinality(S) = Cardinality(T) + OneIf(1 \in S)
  <1> DEFINE T == {i \in 1 .. n - 1 : i + 1 \in S}
             U == S \ {1}
             f == [i \in T |-> i + 1]
  <1>0. IsFiniteSet(1 .. n) /\ T \in SUBSET (1 .. n)
    BY FS_Interval
  <1>1. IsFiniteSet(S) /\ IsFiniteSet(T)
    BY <1>0, FS_Subset
  <1>2. IsFiniteSet(U) /\ Cardinality(S) = Cardinality(U) + OneIf(1 \in S)
    <2>1. Cardinality(S) \in Nat
      BY <1>1, FS_CardinalityType
    <2>2. IsFiniteSet(U) /\ Cardinality(U) = IF 1 \in S THEN Cardinality(S) - 1 ELSE Cardinality(S)
      BY <1>1, FS_RemoveElement
    <2> QED
      BY <2>1, <2>2 DEF OneIf
  <1>3. f \in Bijection(T, U)
    <2>1. f \in [T -> U]
      OBVIOUS
    <2>2. \A a, b \in T : f[a] = f[b] => a = b
      OBVIOUS
    <2>3. \A u \in U : \E a \in T : f[a] = u
      <3>1. TAKE u \in U
      <3>2. u - 1 \in T /\ f[u - 1] = u
        OBVIOUS
      <3> QED
        BY <3>2
    <2> QED
      BY <2>1, <2>2, <2>3, Fun_IsBij
  <1>4. IsFiniteSet(T)
    BY <1>1
  <1>5. Cardinality(U) = Cardinality(T)
    BY <1>3, <1>4, FS_Bijection DEF ExistsBijection
  <1> QED
    BY <1>1, <1>2, <1>4, <1>5, FS_CardinalityType

\* The calls that are left after the first one.
LEMMA CallingTail ==
    ASSUME NEW q \in Seq(Events), q # <<>>, NEW s
    PROVE  /\ Cardinality(Calling(Tail(q), s)) \in Nat
           /\ Cardinality(Calling(q, s))
                = Cardinality(Calling(Tail(q), s)) + OneIf(Head(q)[1][2] = s)
  <1>1. Len(q) \in Nat /\ Len(q) >= 1 /\ DOMAIN q = 1 .. Len(q)
    OBVIOUS
  <1>2. Calling(q, s) \in SUBSET (1 .. Len(q))
    BY <1>1 DEF Calling
  <1>3. /\ Len(Tail(q)) = Len(q) - 1 /\ DOMAIN Tail(q) = 1 .. Len(q) - 1
        /\ \A i \in 1 .. Len(q) - 1 : Tail(q)[i] = q[i + 1]
    BY <1>1
  <1>4. Calling(Tail(q), s) = {i \in 1 .. Len(q) - 1 : i + 1 \in Calling(q, s)}
    BY <1>1, <1>3 DEF Calling
  <1>5. (1 \in Calling(q, s)) = (Head(q)[1][2] = s)
    BY <1>1 DEF Calling
  <1> QED
    BY <1>1, <1>2, <1>4, <1>5, PlacesShift

\* The all-up reports left in the queue.
LEMMA UpsTail ==
    ASSUME NEW q \in Seq(BOOLEAN), q # <<>>
    PROVE  /\ Cardinality(Ups(Tail(q))) \in Nat
           /\ Cardinality(Ups(q)) = Cardinality(Ups(Tail(q))) + OneIf(Head(q))
  <1>1. Len(q) \in Nat /\ Len(q) >= 1 /\ DOMAIN q = 1 .. Len(q)
    OBVIOUS
  <1>2. Ups(q) \in SUBSET (1 .. Len(q))
    BY <1>1 DEF Ups
  <1>3. /\ Len(Tail(q)) = Len(q) - 1 /\ DOMAIN Tail(q) = 1 .. Len(q) - 1
        /\ \A i \in 1 .. Len(q) - 1 : Tail(q)[i] = q[i + 1]
    BY <1>1
  <1>4. Ups(Tail(q)) = {i \in 1 .. Len(q) - 1 : i + 1 \in Ups(q)}
    BY <1>1, <1>3 DEF Ups
  <1>5. (1 \in Ups(q)) <=> Head(q)
    <2>1. Head(q) = q[1] /\ 1 \in DOMAIN q
      BY <1>1
    <2> QED
      BY <2>1, Zenon DEF Ups
  <1>6. OneIf(1 \in Ups(q)) = OneIf(Head(q))
    BY <1>5 DEF OneIf
  <1> QED
    BY <1>1, <1>2, <1>4, <1>6, PlacesShift

\* And the one that a put adds.
LEMMA UpsAppend ==
    ASSUME NEW q \in Seq(BOOLEAN), NEW up \in BOOLEAN
    PROVE  /\ Cardinality(Ups(q)) \in Nat
           /\ Cardinality(Ups(Append(q, up))) = Cardinality(Ups(q)) + OneIf(up)
  <1> DEFINE n == Len(q) + 1
  <1>1. /\ Len(q) \in Nat /\ DOMAIN q = 1 .. Len(q) /\ DOMAIN Append(q, up) = 1 .. n
        /\ Append(q, up)[n] = up /\ \A i \in 1 .. Len(q) : Append(q, up)[i] = q[i]
    OBVIOUS
  <1>2. IsFiniteSet(Ups(q))
    <2>1. Ups(q) \subseteq 1 .. Len(q)
      BY <1>1 DEF Ups
    <2>2. IsFiniteSet(1 .. Len(q))
      BY <1>1, FS_Interval
    <2> QED
      BY <2>1, <2>2, FS_Subset
  <1>3. Ups(Append(q, up)) = IF up THEN Ups(q) \cup {n} ELSE Ups(q)
    BY <1>1 DEF Ups
  <1>4. n \notin Ups(q)
    BY <1>1 DEF Ups
  <1> QED
    BY <1>2, <1>3, <1>4, FS_AddElement, FS_CardinalityType DEF OneIf

\* A hook that makes no call.
LEMMA NoCalling ==
    ASSUME NEW s
    PROVE  Cardinality(Calling(<<>>, s)) = 0
  <1>1. Calling(<<>>, s) = {}
    BY DEF Calling
  <1> QED
    BY <1>1, FS_EmptySet

\* A hook that makes one.
LEMMA OneCalling ==
    ASSUME NEW p \in Profiles, NEW a, NEW err, NEW s
    PROVE  Cardinality(Calling(Event(p, a, err), s)) = OneIf(s = a)
  <1>1. Calling(Event(p, a, err), s) = IF s = a THEN {1} ELSE {}
    BY DEF Calling, Event
  <1> QED
    BY <1>1, FS_EmptySet, FS_Singleton DEF OneIf

\* One only if a condition holds.
LEMMA MaybeCalling ==
    ASSUME NEW p, NEW a, NEW err, NEW cond, NEW s
    PROVE  Cardinality(Calling(EventIf(cond, p, a, err), s))
             = IF cond /\ p \in Profiles THEN OneIf(s = a) ELSE 0
  <1>1. CASE cond /\ p \in Profiles
    BY <1>1, OneCalling DEF EventIf
  <1>2. CASE ~(cond /\ p \in Profiles)
    <2>1. EventIf(cond, p, a, err) = <<>>
      BY <1>2 DEF EventIf, Event
    <2> QED
      BY <1>2, <2>1, NoCalling
  <1> QED
    BY <1>1, <1>2

\* One and, if a condition holds, a second one.
LEMMA TwoCalling ==
    ASSUME NEW p \in Profiles, NEW a \in HidStages, NEW err \in BOOLEAN, NEW cond,
           NEW p2 \in Profiles, NEW b \in HidStages, NEW err2 \in BOOLEAN, NEW s
    PROVE  Cardinality(Calling(Event(p, a, err) \o EventIf(cond, p2, b, err2), s))
             = OneIf(s = a) + IF cond THEN OneIf(s = b) ELSE 0
  <1> DEFINE q == Event(p, a, err) \o EventIf(cond, p2, b, err2)
             e1 == << <<p, a>>, err>>
             e2 == << <<p2, b>>, err2>>
  <1>0. e1 \in Events /\ e2 \in Events /\ e1[1][2] = a /\ e2[1][2] = b
    BY DEF Events, Counters
  <1>1. Event(p, a, err) = <<e1>> /\ EventIf(cond, p2, b, err2) = IF cond THEN <<e2>> ELSE <<>>
    BY DEF Event, EventIf
  <1>2. OneIf(s = a) \in Int /\ OneIf(s = b) \in Int
    BY DEF OneIf
  <1> HIDE DEF e1, e2
  <1>3. CASE ~cond
    <2>1. q = Event(p, a, err)
      BY <1>0, <1>1, <1>3
    <2> QED
      BY <1>2, <1>3, <2>1, OneCalling
  <1>4. CASE cond
    <2>1. q = <<e1>> \o <<e2>>
      BY <1>1, <1>4
    <2>2. Len(q) = 2 /\ DOMAIN q = 1 .. 2 /\ q[1] = e1 /\ q[2] = e2
      BY <1>0, <2>1
    <2> HIDE DEF q
    <2>3. Calling(q, s) = (IF s = a THEN {1} ELSE {}) \cup (IF s = b THEN {2} ELSE {})
      BY <1>0, <2>2 DEF Calling
    <2>4. Cardinality({}) = 0 /\ Cardinality({1}) = 1 /\ Cardinality({2}) = 1
      BY FS_EmptySet, FS_Singleton
    <2>5. Cardinality({1} \cup {2}) = 2
      <3>1. IsFiniteSet({1})
        BY FS_Singleton
      <3>2. 2 \notin {1}
        OBVIOUS
      <3>3. Cardinality({1} \cup {2}) = Cardinality({1}) + 1
        BY <3>1, <3>2, FS_AddElement
      <3> QED
        BY <2>4, <3>3
    <2>6. Cardinality(Calling(q, s)) = OneIf(s = a) + OneIf(s = b)
      <3>1. CASE s = a /\ s = b
        <4>1. Calling(q, s) = {1} \cup {2}
          BY <3>1, <2>3
        <4> QED
          BY <3>1, <4>1, <2>5 DEF OneIf
      <3>2. CASE s = a /\ s # b
        BY <3>2, <2>3, <2>4 DEF OneIf
      <3>3. CASE s # a /\ s = b
        BY <3>3, <2>3, <2>4 DEF OneIf
      <3>4. CASE s # a /\ s # b
        BY <3>4, <2>3, <2>4 DEF OneIf
      <3> QED
        BY <3>1, <3>2, <3>3, <3>4
    <2> QED
      BY <1>4, <2>6 DEF q
  <1> QED
    BY <1>3, <1>4

\* The units of a stage are finitely many.
LEMMA UnitsFinite ==
    ASSUME NEW c, NEW s
    PROVE  IsFiniteSet(UnitsOf(c, s)) /\ Cardinality(UnitsOf(c, s)) \in Nat
  <1>1. IsFiniteSet(Profiles) /\ IsFiniteSet(Totals)
    BY HidAssumption, FS_Interval DEF Profiles, Totals
  <1>2. IsFiniteSet(Profiles \X Totals)
    BY <1>1, FS_Product
  <1>3. UnitsOf(c, s) \subseteq Profiles \X Totals
    BY DEF UnitsOf
  <1> QED
    BY <1>2, <1>3, FS_Subset, FS_CardinalityType

\* y is one more than x, modulo TOTAL_MOD, if cond holds.
OneMore(x, y, cond) ==
    /\ x \in Nat /\ y \in Nat
    /\ IF cond THEN y = x + 1 \/ y = x + 1 - TOTAL_MOD ELSE y = x

\* count_event adds one to its stage, less TOTAL_MOD when the total wraps.
LEMMA UnitsCount ==
    ASSUME NEW c \in [Counters -> CounterStates], NEW k \in Counters, NEW err,
           NEW c2, c2 = [c EXCEPT ![k] = Count(c[k], err)], NEW s \in HidStages
    PROVE  OneMore(Cardinality(UnitsOf(c, s)), Cardinality(UnitsOf(c2, s)), k[2] = s)
  <1> DEFINE p == k[1]
             n == c[k].total
             S == UnitsOf(c, s)
             T == UnitsOf(c2, s)
  <1>1. p \in Profiles /\ k = <<p, k[2]>> /\ n \in Totals /\ TOTAL_MOD \in Nat \ {0}
    BY HidAssumption DEF Counters, CounterStates
  <1>2. c2[k].total = (n + 1) % TOTAL_MOD
    BY DEF Count
  <1>3. \A i \in Counters : i # k => c2[i] = c[i]
    OBVIOUS
  <1>4. \A u \in Profiles \X Totals : <<u[1], s>> \in Counters
    BY DEF Counters
  <1>5. CASE k[2] # s
    <2>1. \A u \in Profiles \X Totals : <<u[1], s>> # k
      BY <1>5
    <2>2. S = T
      BY <1>3, <1>4, <2>1 DEF UnitsOf
    <2> QED
      BY <1>5, <2>2, UnitsFinite DEF OneMore
  <1>6. CASE k[2] = s
    <2>1. \A u \in Profiles \X Totals : u[1] # p => c2[<<u[1], s>>] = c[<<u[1], s>>]
      <3>1. \A u \in Profiles \X Totals : u[1] # p => <<u[1], s>> # k
        BY <1>1, <1>6
      <3> QED
        BY <1>3, <1>4, <3>1
    <2>2. \A u \in Profiles \X Totals : u[1] = p => <<u[1], s>> = k
      BY <1>1, <1>6
    <2>3. \A u \in Profiles \X Totals : u \in S <=> u[2] < c[<<u[1], s>>].total
      BY DEF UnitsOf
    <2>4. \A u \in Profiles \X Totals : u \in T <=> u[2] < c2[<<u[1], s>>].total
      BY DEF UnitsOf
    <2>5. S \subseteq Profiles \X Totals /\ T \subseteq Profiles \X Totals
      BY DEF UnitsOf
    <2>6. IsFiniteSet(S) /\ IsFiniteSet(T) /\ Cardinality(S) \in Nat /\ Cardinality(T) \in Nat
      BY UnitsFinite
    <2> HIDE DEF S, T, n, p
    <2>7. CASE n + 1 < TOTAL_MOD
      <3>1. c2[k].total = n + 1
        BY <1>1, <1>2, <2>7 DEF Totals
      <3>2. \A u \in Profiles \X Totals : u \in T <=> u \in S \/ u = <<p, n>>
        <4>1. TAKE u \in Profiles \X Totals
        <4>2. u[2] \in Int /\ n \in Int
          BY <1>1, HidAssumption DEF Totals
        <4>3. CASE u[1] = p
          BY <2>2, <2>3, <2>4, <3>1, <4>2, <4>3 DEF n
        <4>4. CASE u[1] # p
          <5>1. u # <<p, n>>
            BY <4>4
          <5> QED
            BY <2>1, <2>3, <2>4, <4>4, <5>1
        <4> QED
          BY <4>3, <4>4
      <3>3. <<p, n>> \in Profiles \X Totals /\ <<p, n>> \notin S
        <4>1. <<p, n>> \in Profiles \X Totals
          BY <1>1
        <4>2. ~(n < n)
          BY <1>1, HidAssumption DEF Totals
        <4> QED
          BY <1>1, <1>6, <2>3, <4>1, <4>2 DEF n
      <3>4. T = S \cup {<<p, n>>}
        BY <2>5, <3>2, <3>3
      <3>5. Cardinality(T) = Cardinality(S) + 1
        BY <2>6, <3>3, <3>4, FS_AddElement
      <3> QED
        BY <1>6, <2>6, <3>5 DEF S, T, OneMore
    <2>8. CASE n + 1 = TOTAL_MOD
      <3> DEFINE W == {p} \X (0 .. n - 1)
      <3>1. c2[k].total = 0
        BY <1>1, <1>2, <2>8 DEF Totals
      <3>2. n \in Nat /\ (0 .. n - 1) \subseteq Totals
        BY <1>1, <2>8 DEF Totals
      <3>3. W \subseteq Profiles \X Totals
        BY <1>1, <3>2
      <3>4. \A u \in Profiles \X Totals : u \in S <=> u \in T \/ u \in W
        <4>1. TAKE u \in Profiles \X Totals
        <4>2. u[2] \in Nat /\ u = <<u[1], u[2]>>
          BY <1>1, HidAssumption DEF Totals
        <4>3. CASE u[1] = p
          <5>1. u \in T <=> u[2] < 0
            BY <2>2, <2>4, <3>1, <4>3
          <5>2. u \in S <=> u[2] < n
            BY <2>2, <2>3, <4>3 DEF n
          <5>3. u \in W <=> u[2] < n
            BY <3>2, <4>2, <4>3
          <5> QED
            BY <4>2, <5>1, <5>2, <5>3
        <4>4. CASE u[1] # p
          <5>1. u \notin W
            BY <4>2, <4>4
          <5> QED
            BY <2>1, <2>3, <2>4, <4>4, <5>1
        <4> QED
          BY <4>3, <4>4
      <3>5. T \cap W = {}
        <4>1. ASSUME NEW u \in W PROVE u \notin T
          <5>1. u \in Profiles \X Totals /\ u[1] = p /\ u[2] \in Nat
            BY <3>2, <3>3
          <5> QED
            BY <2>2, <2>4, <3>1, <5>1
        <4> QED
          BY <4>1
      <3>6. S = T \cup W
        BY <2>5, <3>3, <3>4
      <3>7. IsFiniteSet(W) /\ Cardinality(W) = n
        <4>1. IsFiniteSet({p}) /\ Cardinality({p}) = 1
          BY FS_Singleton
        <4>2. IsFiniteSet(0 .. n - 1) /\ Cardinality(0 .. n - 1) = n
          BY <3>2, FS_Interval
        <4> QED
          BY <3>2, <4>1, <4>2, FS_Product
      <3>8. Cardinality(S) = Cardinality(T) + n
        <4>1. Cardinality(T \cup W) = Cardinality(T) + Cardinality(W) - Cardinality(T \cap W)
          BY <2>6, <3>7, FS_Union
        <4>2. Cardinality(T \cap W) = 0
          BY <3>5, FS_EmptySet
        <4> HIDE DEF W
        <4> QED
          BY <2>6, <3>2, <3>6, <3>7, <4>1, <4>2
      <3> QED
        BY <1>1, <1>6, <2>6, <2>8, <3>2, <3>8 DEF S, T, OneMore
    <2> QED
      BY <1>1, <2>7, <2>8 DEF Totals
  <1> QED
    BY <1>5, <1>6

-----------------------------------------------------------------------------
(* The account of the reports.                                             *)

\* The counts of all stages, and the three balances of the two properties.
Tally == [s \in HidStages |-> Counted(s)]
InQueue == Len(msgq)
UpInFlight == IF all_up_report THEN InFlight ELSE 0
Queued == Tally["QUEUED"] - Tally["DEQUEUED"] - Tally["EVICTED"] - InQueue
Taken ==
    Tally["DEQUEUED"] - Tally["NO_HOST_DROP"] - Tally["NOTIFY_ACCEPTED"] - Tally["NOTIFY_FAILED"]
        - unmapped - InFlight
Released ==
    Tally["ALL_UP_QUEUED"] - Tally["ALL_UP_EVICTED"] - Tally["ALL_UP_ACCEPTED"]
        - Tally["ALL_UP_FAILED"] - uncounted_up - Cardinality(Ups(msgq)) - UpInFlight

\* A put that waits has no call left to make, and the worker is either looking
\* for the connection, holding it for its report or notifying, so that no hook
\* starts over another's calls.
OneHook ==
    /\ put.pc = "wait" => todo["keys"] = <<>>
    /\ conn # NoConn => dequeued_report
    /\ ~(dequeued_report /\ keyboard_notify)

AccountInv == OneHook /\ ReportsAccounted /\ AllUpAccounted

\* The two properties are about these three balances.
LEMMA Balances ==
    /\ ReportsAccounted /\ AllUpAccounted
         <=> Queued % TOTAL_MOD = 0 /\ Taken % TOTAL_MOD = 0 /\ Released % TOTAL_MOD = 0
    /\ (ReportsAccounted /\ AllUpAccounted)'
         <=> Queued' % TOTAL_MOD = 0 /\ Taken' % TOTAL_MOD = 0 /\ Released' % TOTAL_MOD = 0
  BY StageTyped
  DEF ReportsAccounted, AllUpAccounted, Queued, Taken, Released, Ups, UpInFlight, InQueue, Tally

\* Finitely many calls are due.
LEMMA CallingNat ==
    ASSUME NEW q \in Seq(Events), NEW s
    PROVE  Cardinality(Calling(q, s)) \in Nat
  <1>1. Len(q) \in Nat /\ Calling(q, s) \subseteq 1 .. Len(q)
    BY DEF Calling
  <1>2. IsFiniteSet(1 .. Len(q))
    BY <1>1, FS_Interval
  <1> QED
    BY <1>1, <1>2, FS_Subset, FS_CardinalityType

\* The parts of a balance are numbers.
LEMMA CountedNat ==
    ASSUME TodoType, NEW s
    PROVE  /\ Counted(s) \in Nat
           /\ Cardinality(Units(s)) \in Nat
           /\ \A t \in HidThreads : Cardinality(Pending(t, s)) \in Nat
  <1>1. Units(s) = UnitsOf(counts, s)
    BY DEF Units, UnitsOf, Totals
  <1>2. ASSUME NEW t \in HidThreads PROVE Cardinality(Pending(t, s)) \in Nat
    <2>1. todo[t] \in Seq(Events) /\ Pending(t, s) = Calling(todo[t], s)
      BY DEF TodoType, Pending, Calling
    <2> QED
      BY <2>1, CallingNat
  <1>3. "keys" \in HidThreads /\ "hog" \in HidThreads
    BY DEF HidThreads
  <1>4. Cardinality(Units(s)) \in Nat
    BY <1>1, UnitsFinite
  <1> QED
    BY <1>2, <1>3, <1>4 DEF Counted

\* And so are what the queue holds and what the worker has taken.
LEMMA QueueNat ==
    ASSUME HookType
    PROVE  /\ InQueue \in Nat /\ Cardinality(Ups(msgq)) \in Nat
           /\ InFlight \in Nat /\ unmapped \in Nat /\ uncounted_up \in Nat
           /\ UpInFlight \in Nat
  <1>1. msgq \in Seq(BOOLEAN)
    BY DEF HookType
  <1>2. Cardinality(Ups(msgq)) \in Nat
    BY <1>1, UpsAppend
  <1>3. unmapped \in Nat /\ uncounted_up \in Nat
    BY HidAssumption DEF HookType, Totals
  <1> QED
    BY <1>1, <1>2, <1>3 DEF InFlight, UpInFlight, InQueue

\* A hook's calls are counted from the moment they are due.
LEMMA CallsCounted ==
    ASSUME TodoType, NEW t \in HidThreads, todo[t] = <<>>,
           NEW events \in Seq(Events), Calls(t, events), NEW s
    PROVE  Counted(s)' = Counted(s) + Cardinality(Calling(events, s))
  <1> DEFINE x == Cardinality(Calling(events, s))
  <1>1. Units(s)' = Units(s)
    BY DEF Calls, Units
  <1>2. todo' = [todo EXCEPT ![t] = events]
    BY DEF Calls
  <1>3. Pending(t, s)' = Calling(events, s)
    BY <1>2 DEF Pending, Calling, TodoType
  <1>4. Pending(t, s) = {}
    BY DEF Pending
  <1>5. \A u \in HidThreads : u # t => Pending(u, s)' = Pending(u, s)
    BY <1>2 DEF Pending, TodoType
  <1>6. Cardinality(Pending(t, s)) = 0
    BY <1>4, FS_EmptySet
  <1>7. x \in Nat
    BY CallingNat
  <1>8. "keys" \in HidThreads /\ "hog" \in HidThreads /\ "keys" # "hog"
    BY DEF HidThreads
  <1>9. /\ Cardinality(Units(s)) \in Nat
        /\ Cardinality(Pending("keys", s)) \in Nat /\ Cardinality(Pending("hog", s)) \in Nat
    BY <1>8, CountedNat
  <1> HIDE DEF x
  <1>10. Cardinality(Pending(t, s)') = x
    BY <1>3 DEF x
  <1>11. CASE t = "keys"
    BY <1>1, <1>5, <1>6, <1>7, <1>8, <1>9, <1>10, <1>11 DEF Counted, x
  <1>12. CASE t = "hog"
    BY <1>1, <1>5, <1>6, <1>7, <1>8, <1>9, <1>10, <1>12 DEF Counted, x
  <1> QED
    BY <1>11, <1>12 DEF HidThreads

\* Steps that neither count nor call.
LEMMA CountedFrame ==
    ASSUME CountType, UNCHANGED todo, \A k \in Counters : counts'[k].total = counts[k].total,
           NEW s \in HidStages
    PROVE  Counted(s)' = Counted(s)
  <1>1. Units(s)' = Units(s)
    BY DEF Units, Counters
  <1>2. \A t \in HidThreads : Pending(t, s)' = Pending(t, s)
    BY DEF Pending
  <1> QED
    BY <1>1, <1>2 DEF Counted, HidThreads

\* count_event moves a call to its total, modulo TOTAL_MOD.
LEMMA EventCounted ==
    ASSUME CountType, TodoType, NEW t \in HidThreads, CountEvent(t), NEW s \in HidStages
    PROVE  LET stage == Head(todo[t])[1][2]
           IN  /\ s # stage => Counted(s)' = Counted(s)
               /\ Counted(s)' = Counted(s) \/ Counted(s)' = Counted(s) - TOTAL_MOD
  <1> DEFINE k == Head(todo[t])[1]
             err == Head(todo[t])[2]
             x == Cardinality(Units(s))
             y == Cardinality(Units(s)')
  <1>1. todo[t] \in Seq(Events) /\ todo[t] # <<>> /\ Head(todo[t]) \in Events
    BY DEF CountEvent, TodoType
  <1>2. k \in Counters /\ counts' = [counts EXCEPT ![k] = Count(counts[k], err)]
    BY <1>1 DEF CountEvent, Events
  <1>3. Units(s) = UnitsOf(counts, s) /\ Units(s)' = UnitsOf(counts', s)
    BY DEF Units, UnitsOf, Totals
  <1>4. counts \in [Counters -> CounterStates]
    BY DEF CountType
  <1>5. /\ x \in Nat /\ y \in Nat
        /\ k[2] # s => y = x
        /\ k[2] = s => y = x + 1 \/ y = x + 1 - TOTAL_MOD
    <2>1. s \in HidStages
      OBVIOUS
    <2> HIDE DEF k, err
    <2>2. OneMore(Cardinality(UnitsOf(counts, s)), Cardinality(UnitsOf(counts', s)), k[2] = s)
      BY <1>2, <1>4, <2>1, UnitsCount
    <2> QED
      BY <1>3, <2>2 DEF OneMore
  <1>6. todo' = [todo EXCEPT ![t] = Tail(todo[t])]
    BY DEF CountEvent
  <1>7. Pending(t, s) = Calling(todo[t], s) /\ Pending(t, s)' = Calling(Tail(todo[t]), s)
    BY <1>6 DEF Pending, Calling, TodoType
  <1>8. \A u \in HidThreads : u # t => Pending(u, s)' = Pending(u, s)
    BY <1>6 DEF Pending, TodoType
  <1>9. /\ Cardinality(Pending(t, s)') \in Nat
        /\ Cardinality(Pending(t, s)) = Cardinality(Pending(t, s)') + OneIf(k[2] = s)
    BY <1>1, <1>7, CallingTail
  <1>10. "keys" \in HidThreads /\ "hog" \in HidThreads /\ "keys" # "hog"
    BY DEF HidThreads
  <1>11. Cardinality(Pending("keys", s)) \in Nat /\ Cardinality(Pending("hog", s)) \in Nat
    BY <1>10, CountedNat
  <1>12. TOTAL_MOD \in Nat
    BY HidAssumption
  <1> HIDE DEF x, y, k
  <1>13. OneIf(k[2] = s) = IF k[2] = s THEN 1 ELSE 0
    BY DEF OneIf
  <1>14. /\ Counted(s) = x + Cardinality(Pending("keys", s)) + Cardinality(Pending("hog", s))
         /\ Counted(s)' = y + Cardinality(Pending("keys", s)') + Cardinality(Pending("hog", s)')
    BY DEF Counted, x, y
  <1>15. /\ s # k[2] => Counted(s)' = Counted(s)
         /\ Counted(s)' = Counted(s) \/ Counted(s)' = Counted(s) - TOTAL_MOD
    <2>1. CASE t = "keys"
      BY <1>5, <1>8, <1>9, <1>10, <1>11, <1>12, <1>13, <1>14, <2>1
    <2>2. CASE t = "hog"
      BY <1>5, <1>8, <1>9, <1>10, <1>11, <1>12, <1>13, <1>14, <2>2
    <2> QED
      BY <2>1, <2>2 DEF HidThreads
  <1> QED
    BY <1>15 DEF k

\* The same balance, modulo TOTAL_MOD.
Same(x, y) == y = x \/ y = x + TOTAL_MOD \/ y = x - TOTAL_MOD

\* A step that changes no balance, or changes it by TOTAL_MOD.
LEMMA BalancesKept ==
    ASSUME TodoType, HookType, AccountInv, OneHook',
           Same(Queued, Queued'), Same(Taken, Taken'), Same(Released, Released')
    PROVE  AccountInv'
  <1>1. Queued \in Int /\ Taken \in Int /\ Released \in Int
    <2>1. Tally \in [HidStages -> Int]
      BY CountedNat DEF Tally
    <2>2. /\ InQueue \in Int /\ Cardinality(Ups(msgq)) \in Int
          /\ InFlight \in Int /\ unmapped \in Int /\ uncounted_up \in Int /\ UpInFlight \in Int
      BY QueueNat
    <2>3. /\ Tally["QUEUED"] \in Int /\ Tally["DEQUEUED"] \in Int /\ Tally["EVICTED"] \in Int
          /\ Tally["NO_HOST_DROP"] \in Int /\ Tally["NOTIFY_ACCEPTED"] \in Int
          /\ Tally["NOTIFY_FAILED"] \in Int /\ Tally["ALL_UP_QUEUED"] \in Int
          /\ Tally["ALL_UP_EVICTED"] \in Int /\ Tally["ALL_UP_ACCEPTED"] \in Int
          /\ Tally["ALL_UP_FAILED"] \in Int
      BY <2>1, StageTyped
    <2>4. Queued \in Int
      BY <2>2, <2>3 DEF Queued
    <2>5. Taken \in Int
      BY <2>2, <2>3 DEF Taken
    <2>6. Released \in Int
      BY <2>2, <2>3 DEF Released
    <2> QED
      BY <2>4, <2>5, <2>6
  <1>2. Queued % TOTAL_MOD = 0 /\ Taken % TOTAL_MOD = 0 /\ Released % TOTAL_MOD = 0
    BY Balances DEF AccountInv
  <1>3. TOTAL_MOD \in Nat \ {0}
    BY HidAssumption
  <1>4. Queued' % TOTAL_MOD = 0
    BY <1>1, <1>2, <1>3, SameRemainder DEF Same
  <1>5. Taken' % TOTAL_MOD = 0
    BY <1>1, <1>2, <1>3, SameRemainder DEF Same
  <1>6. Released' % TOTAL_MOD = 0
    BY <1>1, <1>2, <1>3, SameRemainder DEF Same
  <1> QED
    BY <1>4, <1>5, <1>6, Balances DEF AccountInv

\* Nothing is counted at the start.
LEMMA AccountInit == HidInit => AccountInv
  <1> SUFFICES ASSUME HidInit PROVE AccountInv
    OBVIOUS
  <1>1. OneHook
    BY DEF HidInit, OneHook, HidThreads
  <1>2. ASSUME NEW s \in HidStages PROVE Counted(s) = 0
    <2>1. Units(s) = {}
      <3>1. \A u \in Profiles \X (0 .. TOTAL_MOD - 1) : counts[<<u[1], s>>].total = 0
        BY DEF HidInit, Counters
      <3>2. \A u \in Profiles \X (0 .. TOTAL_MOD - 1) : ~(u[2] < 0)
        BY HidAssumption
      <3> QED
        BY <3>1, <3>2 DEF Units
    <2>2. Pending("keys", s) = {} /\ Pending("hog", s) = {}
      BY DEF HidInit, HidThreads, Pending
    <2> QED
      BY <2>1, <2>2, FS_EmptySet DEF Counted
  <1>3. InQueue = 0 /\ Cardinality(Ups(msgq)) = 0 /\ InFlight = 0 /\ unmapped = 0
        /\ uncounted_up = 0 /\ UpInFlight = 0
    <2>1. Ups(msgq) = {}
      BY DEF HidInit, Ups
    <2> QED
      BY <2>1, FS_EmptySet DEF HidInit, InFlight, UpInFlight, InQueue
  <1>4. Queued = 0 /\ Taken = 0 /\ Released = 0
    BY <1>2, <1>3, StageTyped DEF Queued, Taken, Released, Tally
  <1>5. 0 % TOTAL_MOD = 0
    BY HidAssumption
  <1> QED
    BY <1>1, <1>4, <1>5, Balances DEF AccountInv

\* Steps that neither count nor call nor run a hook.
LEMMA AccountFrame ==
    ASSUME CountType, TodoType, HookType, AccountInv, UNCHANGED todo,
           \A k \in Counters : counts'[k].total = counts[k].total,
           UNCHANGED <<msgq, dequeued_report, all_up_report, keyboard_notify, unmapped, uncounted_up>>,
           put'.pc = "wait" => put.pc = "wait" \/ todo["keys"] = <<>>,
           conn' # NoConn => conn # NoConn \/ dequeued_report
    PROVE  AccountInv'
  <1>1. OneHook'
    BY DEF AccountInv, OneHook
  <1>2. Tally' = Tally
    BY CountedFrame DEF Tally
  <1>3. Queued' = Queued /\ Taken' = Taken /\ Released' = Released
    BY <1>2, StageTyped DEF Queued, Taken, Released, InFlight, UpInFlight, InQueue
  <1> QED
    BY <1>1, <1>3, BalancesKept DEF Same

\* count_event.
LEMMA AccountCount ==
    ASSUME HidInv, AccountInv, NEW t \in HidThreads, CountEvent(t)
    PROVE  AccountInv'
  <1> DEFINE stage == Head(todo[t])[1][2]
  <1>1. CountType /\ TodoType /\ HookType /\ UNCHANGED hookVars
    BY DEF HidInv, CountEvent
  <1>2. OneHook'
    BY <1>1 DEF AccountInv, OneHook, CountEvent, TodoType, hookVars
  <1>3. /\ InQueue' = InQueue /\ Cardinality(Ups(msgq))' = Cardinality(Ups(msgq))
        /\ InFlight' = InFlight /\ unmapped' = unmapped /\ uncounted_up' = uncounted_up
        /\ UpInFlight' = UpInFlight
    BY <1>1 DEF hookVars, InFlight, UpInFlight, InQueue
  <1>4. \A s \in HidStages :
            /\ Tally[s] \in Nat
            /\ s # stage => Tally'[s] = Tally[s]
            /\ Tally'[s] = Tally[s] \/ Tally'[s] = Tally[s] - TOTAL_MOD
    <2>1. \A s \in HidStages : Tally[s] = Counted(s) /\ Tally'[s] = Counted(s)'
      BY DEF Tally
    <2> QED
      BY <1>1, <2>1, EventCounted, CountedNat
  <1>5. TOTAL_MOD \in Nat
    BY HidAssumption
  <1> HIDE DEF stage
  <1>6. /\ InQueue \in Int /\ Cardinality(Ups(msgq)) \in Int
        /\ InFlight \in Int /\ unmapped \in Int /\ uncounted_up \in Int /\ UpInFlight \in Int
    BY <1>1, QueueNat
  <1>7. Same(Queued, Queued')
    <2>1. "QUEUED" \in HidStages /\ "DEQUEUED" \in HidStages /\ "EVICTED" \in HidStages
      BY StageTyped
    <2>2. CASE stage \notin {"QUEUED", "DEQUEUED", "EVICTED"}
      BY <1>3, <1>4, <2>1, <2>2 DEF Same, Queued
    <2>3. CASE stage = "QUEUED"
      BY <1>3, <1>4, <1>5, <1>6, <2>1, <2>3 DEF Same, Queued
    <2>4. CASE stage = "DEQUEUED"
      BY <1>3, <1>4, <1>5, <1>6, <2>1, <2>4 DEF Same, Queued
    <2>5. CASE stage = "EVICTED"
      BY <1>3, <1>4, <1>5, <1>6, <2>1, <2>5 DEF Same, Queued
    <2> QED
      BY <2>2, <2>3, <2>4, <2>5
  <1>8. Same(Taken, Taken')
    <2>1. {"DEQUEUED", "NO_HOST_DROP", "NOTIFY_ACCEPTED", "NOTIFY_FAILED"} \subseteq HidStages
      BY StageTyped
    <2>2. CASE stage \notin {"DEQUEUED", "NO_HOST_DROP", "NOTIFY_ACCEPTED", "NOTIFY_FAILED"}
      BY <1>3, <1>4, <2>1, <2>2 DEF Same, Taken
    <2>3. CASE stage = "DEQUEUED"
      BY <1>3, <1>4, <1>5, <1>6, <2>1, <2>3 DEF Same, Taken
    <2>4. CASE stage = "NO_HOST_DROP"
      BY <1>3, <1>4, <1>5, <1>6, <2>1, <2>4 DEF Same, Taken
    <2>5. CASE stage = "NOTIFY_ACCEPTED"
      BY <1>3, <1>4, <1>5, <1>6, <2>1, <2>5 DEF Same, Taken
    <2>6. CASE stage = "NOTIFY_FAILED"
      BY <1>3, <1>4, <1>5, <1>6, <2>1, <2>6 DEF Same, Taken
    <2> QED
      BY <2>2, <2>3, <2>4, <2>5, <2>6
  <1>9. Same(Released, Released')
    <2> DEFINE ups == {"ALL_UP_QUEUED", "ALL_UP_EVICTED", "ALL_UP_ACCEPTED", "ALL_UP_FAILED"}
    <2>1. ups \subseteq HidStages
      BY StageTyped
    <2>2. CASE stage \notin ups
      BY <1>3, <1>4, <2>1, <2>2 DEF Same, Released
    <2>3. CASE stage = "ALL_UP_QUEUED"
      BY <1>3, <1>4, <1>5, <1>6, <2>1, <2>3 DEF Same, Released
    <2>4. CASE stage = "ALL_UP_EVICTED"
      BY <1>3, <1>4, <1>5, <1>6, <2>1, <2>4 DEF Same, Released
    <2>5. CASE stage = "ALL_UP_ACCEPTED"
      BY <1>3, <1>4, <1>5, <1>6, <2>1, <2>5 DEF Same, Released
    <2>6. CASE stage = "ALL_UP_FAILED"
      BY <1>3, <1>4, <1>5, <1>6, <2>1, <2>6 DEF Same, Released
    <2> QED
      BY <2>2, <2>3, <2>4, <2>5, <2>6
  <1> QED
    BY <1>1, <1>2, <1>7, <1>8, <1>9, BalancesKept

\* The tally after a hook's calls.
LEMMA TallyCalls ==
    ASSUME TodoType, NEW t \in HidThreads, todo[t] = <<>>,
           NEW events \in Seq(Events), Calls(t, events)
    PROVE  \A s \in HidStages :
              Tally[s] \in Nat /\ Tally'[s] = Tally[s] + Cardinality(Calling(events, s))
  <1>1. \A s \in HidStages : Tally[s] = Counted(s) /\ Tally'[s] = Counted(s)'
    BY DEF Tally
  <1> QED
    BY <1>1, CallsCounted, CountedNat

\* The hooks of the key thread.
LEMMA AccountKeys ==
    ASSUME HidInv, AccountInv, (\E err \in BOOLEAN : Release(err)) \/ PutDone \/ PutFailed \/ Evict
    PROVE  AccountInv'
  <1> USE DEF HidInv
  <1>0. "keys" \in HidThreads /\ TodoType /\ HookType
    BY DEF HidThreads
  <1>1. /\ InQueue \in Int /\ Cardinality(Ups(msgq)) \in Int
        /\ InFlight \in Int /\ unmapped \in Int /\ uncounted_up \in Int /\ UpInFlight \in Int
    BY <1>0, QueueNat
  <1>2. active \in Profiles /\ put.profile \in Profiles /\ put.up \in BOOLEAN /\ msgq \in Seq(BOOLEAN)
    BY DEF HookType
  <1>3. UNCHANGED <<dequeued_report, all_up_report, keyboard_notify, conn, unmapped, uncounted_up>>
    BY DEF Release, PutDone, PutFailed, Evict, hookVars
  <1>4. /\ InFlight' = InFlight /\ UpInFlight' = UpInFlight
        /\ unmapped' = unmapped /\ uncounted_up' = uncounted_up
    BY <1>3 DEF InFlight, UpInFlight
  <1>5. OneHook'
    <2>0. put \in [pc: {"idle", "wait", "evict", "again"}, profile: Profiles, up: BOOLEAN]
      BY DEF HookType
    <2>1. put'.pc # "wait"
      <3>1. CASE \E err \in BOOLEAN : Release(err)
        BY <3>1 DEF Release, hookVars
      <3>2. CASE PutDone
        BY <3>2 DEF PutDone, NoPut
      <3>3. CASE PutFailed
        BY <2>0, <3>3 DEF PutFailed
      <3>4. CASE Evict
        BY <2>0, <3>4 DEF Evict
      <3> QED
        BY <3>1, <3>2, <3>3, <3>4
    <2> QED
      BY <1>3, <2>1 DEF AccountInv, OneHook
  <1>6. todo["keys"] = <<>>
    BY DEF Release, PutDone, PutFailed, Evict, Free, AccountInv, OneHook
  <1>7. ASSUME NEW err \in BOOLEAN, Release(err) PROVE AccountInv'
    <2> DEFINE a == IF err THEN "RELEASE_FAILED" ELSE "RELEASE_OK"
    <2>1. Event(active, a, err) \in Seq(Events)
      BY <1>2, EventTyped, StageTyped
    <2>2. \A s \in HidStages : Tally[s] \in Nat /\ Tally'[s] = Tally[s] + OneIf(s = a)
      <3> DEFINE E == Event(active, a, err)
      <3>1. \A s \in HidStages : Cardinality(Calling(E, s)) = OneIf(s = a)
        BY <1>2, OneCalling
      <3>2. Calls("keys", E)
        BY <1>7 DEF Release
      <3> HIDE DEF E, a
      <3>3. \A s \in HidStages :
                Tally[s] \in Nat /\ Tally'[s] = Tally[s] + Cardinality(Calling(E, s))
        BY <1>0, <1>6, <2>1, <3>2, TallyCalls DEF E
      <3> QED
        BY <3>1, <3>3
    <2>3. InQueue' = InQueue /\ Cardinality(Ups(msgq))' = Cardinality(Ups(msgq))
      BY <1>7 DEF Release, hookVars, InQueue
    <2>4. Queued' = Queued /\ Taken' = Taken /\ Released' = Released
      BY <1>1, <1>4, <2>2, <2>3, StageTyped DEF Queued, Taken, Released, OneIf
    <2> QED
      BY <1>0, <1>5, <2>4, BalancesKept DEF Same
  <1>8. CASE PutDone
    <2>1. /\ Event(put.profile, "QUEUED", FALSE) \in Seq(Events)
          /\ EventIf(put.up, put.profile, "ALL_UP_QUEUED", FALSE) \in Seq(Events)
      BY <1>2, EventTyped, StageTyped
    <2>2. \A s \in HidStages :
              Tally[s] \in Nat /\ Tally'[s] = Tally[s] + (OneIf(s = "QUEUED")
                                 + IF put.up THEN OneIf(s = "ALL_UP_QUEUED") ELSE 0)
      <3>0. PICK p \in Profiles, no \in BOOLEAN, up \in BOOLEAN :
                 p = put.profile /\ no = FALSE /\ up = put.up
        BY <1>2
      <3> DEFINE E == Event(p, "QUEUED", no) \o EventIf(up, p, "ALL_UP_QUEUED", no)
      <3>1. E \in Seq(Events) /\ Calls("keys", E)
        BY <1>8, <2>1, <3>0, TwoEvents DEF PutDone
      <3>2. \A s \in HidStages : Cardinality(Calling(E, s))
                    = OneIf(s = "QUEUED") + IF up THEN OneIf(s = "ALL_UP_QUEUED") ELSE 0
        <4>1. "QUEUED" \in HidStages /\ "ALL_UP_QUEUED" \in HidStages
          BY StageTyped
        <4> QED
          BY <4>1, TwoCalling
      <3> HIDE DEF E
      <3>3. \A s \in HidStages :
                Tally[s] \in Nat /\ Tally'[s] = Tally[s] + Cardinality(Calling(E, s))
        BY <1>0, <1>6, <3>1, TallyCalls
      <3> QED
        BY <3>0, <3>2, <3>3
    <2>3. InQueue' = InQueue + 1 /\ Cardinality(Ups(msgq))' = Cardinality(Ups(msgq)) + OneIf(put.up)
      BY <1>2, <1>8, UpsAppend DEF PutDone, InQueue
    <2>4. Queued' = Queued
      BY <1>1, <2>2, <2>3, StageTyped DEF Queued, OneIf
    <2>5. Taken' = Taken
      BY <1>1, <1>4, <2>2, StageTyped DEF Taken, OneIf
    <2>6. Released' = Released
      BY <1>1, <1>4, <2>2, <2>3, StageTyped DEF Released, OneIf
    <2> QED
      BY <1>0, <1>5, <2>4, <2>5, <2>6, BalancesKept DEF Same
  <1>9. CASE PutFailed
    <2>1. Event(put.profile, "QUEUE_FAILED", TRUE) \in Seq(Events)
      BY <1>2, EventTyped, StageTyped
    <2>2. \A s \in HidStages :
              Tally[s] \in Nat /\ Tally'[s] = Tally[s] + OneIf(s = "QUEUE_FAILED")
      <3>0. PICK yes \in BOOLEAN : yes = TRUE
        OBVIOUS
      <3> DEFINE E == Event(put.profile, "QUEUE_FAILED", yes)
      <3>1. Calls("keys", E)
        BY <1>9, <3>0 DEF PutFailed
      <3>2. \A s \in HidStages : Cardinality(Calling(E, s)) = OneIf(s = "QUEUE_FAILED")
        BY <1>2, OneCalling
      <3> HIDE DEF E
      <3>3. \A s \in HidStages :
                Tally[s] \in Nat /\ Tally'[s] = Tally[s] + Cardinality(Calling(E, s))
        BY <1>0, <1>6, <2>1, <3>0, <3>1, TallyCalls DEF E
      <3> QED
        BY <3>2, <3>3
    <2>3. InQueue' = InQueue /\ Cardinality(Ups(msgq))' = Cardinality(Ups(msgq))
      BY <1>9 DEF PutFailed, InQueue
    <2>4. Queued' = Queued /\ Taken' = Taken /\ Released' = Released
      BY <1>1, <1>4, <2>2, <2>3, StageTyped DEF Queued, Taken, Released, OneIf
    <2> QED
      BY <1>0, <1>5, <2>4, BalancesKept DEF Same
  <1>10. CASE Evict /\ msgq = <<>>
    <2>1. Calls("keys", <<>>) /\ <<>> \in Seq(Events) /\ UNCHANGED msgq
      BY <1>10 DEF Evict
    <2>2. \A s \in HidStages : Tally[s] \in Nat /\ Tally'[s] = Tally[s] + 0
      <3>1. \A s \in HidStages :
                Tally[s] \in Nat /\ Tally'[s] = Tally[s] + Cardinality(Calling(<<>>, s))
        BY <1>0, <1>6, <2>1, TallyCalls
      <3>2. \A s : Cardinality(Calling(<<>>, s)) = 0
        BY NoCalling
      <3> QED
        BY <3>1, <3>2
    <2>3. InQueue' = InQueue /\ Cardinality(Ups(msgq))' = Cardinality(Ups(msgq))
      BY <2>1 DEF InQueue
    <2>4. Queued' = Queued /\ Taken' = Taken /\ Released' = Released
      BY <1>1, <1>4, <2>2, <2>3, StageTyped DEF Queued, Taken, Released
    <2> QED
      BY <1>0, <1>5, <2>4, BalancesKept DEF Same
  <1>11. CASE Evict /\ msgq # <<>>
    <2>1. PICK up \in BOOLEAN : up = Head(msgq)
      BY <1>2, <1>11
    <2>0. PICK no \in BOOLEAN : no = FALSE
      OBVIOUS
    <2> DEFINE E == Event(active, "EVICTED", no) \o EventIf(up, active, "ALL_UP_EVICTED", no)
    <2>2. /\ Event(active, "EVICTED", no) \in Seq(Events)
          /\ EventIf(up, active, "ALL_UP_EVICTED", no) \in Seq(Events)
      BY <1>2, EventTyped, StageTyped
    <2>3. E \in Seq(Events) /\ Calls("keys", E)
      BY <1>11, <2>0, <2>1, <2>2, TwoEvents DEF Evict, GetStage
    <2>4. \A s \in HidStages :
              Tally[s] \in Nat /\ Tally'[s] = Tally[s] + (OneIf(s = "EVICTED")
                                 + IF up THEN OneIf(s = "ALL_UP_EVICTED") ELSE 0)
      <3>1. \A s \in HidStages : Cardinality(Calling(E, s))
                    = OneIf(s = "EVICTED") + IF up THEN OneIf(s = "ALL_UP_EVICTED") ELSE 0
        BY <1>2, StageTyped, TwoCalling
      <3> HIDE DEF E
      <3>2. \A s \in HidStages :
                Tally[s] \in Nat /\ Tally'[s] = Tally[s] + Cardinality(Calling(E, s))
        BY <1>0, <1>6, <2>3, TallyCalls
      <3> QED
        BY <3>1, <3>2
    <2>5. msgq' = Tail(msgq)
      BY <1>11 DEF Evict
    <2>6. InQueue' = InQueue - 1
      BY <1>2, <1>11, <2>5 DEF InQueue
    <2>7. /\ Cardinality(Ups(msgq))' \in Nat
          /\ Cardinality(Ups(msgq)) = Cardinality(Ups(msgq))' + OneIf(up)
      BY <1>2, <1>11, <2>1, <2>5, UpsTail
    <2>8. Queued' = Queued
      BY <1>1, <2>4, <2>6, StageTyped DEF Queued, OneIf
    <2>9. Taken' = Taken
      BY <1>1, <1>4, <2>4, StageTyped DEF Taken, OneIf
    <2>10. Released' = Released
      <3>1. CASE up
        <4>1. /\ Tally'["ALL_UP_EVICTED"] = Tally["ALL_UP_EVICTED"] + 1
              /\ Tally["ALL_UP_EVICTED"] \in Int
          BY <2>4, <3>1, StageTyped DEF OneIf
        <4>2. /\ Tally'["ALL_UP_QUEUED"] = Tally["ALL_UP_QUEUED"] /\ Tally["ALL_UP_QUEUED"] \in Int
              /\ Tally'["ALL_UP_ACCEPTED"] = Tally["ALL_UP_ACCEPTED"]
              /\ Tally["ALL_UP_ACCEPTED"] \in Int
              /\ Tally'["ALL_UP_FAILED"] = Tally["ALL_UP_FAILED"] /\ Tally["ALL_UP_FAILED"] \in Int
          BY <2>4, <3>1, StageTyped DEF OneIf
        <4>3. Cardinality(Ups(msgq)) = Cardinality(Ups(msgq))' + 1
          BY <2>7, <3>1 DEF OneIf
        <4> QED
          BY <1>1, <1>4, <2>7, <4>1, <4>2, <4>3 DEF Released
      <3>2. CASE ~up
        BY <1>1, <1>4, <2>4, <2>7, <3>2, StageTyped DEF Released, OneIf
      <3> QED
        BY <3>1, <3>2
    <2> QED
      BY <1>0, <1>5, <2>8, <2>9, <2>10, BalancesKept DEF Same
  <1> QED
    BY <1>7, <1>8, <1>9, <1>10, <1>11

\* The hooks of the HOG worker.
LEMMA AccountWorker ==
    ASSUME HidInv, AccountInv, HidWorker, ~HostFound
    PROVE  AccountInv'
  <1> USE DEF HidInv
  <1>0. "hog" \in HidThreads /\ "keys" \in HidThreads /\ "hog" # "keys" /\ TodoType /\ HookType
    BY DEF HidThreads
  <1>1. /\ InQueue \in Int /\ Cardinality(Ups(msgq)) \in Int
        /\ InFlight \in Int /\ unmapped \in Int /\ uncounted_up \in Int /\ UpInFlight \in Int
    BY <1>0, QueueNat
  <1>2. /\ active \in Profiles /\ msgq \in Seq(BOOLEAN)
        /\ all_up_report \in BOOLEAN /\ dequeued_report \in BOOLEAN /\ keyboard_notify \in BOOLEAN
    BY DEF HookType
  <1>3. todo["hog"] = <<>>
    BY DEF HidWorker, Dequeue, NoHost, Observed, Notify, Free
  <1>4. OneHook'
    <2>1. UNCHANGED put /\ todo'["keys"] = todo["keys"]
      BY <1>0 DEF HidWorker, Dequeue, NoHost, Observed, Notify, Calls, TodoType
    <2>2. ~(dequeued_report' /\ keyboard_notify') /\ (conn' # NoConn => dequeued_report')
      <3>1. CASE Dequeue
        BY <3>1 DEF Dequeue
      <3>2. CASE NoHost
        BY <3>2 DEF NoHost
      <3>3. CASE \E subscribed \in BOOLEAN : Observed(subscribed)
        BY <3>3 DEF Observed
      <3>4. CASE \E err \in BOOLEAN : Notify(err)
        BY <3>4 DEF Notify, AccountInv, OneHook
      <3> QED
        BY <3>1, <3>2, <3>3, <3>4 DEF HidWorker
    <2> QED
      BY <2>1, <2>2 DEF AccountInv, OneHook
  <1>5. PICK no \in BOOLEAN : no = FALSE
    OBVIOUS
  <1>6. CASE Dequeue
    <2>1. PICK up \in BOOLEAN : up = Head(msgq)
      BY <1>2, <1>6 DEF Dequeue
    <2>2. /\ Event(active, "DEQUEUED", no) \in Seq(Events)
          /\ Calls("hog", Event(active, "DEQUEUED", no))
      BY <1>2, <1>5, <1>6, EventTyped, StageTyped DEF Dequeue, GetStage
    <2>3. \A s \in HidStages : Tally[s] \in Nat /\ Tally'[s] = Tally[s] + OneIf(s = "DEQUEUED")
      <3> DEFINE E == Event(active, "DEQUEUED", no)
      <3>1. \A s \in HidStages : Cardinality(Calling(E, s)) = OneIf(s = "DEQUEUED")
        BY <1>2, OneCalling
      <3> HIDE DEF E
      <3>2. \A s \in HidStages :
                Tally[s] \in Nat /\ Tally'[s] = Tally[s] + Cardinality(Calling(E, s))
        BY <1>0, <1>3, <2>2, TallyCalls DEF E
      <3> QED
        BY <3>1, <3>2
    <2>4. msgq' = Tail(msgq) /\ msgq # <<>>
      BY <1>6 DEF Dequeue
    <2>5. InQueue' = InQueue - 1
      BY <1>2, <2>4 DEF InQueue
    <2>6. /\ Cardinality(Ups(msgq))' \in Nat
          /\ Cardinality(Ups(msgq)) = Cardinality(Ups(msgq))' + OneIf(up)
      BY <1>2, <2>1, <2>4, UpsTail
    <2>7. /\ InFlight = 0 /\ InFlight' = 1 /\ UpInFlight = 0 /\ UpInFlight' = OneIf(up)
          /\ unmapped' = unmapped /\ uncounted_up' = uncounted_up
      BY <1>6, <2>1 DEF Dequeue, UpNow, InFlight, UpInFlight, OneIf
    <2>8. Queued' = Queued
      BY <1>1, <2>3, <2>5, StageTyped DEF Queued, OneIf
    <2>9. Taken' = Taken
      BY <1>1, <2>3, <2>7, StageTyped DEF Taken, OneIf
    <2>10. Released' = Released
      <3>1. OneIf(up) \in Int
        BY DEF OneIf
      <3>2. /\ Tally'["ALL_UP_QUEUED"] = Tally["ALL_UP_QUEUED"] /\ Tally["ALL_UP_QUEUED"] \in Int
            /\ Tally'["ALL_UP_EVICTED"] = Tally["ALL_UP_EVICTED"] /\ Tally["ALL_UP_EVICTED"] \in Int
            /\ Tally'["ALL_UP_ACCEPTED"] = Tally["ALL_UP_ACCEPTED"]
            /\ Tally["ALL_UP_ACCEPTED"] \in Int
            /\ Tally'["ALL_UP_FAILED"] = Tally["ALL_UP_FAILED"] /\ Tally["ALL_UP_FAILED"] \in Int
        BY <2>3, StageTyped DEF OneIf
      <3> QED
        BY <1>1, <2>6, <2>7, <3>1, <3>2 DEF Released
    <2> QED
      BY <1>0, <1>4, <2>8, <2>9, <2>10, BalancesKept DEF Same
  <1>7. CASE NoHost
    <2> DEFINE E == EventIf(dequeued_report, active, "NO_HOST_DROP", no)
               d == OneIf(dequeued_report)
               n == OneIf(dequeued_report /\ all_up_report)
    <2>1. E \in Seq(Events) /\ Calls("hog", E)
      BY <1>2, <1>5, <1>7, EventTyped, StageTyped DEF NoHost
    <2>2. \A s \in HidStages : Cardinality(Calling(E, s)) = IF s = "NO_HOST_DROP" THEN d ELSE 0
      BY <1>2, MaybeCalling DEF OneIf
    <2>3. \A s \in HidStages : Tally[s] \in Nat
                 /\ Tally'[s] = Tally[s] + IF s = "NO_HOST_DROP" THEN d ELSE 0
      <3> HIDE DEF E
      <3>1. \A s \in HidStages :
                Tally[s] \in Nat /\ Tally'[s] = Tally[s] + Cardinality(Calling(E, s))
        BY <1>0, <1>3, <2>1, TallyCalls
      <3> QED
        BY <2>2, <3>1
    <2>4. InQueue' = InQueue /\ Cardinality(Ups(msgq))' = Cardinality(Ups(msgq))
      BY <1>7 DEF NoHost, InQueue
    <2>5. InFlight = d /\ InFlight' = 0 /\ UpInFlight = n /\ UpInFlight' = 0 /\ unmapped' = unmapped
      BY <1>7 DEF NoHost, InFlight, UpInFlight, OneIf
    <2>6. d \in Int /\ n \in {0, 1}
      BY DEF OneIf
    <2>7. uncounted_up' = uncounted_up + n \/ uncounted_up' = uncounted_up + n - TOTAL_MOD
      <3>1. uncounted_up' = (uncounted_up + n) % TOTAL_MOD
        BY <1>7 DEF NoHost, OneIf
      <3>2. uncounted_up \in 0 .. TOTAL_MOD - 1 /\ TOTAL_MOD \in Nat \ {0}
        BY HidAssumption DEF HookType, Totals
      <3> HIDE DEF n
      <3>3. n \in 0 .. TOTAL_MOD
        BY <2>6, <3>2
      <3>4. (uncounted_up + n) % TOTAL_MOD
              = IF uncounted_up + n < TOTAL_MOD THEN uncounted_up + n ELSE uncounted_up + n - TOTAL_MOD
        BY <3>2, <3>3, WrappedAt
      <3> QED
        BY <3>1, <3>4
    <2> HIDE DEF d, n
    <2>8. Queued' = Queued
      BY <1>1, <2>3, <2>4, StageTyped DEF Queued
    <2>9. Taken' = Taken
      BY <1>1, <2>3, <2>5, <2>6, StageTyped DEF Taken
    <2>10. Same(Released, Released')
      <3>1. /\ Tally'["ALL_UP_QUEUED"] = Tally["ALL_UP_QUEUED"] /\ Tally["ALL_UP_QUEUED"] \in Int
            /\ Tally'["ALL_UP_EVICTED"] = Tally["ALL_UP_EVICTED"] /\ Tally["ALL_UP_EVICTED"] \in Int
            /\ Tally'["ALL_UP_ACCEPTED"] = Tally["ALL_UP_ACCEPTED"]
            /\ Tally["ALL_UP_ACCEPTED"] \in Int
            /\ Tally'["ALL_UP_FAILED"] = Tally["ALL_UP_FAILED"] /\ Tally["ALL_UP_FAILED"] \in Int
        BY <2>3, StageTyped
      <3>2. TOTAL_MOD \in Int
        BY HidAssumption
      <3> QED
        BY <1>1, <2>4, <2>5, <2>6, <2>7, <3>1, <3>2 DEF Released, Same
    <2> QED
      BY <1>0, <1>4, <2>8, <2>9, <2>10, BalancesKept DEF Same
  <1>8. ASSUME NEW subscribed \in BOOLEAN, Observed(subscribed) PROVE AccountInv'
    <2> DEFINE E == EventIf(~subscribed, notify_profile', "UNSUBSCRIBED", no)
    <2>1. E \in Seq(Events) /\ Calls("hog", E)
      BY <1>5, <1>8, EventTyped, StageTyped DEF Observed
    <2>2. \A s \in HidStages : s # "UNSUBSCRIBED" => Cardinality(Calling(E, s)) = 0
      BY MaybeCalling DEF OneIf
    <2>3. \A s \in HidStages : /\ Tally[s] \in Nat
                               /\ s # "UNSUBSCRIBED" => Tally'[s] = Tally[s] + 0
      <3> HIDE DEF E
      <3>1. \A s \in HidStages :
                Tally[s] \in Nat /\ Tally'[s] = Tally[s] + Cardinality(Calling(E, s))
        BY <1>0, <1>3, <2>1, TallyCalls
      <3> QED
        BY <2>2, <3>1
    <2>4. InQueue' = InQueue /\ Cardinality(Ups(msgq))' = Cardinality(Ups(msgq))
      BY <1>8 DEF Observed, InQueue
    <2>5. /\ InFlight = 1 /\ InFlight' = 1 /\ UpInFlight' = UpInFlight
          /\ unmapped' = unmapped /\ uncounted_up' = uncounted_up
      BY <1>8 DEF Observed, InFlight, UpInFlight, AccountInv, OneHook
    <2>6. Queued' = Queued /\ Taken' = Taken /\ Released' = Released
      BY <1>1, <2>3, <2>4, <2>5, StageTyped DEF Queued, Taken, Released
    <2> QED
      BY <1>0, <1>4, <2>6, BalancesKept DEF Same
  <1>9. ASSUME NEW err \in BOOLEAN, Notify(err) PROVE AccountInv'
    <2> DEFINE a == IF err THEN "NOTIFY_FAILED" ELSE "NOTIFY_ACCEPTED"
               b == IF err THEN "ALL_UP_FAILED" ELSE "ALL_UP_ACCEPTED"
               E == Event(notify_profile, a, err) \o EventIf(all_up_report, notify_profile, b, err)
               mapped == notify_profile \in Profiles
               m == OneIf(mapped)
               u == OneIf(all_up_report)
               mu == OneIf(all_up_report /\ mapped)
    <2>0. a \in HidStages /\ b \in HidStages
      BY StageTyped
    <2>1. Calls("hog", E)
      BY <1>9 DEF Notify
    <2>2. E \in Seq(Events)
      <3> HIDE DEF a, b
      <3> QED
        BY <1>2, <2>0, EventTyped, TwoEvents
    <2>3. \A s \in HidStages :
              Cardinality(Calling(E, s)) = (IF s = a THEN m ELSE 0) + (IF s = b THEN mu ELSE 0)
      <3> HIDE DEF a, b
      <3>1. CASE mapped
        BY <1>2, <2>0, <3>1, TwoCalling DEF OneIf
      <3>2. CASE ~mapped
        <4>1. E = <<>>
          <5>1. Event(notify_profile, a, err) = <<>>
            BY <3>2 DEF Event
          <5>2. EventIf(all_up_report, notify_profile, b, err) = <<>>
            BY <3>2 DEF EventIf, Event
          <5>3. <<>> \o <<>> = <<>>
            OBVIOUS
          <5> QED
            BY <5>1, <5>2, <5>3
        <4>2. \A s : Cardinality(Calling(<<>>, s)) = 0
          BY NoCalling
        <4>3. m = 0 /\ mu = 0
          BY <3>2 DEF OneIf
        <4> HIDE DEF E, m, mu
        <4> QED
          BY <4>1, <4>2, <4>3
      <3> QED
        BY <3>1, <3>2
    <2>4. \A s \in HidStages : Tally[s] \in Nat
                 /\ Tally'[s] = Tally[s] + ((IF s = a THEN m ELSE 0) + (IF s = b THEN mu ELSE 0))
      <3> HIDE DEF E, a, b
      <3>1. \A s \in HidStages :
                Tally[s] \in Nat /\ Tally'[s] = Tally[s] + Cardinality(Calling(E, s))
        BY <1>0, <1>3, <2>1, <2>2, TallyCalls
      <3> QED
        BY <2>3, <3>1
    <2>5. InQueue' = InQueue /\ Cardinality(Ups(msgq))' = Cardinality(Ups(msgq))
      BY <1>9 DEF Notify, InQueue
    <2>6. InFlight = 1 /\ InFlight' = 0 /\ UpInFlight = u /\ UpInFlight' = 0
      BY <1>9 DEF Notify, InFlight, UpInFlight, AccountInv, OneHook, OneIf
    <2>7. /\ unmapped' = unmapped + (1 - m) \/ unmapped' = unmapped + (1 - m) - TOTAL_MOD
          /\ uncounted_up' = uncounted_up + (u - mu)
               \/ uncounted_up' = uncounted_up + (u - mu) - TOTAL_MOD
      <3>1. /\ OneIf(notify_profile \notin Profiles) = 1 - m
            /\ OneIf(all_up_report /\ notify_profile \notin Profiles) = u - mu
        BY <1>2 DEF OneIf
      <3> HIDE DEF m, u, mu
      <3> QED
        BY <1>0, <1>9, <3>1, HistoriesCounted
    <2>8. m \in Int /\ u \in Int /\ mu \in Int /\ TOTAL_MOD \in Int
      BY HidAssumption DEF OneIf
    <2> HIDE DEF m, u, mu
    <2>9. Queued' = Queued
      BY <1>1, <2>4, <2>5, StageTyped DEF Queued
    <2>10. Same(Taken, Taken')
      <3>1. /\ Tally["DEQUEUED"] \in Int /\ Tally["NO_HOST_DROP"] \in Int
            /\ Tally["NOTIFY_ACCEPTED"] \in Int /\ Tally["NOTIFY_FAILED"] \in Int
            /\ Tally'["DEQUEUED"] = Tally["DEQUEUED"] /\ Tally'["NO_HOST_DROP"] = Tally["NO_HOST_DROP"]
        BY <2>4, StageTyped
      <3>2. Tally'["NOTIFY_ACCEPTED"] + Tally'["NOTIFY_FAILED"]
              = Tally["NOTIFY_ACCEPTED"] + Tally["NOTIFY_FAILED"] + m
            /\ Tally'["NOTIFY_ACCEPTED"] \in Int /\ Tally'["NOTIFY_FAILED"] \in Int
        <4>1. CASE err
          BY <2>4, <2>8, <4>1, StageTyped
        <4>2. CASE ~err
          BY <2>4, <2>8, <4>2, StageTyped
        <4> QED
          BY <4>1, <4>2
      <3> QED
        BY <1>1, <2>6, <2>7, <2>8, <3>1, <3>2 DEF Taken, Same
    <2>11. Same(Released, Released')
      <3>1. /\ Tally["ALL_UP_QUEUED"] \in Int /\ Tally["ALL_UP_EVICTED"] \in Int
            /\ Tally["ALL_UP_ACCEPTED"] \in Int /\ Tally["ALL_UP_FAILED"] \in Int
            /\ Tally'["ALL_UP_QUEUED"] = Tally["ALL_UP_QUEUED"]
            /\ Tally'["ALL_UP_EVICTED"] = Tally["ALL_UP_EVICTED"]
        BY <2>4, StageTyped
      <3>2. Tally'["ALL_UP_ACCEPTED"] + Tally'["ALL_UP_FAILED"]
              = Tally["ALL_UP_ACCEPTED"] + Tally["ALL_UP_FAILED"] + mu
            /\ Tally'["ALL_UP_ACCEPTED"] \in Int /\ Tally'["ALL_UP_FAILED"] \in Int
        <4>1. CASE err
          BY <2>4, <2>8, <4>1, StageTyped
        <4>2. CASE ~err
          BY <2>4, <2>8, <4>2, StageTyped
        <4> QED
          BY <4>1, <4>2
      <3> QED
        BY <1>1, <2>5, <2>6, <2>7, <2>8, <3>1, <3>2 DEF Released, Same
    <2> QED
      BY <1>0, <1>4, <2>9, <2>10, <2>11, BalancesKept DEF Same
  <1> QED
    BY <1>6, <1>7, <1>8, <1>9 DEF HidWorker

\* The steps of flush_counts leave the totals, and so the account, alone.
LEMMA AccountFlush ==
    ASSUME HidInv, AccountInv, FlushStart \/ FlushOne \/ FlushPass
    PROVE  AccountInv'
  <1>1. UNCHANGED <<todo, hookVars>>
    BY DEF FlushStart, FlushOne, FlushPass
  <1>2. \A k \in Counters : counts'[k].total = counts[k].total
    <2>1. CASE FlushOne
      <3>1. counts' = Copied(At(flush)) /\ counts \in [Counters -> CounterStates]
        BY <2>1 DEF FlushOne, HidInv, CountType
      <3> QED
        BY <3>1 DEF Copied, CounterStates
    <2>2. CASE FlushStart \/ FlushPass
      BY <2>2 DEF FlushStart, FlushPass
    <2> QED
      BY <2>1, <2>2
  <1> QED
    BY <1>1, <1>2, AccountFrame DEF HidInv, hookVars

\* Every step of the counters and their hooks keeps the account.
LEMMA AccountKeeps ==
    ASSUME HidInv, AccountInv,
           \/ \E err \in BOOLEAN : Release(err)
           \/ \E up \in BOOLEAN : PutStart(up)
           \/ \E p \in Profiles : Select(p)
           \/ HidWorker \/ HidKeys \/ HidCounting
           \/ FlushStart \/ FlushOne \/ FlushPass
           \/ UNCHANGED hidVars
    PROVE  AccountInv'
  <1>1. ASSUME NEW up, PutStart(up) PROVE AccountInv'
    BY <1>1, AccountFrame DEF PutStart, HidInv, Free
  <1>2. ASSUME NEW p \in Profiles, Select(p) PROVE AccountInv'
    BY <1>2, AccountFrame DEF Select, HidInv
  <1>3. ASSUME NEW t \in HidThreads, Schedule(t) PROVE AccountInv'
    BY <1>3, AccountFrame DEF Schedule, HidInv, hookVars
  <1>4. CASE UNCHANGED hidVars
    BY <1>4, AccountFrame DEF HidInv, hidVars
  <1>5. CASE HostFound
    BY <1>5, AccountFrame DEF HostFound, HidInv
  <1> QED
    BY <1>1, <1>2, <1>3, <1>4, <1>5, AccountCount, AccountKeys, AccountWorker, AccountFlush
    DEF HidKeys, PutAgain, HidCounting

-----------------------------------------------------------------------------
(* The order of the records.                                               *)

\* Rank for a kind, and where the event of a kind is observed.
RankIn(k, stage) == CHOOSE i \in DOMAIN Stages(k) : Stages(k)[i] = stage
Arrival(k) == IF k \in LtkKinds THEN 2 ELSE 1
Remote == LtkKinds \cup {"encrypt"}

\* What is stored of an exchange and what the journal has of it comes before
\* low, in order, and an exchange that has not begun has nothing.
Followed(acc, kd, tr, low) ==
    /\ \A i \in DOMAIN acc :
          LET n == acc[i][1] r == RankIn(kd[n], acc[i][2])
          IN  kd[n] \in Kinds /\ r \in Nat /\ tr[n] < r /\ r < low[n]
    /\ \A i, j \in DOMAIN acc :
          i < j /\ acc[i][1] = acc[j][1]
            => RankIn(kd[acc[i][1]], acc[i][2]) < RankIn(kd[acc[j][1]], acc[j][2])
    /\ \A n \in Exchanges : tr[n] < low[n] /\ (kd[n] = "none" => tr[n] = 0)

\* What the threads have still to capture of an exchange starts at low, and an
\* exchange is with one thread, or on the queue once.
RxFrom(low) ==
    \/ hooks["rx"] = <<>>
    \/ \E n \in Exchanges :
          /\ kind[n] \in Remote
          /\ \/ hooks["rx"] = slist_put(n) /\ low[n] = Arrival(kind[n])
             \/ hooks["rx"] = << <<n, "put">> >> /\ low[n] = Arrival(kind[n]) + 1
          /\ \A i \in DOMAIN rx_queue : rx_queue[i] # n
          /\ \A j \in DOMAIN hooks["host"] : hooks["host"][j][1] # n
QueueFrom(low) ==
    /\ \A i \in DOMAIN rx_queue :
          LET n == rx_queue[i]
          IN  /\ kind[n] \in Remote /\ low[n] = Arrival(kind[n]) + 1
              /\ \A j \in DOMAIN hooks["host"] : hooks["host"][j][1] # n
    /\ \A i, j \in DOMAIN rx_queue : rx_queue[i] = rx_queue[j] => i = j
HostFrom(low) ==
    \/ hooks["host"] = <<>>
    \/ \E n \in Exchanges :
          /\ kind[n] \in Kinds /\ low[n] + Len(hooks["host"]) = Len(Stages(kind[n])) + 1
          /\ \A j \in DOMAIN hooks["host"] :
                hooks["host"][j] = <<n, Stages(kind[n])[low[n] + j - 1]>>

CausalFrom(low) ==
    Followed(accepted, kind, trace, low) /\ RxFrom(low) /\ QueueFrom(low) /\ HostFrom(low)
CausalInv ==
    /\ kind \in [Exchanges -> Kinds \cup {"none"}] /\ trace \in [Exchanges -> Nat]
    /\ \E low \in [Exchanges -> Nat \ {0}] : CausalFrom(low)

\* The records of each kind, no two of them alike.
LEMMA StagesOf ==
    /\ Stages("request") = <<"request", "requested">>
    /\ Stages("ltk") = <<"received", "arrived", "taken", "reply", "queued", "replied">>
    /\ Stages("refused") = <<"received", "arrived", "taken", "reply", "replied">>
    /\ Stages("encrypt") = <<"arrived", "taken", "changed", "channels", "done">>
  BY DEF Stages

\* So the rank of a record is its place.
LEMMA RankAt ==
    ASSUME NEW k \in Kinds, NEW i \in DOMAIN Stages(k)
    PROVE  RankIn(k, Stages(k)[i]) = i /\ i \in Nat \ {0}
  <1>1. \A a, b \in DOMAIN Stages(k) : Stages(k)[a] = Stages(k)[b] => a = b
    <2>1. CASE k = "request"
      BY <2>1, StagesOf
    <2>2. CASE k = "ltk"
      BY <2>2, StagesOf
    <2>3. CASE k = "encrypt"
      BY <2>3, StagesOf
    <2>4. CASE k = "refused"
      BY <2>4, StagesOf
    <2> QED
      BY <2>1, <2>2, <2>3, <2>4 DEF Kinds, LtkKinds
  <1>2. RankIn(k, Stages(k)[i]) \in DOMAIN Stages(k)
        /\ Stages(k)[RankIn(k, Stages(k)[i])] = Stages(k)[i]
    BY DEF RankIn
  <1>3. i \in Nat \ {0}
    <2>1. CASE k = "request"
      BY <2>1, StagesOf
    <2>2. CASE k = "ltk"
      BY <2>2, StagesOf
    <2>3. CASE k = "encrypt"
      BY <2>3, StagesOf
    <2>4. CASE k = "refused"
      BY <2>4, StagesOf
    <2> QED
      BY <2>1, <2>2, <2>3, <2>4 DEF Kinds, LtkKinds
  <1> QED
    BY <1>1, <1>2, <1>3

\* An event is observed before it is put on the queue, and handled in three or
\* four hooks once it is taken off.
Hooked(k) == IF k = "refused" THEN 3 ELSE 4
LEMMA EventRanks ==
    ASSUME NEW k \in Remote
    PROVE  /\ k \in Kinds /\ Arrival(k) \in Nat \ {0} /\ Arrival(k) \in DOMAIN Stages(k)
           /\ Hooked(k) \in Nat
           /\ Len(Stages(k)) = Arrival(k) + Hooked(k)
           /\ DOMAIN Stages(k) = 1 .. Arrival(k) + Hooked(k)
           /\ Stages(k)[Arrival(k)] = "arrived"
           /\ DOMAIN Handling(k) = 1 .. Hooked(k)
           /\ \A j \in 1 .. Hooked(k) : Handling(k)[j] = Stages(k)[Arrival(k) + j]
  <1>1. CASE k = "ltk"
    <2>1. Arrival(k) = 2 /\ Hooked(k) = 4 /\ Handling(k) = LtkHandling /\ k \in Kinds
      BY <1>1 DEF Arrival, Hooked, Handling, Kinds, LtkKinds
    <2>2. /\ Len(Stages("ltk")) = 2 + 4 /\ DOMAIN Stages("ltk") = 1 .. 2 + 4
          /\ 2 \in DOMAIN Stages("ltk") /\ Stages("ltk")[2] = "arrived"
      BY StagesOf
    <2>3. DOMAIN LtkHandling = 1 .. 4 /\ \A j \in 1 .. 4 : LtkHandling[j] = Stages("ltk")[2 + j]
      BY StagesOf DEF LtkHandling
    <2> QED
      <3>1. Stages(k) = Stages("ltk") /\ Handling(k) = LtkHandling
        BY <1>1, <2>1
      <3>2. k \in Kinds /\ Arrival(k) = 2 /\ Hooked(k) = 4
        BY <2>1
      <3>3. Arrival(k) \in Nat \ {0} /\ Hooked(k) \in Nat
        BY <2>1
      <3> QED
        BY <2>2, <2>3, <3>1, <3>2, <3>3, Zenon
  <1>2. CASE k = "refused"
    <2>1. Arrival(k) = 2 /\ Hooked(k) = 3 /\ Handling(k) = RefusalHandling /\ k \in Kinds
      BY <1>2 DEF Arrival, Hooked, Handling, Kinds, LtkKinds
    <2>2. /\ Len(Stages("refused")) = 2 + 3 /\ DOMAIN Stages("refused") = 1 .. 2 + 3
          /\ 2 \in DOMAIN Stages("refused") /\ Stages("refused")[2] = "arrived"
      BY StagesOf
    <2>3. DOMAIN RefusalHandling = 1 .. 3 /\ \A j \in 1 .. 3 : RefusalHandling[j] = Stages("refused")[2 + j]
      BY StagesOf DEF RefusalHandling
    <2> QED
      <3>1. Stages(k) = Stages("refused") /\ Handling(k) = RefusalHandling
        BY <1>2, <2>1
      <3>2. k \in Kinds /\ Arrival(k) = 2 /\ Hooked(k) = 3
        BY <2>1
      <3>3. Arrival(k) \in Nat \ {0} /\ Hooked(k) \in Nat
        BY <2>1
      <3> QED
        BY <2>2, <2>3, <3>1, <3>2, <3>3, Zenon
  <1>3. CASE k = "encrypt"
    <2>1. Arrival(k) = 1 /\ Hooked(k) = 4 /\ Handling(k) = EncryptHandling /\ k \in Kinds
      BY <1>3 DEF Arrival, Hooked, Handling, Kinds, LtkKinds
    <2>2. /\ Len(Stages("encrypt")) = 1 + 4 /\ DOMAIN Stages("encrypt") = 1 .. 1 + 4
          /\ 1 \in DOMAIN Stages("encrypt") /\ Stages("encrypt")[1] = "arrived"
      BY StagesOf
    <2>3. DOMAIN EncryptHandling = 1 .. 4 /\ \A j \in 1 .. 4 : EncryptHandling[j] = Stages("encrypt")[1 + j]
      BY StagesOf DEF EncryptHandling
    <2> QED
      <3>1. Stages(k) = Stages("encrypt") /\ Handling(k) = EncryptHandling
        BY <1>3, <2>1
      <3>2. k \in Kinds /\ Arrival(k) = 1 /\ Hooked(k) = 4
        BY <2>1
      <3>3. Arrival(k) \in Nat \ {0} /\ Hooked(k) \in Nat
        BY <2>1
      <3> QED
        BY <2>2, <2>3, <3>1, <3>2, <3>3, Zenon
  <1> QED
    BY <1>1, <1>2, <1>3 DEF Remote, LtkKinds

\* A hook passes: what is still to come comes later.
LEMMA FollowedLater ==
    ASSUME NEW acc \in Seq(Hooks), NEW kd, NEW tr \in [Exchanges -> Nat],
           NEW low \in [Exchanges -> Nat], NEW next \in [Exchanges -> Nat],
           Followed(acc, kd, tr, low), \A n \in Exchanges : low[n] <= next[n]
    PROVE  Followed(acc, kd, tr, next)
  <1>1. \A i \in DOMAIN acc : acc[i][1] \in Exchanges
    BY DEF Hooks
  <1>2. \A i \in DOMAIN acc :
            LET n == acc[i][1] r == RankIn(kd[n], acc[i][2])
            IN  kd[n] \in Kinds /\ r \in Nat /\ tr[n] < r /\ r < next[n]
    BY <1>1 DEF Followed
  <1> QED
    BY <1>2 DEF Followed

\* Its record is stored.
LEMMA FollowedStore ==
    ASSUME NEW acc \in Seq(Hooks), NEW kd, NEW tr \in [Exchanges -> Nat],
           NEW low \in [Exchanges -> Nat], NEW next \in [Exchanges -> Nat],
           Followed(acc, kd, tr, low), \A m \in Exchanges : low[m] <= next[m],
           NEW record \in Hooks, kd[record[1]] \in Kinds,
           RankIn(kd[record[1]], record[2]) = low[record[1]], low[record[1]] < next[record[1]]
    PROVE  Followed(Append(acc, record), kd, tr, next)
  <1> DEFINE n == record[1]
             q == Append(acc, record)
             l == Len(acc) + 1
  <1>0. n \in Exchanges
    BY DEF Hooks
  <1>1. /\ Len(acc) \in Nat /\ DOMAIN acc = 1 .. Len(acc) /\ DOMAIN q = 1 .. l
        /\ q[l] = record /\ \A i \in 1 .. Len(acc) : q[i] = acc[i]
    OBVIOUS
  <1>2. Followed(acc, kd, tr, next)
    BY FollowedLater
  <1>3. /\ low[n] \in Nat /\ next[n] \in Nat /\ tr[n] < low[n]
        /\ RankIn(kd[n], record[2]) = low[n]
    BY <1>0 DEF Followed
  <1> HIDE DEF q, l
  <1>4. ASSUME NEW i \in DOMAIN q
        PROVE  LET m == q[i][1] r == RankIn(kd[m], q[i][2])
               IN  kd[m] \in Kinds /\ r \in Nat /\ tr[m] < r /\ r < next[m]
    <2>1. CASE i = l
      BY <1>0, <1>1, <1>3, <2>1
    <2>2. CASE i # l
      <3>1. i \in DOMAIN acc /\ q[i] = acc[i]
        BY <1>1, <2>2 DEF l
      <3> QED
        BY <1>2, <3>1 DEF Followed
    <2> QED
      BY <2>1, <2>2
  <1>5. ASSUME NEW i \in DOMAIN q, NEW j \in DOMAIN q, i < j, q[i][1] = q[j][1]
        PROVE  RankIn(kd[q[i][1]], q[i][2]) < RankIn(kd[q[j][1]], q[j][2])
    <2>1. i \in DOMAIN acc /\ q[i] = acc[i]
      BY <1>1, <1>5 DEF l
    <2>2. CASE j = l
      <3>1. acc[i][1] = n /\ q[j] = record
        BY <1>1, <1>5, <2>1, <2>2
      <3>2. RankIn(kd[acc[i][1]], acc[i][2]) < low[acc[i][1]]
        BY <2>1 DEF Followed
      <3> QED
        BY <1>3, <2>1, <3>1, <3>2
    <2>3. CASE j # l
      <3>1. j \in DOMAIN acc /\ q[j] = acc[j]
        BY <1>1, <2>3 DEF l
      <3> QED
        BY <1>5, <2>1, <3>1 DEF Followed
    <2> QED
      BY <2>2, <2>3
  <1> QED
    BY <1>2, <1>4, <1>5 DEF Followed, q

\* An exchange begins.
LEMMA FollowedBegin ==
    ASSUME NEW acc \in Seq(Hooks), NEW kd \in [Exchanges -> Kinds \cup {"none"}],
           NEW tr \in [Exchanges -> Nat],
           NEW low \in [Exchanges -> Nat], Followed(acc, kd, tr, low),
           NEW n \in Exchanges, kd[n] = "none", NEW k \in Kinds, NEW first \in Nat \ {0}
    PROVE  Followed(acc, [kd EXCEPT ![n] = k], tr, [low EXCEPT ![n] = first])
  <1> DEFINE kd2 == [kd EXCEPT ![n] = k]
             low2 == [low EXCEPT ![n] = first]
  <1>1. \A i \in DOMAIN acc : acc[i][1] \in Exchanges
    BY DEF Hooks
  <1>2. "none" \notin Kinds
    BY DEF Kinds, LtkKinds
  <1>3. \A i \in DOMAIN acc : acc[i][1] # n
    BY <1>2 DEF Followed
  <1>4. \A m \in Exchanges : m # n => kd2[m] = kd[m] /\ low2[m] = low[m]
    OBVIOUS
  <1>5. kd2[n] = k /\ low2[n] = first
    OBVIOUS
  <1> HIDE DEF kd2, low2
  <1>6. \A i \in DOMAIN acc : kd2[acc[i][1]] = kd[acc[i][1]] /\ low2[acc[i][1]] = low[acc[i][1]]
    BY <1>1, <1>3, <1>4
  <1>7. \A i \in DOMAIN acc :
            LET m == acc[i][1] r == RankIn(kd2[m], acc[i][2])
            IN  kd2[m] \in Kinds /\ r \in Nat /\ tr[m] < r /\ r < low2[m]
    BY <1>6 DEF Followed
  <1>8. \A i, j \in DOMAIN acc :
            i < j /\ acc[i][1] = acc[j][1]
              => RankIn(kd2[acc[i][1]], acc[i][2]) < RankIn(kd2[acc[j][1]], acc[j][2])
    BY <1>6 DEF Followed
  <1>9. ASSUME NEW m \in Exchanges PROVE tr[m] < low2[m] /\ (kd2[m] = "none" => tr[m] = 0)
    <2>1. CASE m = n
      BY <1>2, <1>5, <2>1 DEF Followed
    <2>2. CASE m # n
      BY <1>4, <2>2 DEF Followed
    <2> QED
      BY <2>1, <2>2
  <1> QED
    BY <1>7, <1>8, <1>9 DEF Followed, kd2, low2

\* The journal gets the oldest record.
LEMMA FollowedRecord ==
    ASSUME NEW acc \in Seq(Hooks), acc # <<>>, NEW kd \in [Exchanges -> Kinds \cup {"none"}],
           NEW tr \in [Exchanges -> Nat],
           NEW low \in [Exchanges -> Nat], Followed(acc, kd, tr, low)
    PROVE  LET n == acc[1][1]
               r == RankIn(kd[n], acc[1][2])
           IN  /\ n \in Exchanges /\ r \in Nat /\ tr[n] < r
               /\ Followed(Tail(acc), kd, [tr EXCEPT ![n] = r], low)
  <1> DEFINE n == acc[1][1]
             r == RankIn(kd[n], acc[1][2])
             tr2 == [tr EXCEPT ![n] = r]
             q == Tail(acc)
  <1>1. /\ Len(acc) \in Nat \ {0} /\ DOMAIN acc = 1 .. Len(acc) /\ DOMAIN q = 1 .. Len(acc) - 1
        /\ \A i \in 1 .. Len(acc) - 1 : q[i] = acc[i + 1]
    OBVIOUS
  <1>2. 1 \in DOMAIN acc /\ \A i \in DOMAIN acc : acc[i][1] \in Exchanges
    BY <1>1 DEF Hooks
  <1>3. n \in Exchanges /\ kd[n] \in Kinds /\ r \in Nat /\ tr[n] < r /\ r < low[n]
    BY <1>2 DEF Followed
  <1>4. tr2[n] = r /\ \A m \in Exchanges : m # n => tr2[m] = tr[m]
    BY <1>3
  <1> HIDE DEF q, tr2
  <1>5. ASSUME NEW i \in DOMAIN q
        PROVE  LET m == q[i][1] v == RankIn(kd[m], q[i][2])
               IN  kd[m] \in Kinds /\ v \in Nat /\ tr2[m] < v /\ v < low[m]
    <2> DEFINE m == acc[i + 1][1]
               v == RankIn(kd[m], acc[i + 1][2])
    <2>1. i + 1 \in DOMAIN acc /\ 1 < i + 1 /\ q[i] = acc[i + 1]
      BY <1>1
    <2>2. m \in Exchanges /\ kd[m] \in Kinds /\ v \in Nat /\ tr[m] < v /\ v < low[m]
      BY <1>2, <2>1 DEF Followed
    <2>3. m = n => r < v
      BY <1>2, <2>1 DEF Followed
    <2>4. tr2[m] < v
      BY <1>4, <2>2, <2>3
    <2> QED
      BY <2>1, <2>2, <2>4
  <1>6. ASSUME NEW i \in DOMAIN q, NEW j \in DOMAIN q, i < j, q[i][1] = q[j][1]
        PROVE  RankIn(kd[q[i][1]], q[i][2]) < RankIn(kd[q[j][1]], q[j][2])
    <2>1. /\ i + 1 \in DOMAIN acc /\ j + 1 \in DOMAIN acc /\ i + 1 < j + 1
          /\ q[i] = acc[i + 1] /\ q[j] = acc[j + 1]
      BY <1>1, <1>6
    <2> QED
      BY <1>6, <2>1 DEF Followed
  <1>7. ASSUME NEW m \in Exchanges PROVE tr2[m] < low[m] /\ (kd[m] = "none" => tr2[m] = 0)
    <2>1. CASE m = n
      BY <1>3, <1>4, <2>1 DEF Kinds, LtkKinds
    <2>2. CASE m # n
      BY <1>4, <2>2 DEF Followed
    <2> QED
      BY <2>1, <2>2
  <1> QED
    BY <1>3, <1>5, <1>6, <1>7 DEF Followed, q, tr2

\* Nothing is captured at the start.
LEMMA CausalInit == SecurityInit /\ InboxInit => CausalInv
  <1> SUFFICES ASSUME SecurityInit, InboxInit PROVE CausalInv
    OBVIOUS
  <1> DEFINE low == [n \in Exchanges |-> 1]
  <1>1. kind \in [Exchanges -> Kinds \cup {"none"}] /\ trace \in [Exchanges -> Nat]
    BY DEF SecurityInit
  <1>2. low \in [Exchanges -> Nat \ {0}]
    OBVIOUS
  <1>3. Followed(accepted, kind, trace, low)
    BY DEF SecurityInit, InboxInit, Followed
  <1>4. RxFrom(low) /\ QueueFrom(low) /\ HostFrom(low)
    BY DEF SecurityInit, SecThreads, RxFrom, QueueFrom, HostFrom
  <1> QED
    BY <1>1, <1>2, <1>3, <1>4 DEF CausalInv, CausalFrom

\* A capture is stored or dropped.
LEMMA StoreEffect ==
    ASSUME NEW record, Store(record)
    PROVE  accepted' = accepted \/ accepted' = Append(accepted, record)
  BY DEF Store

\* A step that leaves the hooks and the inbox's records alone.
LEMMA CausalFrame ==
    ASSUME CausalInv, UNCHANGED <<securityVars, accepted>>
    PROVE  CausalInv'
  <1>1. PICK low \in [Exchanges -> Nat \ {0}] : CausalFrom(low)
    BY DEF CausalInv
  <1>2. UNCHANGED <<kind, rx_queue, hooks, trace, accepted>>
    BY DEF securityVars
  <1>3. CausalFrom(low)'
    BY <1>1, <1>2 DEF CausalFrom, Followed, RxFrom, QueueFrom, HostFrom, slist_put
  <1> QED
    BY <1>2, <1>3 DEF CausalInv

\* A new number has nothing yet.
LEMMA UnusedNew ==
    ASSUME NEW n \in Exchanges, Unused(n)
    PROVE  kind[n] = "none"
  <1>1. n >= n
    BY ExchangeAssumption
  <1> QED
    BY <1>1 DEF Unused

\* The first hook of an exchange.
LEMMA CausalBegin ==
    ASSUME HookInv, CausalInv, accepted \in Seq(Hooks), NEW n \in Exchanges,
           SecurityRequest(n) \/ LtkRequested(n) \/ EncryptionChanged(n)
    PROVE  CausalInv'
  <1>1. PICK low \in [Exchanges -> Nat \ {0}] : CausalFrom(low)
    BY DEF CausalInv
  <1>2. kind[n] = "none" /\ "none" \notin Kinds /\ "none" \notin Remote
    BY UnusedNew DEF SecurityRequest, LtkRequested, EncryptionChanged, Kinds, Remote, LtkKinds
  <1>3. kind \in [Exchanges -> Kinds \cup {"none"}] /\ trace \in [Exchanges -> Nat]
    BY DEF CausalInv
  <1>4. /\ "rx" \in SecThreads /\ "host" \in SecThreads /\ "rx" # "host"
        /\ hooks \in [SecThreads -> Seq(Hooks)] /\ rx_queue \in Seq(Exchanges)
    BY DEF HookInv, SecThreads
  <1>5. \A i \in DOMAIN rx_queue : rx_queue[i] \in Exchanges /\ rx_queue[i] # n
    <2>1. \A i \in DOMAIN rx_queue : rx_queue[i] \in Exchanges
      BY <1>4
    <2> QED
      BY <1>1, <1>2, <2>1 DEF CausalFrom, QueueFrom
  <1>6. UNCHANGED <<rx_queue, trace>>
    BY DEF SecurityRequest, LtkRequested, EncryptionChanged
  <1>7. low \in [Exchanges -> Nat]
    BY <1>1
  <1>8. CASE SecurityRequest(n)
    <2> DEFINE low2 == [low EXCEPT ![n] = 1]
    <2>1. kind' = [kind EXCEPT ![n] = "request"] /\ accepted' = accepted
      BY <1>8 DEF SecurityRequest, inboxVars, inboxData
    <2>2. kind' \in [Exchanges -> Kinds \cup {"none"}] /\ low2 \in [Exchanges -> Nat \ {0}]
      BY <1>1, <1>3, <2>1 DEF Kinds
    <2>3. /\ kind'[n] = "request" /\ low2[n] = 1
          /\ \A m \in Exchanges : m # n => kind'[m] = kind[m] /\ low2[m] = low[m]
      BY <1>1, <1>3, <2>1
    <2>4. Followed(accepted', kind', trace', low2)
      <3>1. "request" \in Kinds /\ 1 \in Nat \ {0}
        BY DEF Kinds
      <3>2. Followed(accepted, kind, trace, low)
        BY <1>1 DEF CausalFrom
      <3> QED
        BY <1>2, <1>3, <1>6, <1>7, <2>1, <3>1, <3>2, FollowedBegin
    <2> HIDE DEF low2
    <2>5. /\ hooks["host"] = <<>> /\ hooks'["rx"] = hooks["rx"]
          /\ hooks'["host"] = Captures(n, Stages("request"))
      BY <1>4, <1>8 DEF SecurityRequest
    <2>6. /\ Len(hooks'["host"]) = 2 /\ DOMAIN hooks'["host"] = 1 .. 2
          /\ \A j \in 1 .. 2 : hooks'["host"][j] = <<n, Stages("request")[j]>>
      <3>1. Stages("request") \in Seq(HookNames) /\ DOMAIN Stages("request") = 1 .. 2
        BY HandlingTyped, StagesOf
      <3>2. hooks'["host"] \in Seq(Hooks)
        BY <2>5, <3>1, CapturesTyped
      <3> QED
        BY <2>5, <3>1, <3>2 DEF Captures
    <2>7. RxFrom(low2)'
      <3>1. CASE hooks["rx"] = <<>>
        BY <2>5, <3>1 DEF RxFrom
      <3>2. CASE hooks["rx"] # <<>>
        <4>1. PICK m \in Exchanges :
                 /\ kind[m] \in Remote
                 /\ \/ hooks["rx"] = slist_put(m) /\ low[m] = Arrival(kind[m])
                    \/ hooks["rx"] = << <<m, "put">> >> /\ low[m] = Arrival(kind[m]) + 1
                 /\ \A i \in DOMAIN rx_queue : rx_queue[i] # m
          BY <1>1, <3>2 DEF CausalFrom, RxFrom
        <4>2. m # n /\ kind'[m] = kind[m] /\ low2[m] = low[m]
          BY <1>2, <2>3, <4>1
        <4>3. \A j \in DOMAIN hooks'["host"] : hooks'["host"][j][1] # m
          BY <2>6, <4>2
        <4> QED
          BY <1>6, <2>5, <4>1, <4>2, <4>3 DEF RxFrom, slist_put
      <3> QED
        BY <3>1, <3>2
    <2>8. QueueFrom(low2)'
      <3>1. \A i \in DOMAIN rx_queue :
                kind'[rx_queue[i]] = kind[rx_queue[i]] /\ low2[rx_queue[i]] = low[rx_queue[i]]
        BY <1>5, <2>3
      <3>2. \A i \in DOMAIN rx_queue : \A j \in DOMAIN hooks'["host"] :
                hooks'["host"][j][1] # rx_queue[i]
        BY <1>5, <2>6
      <3> QED
        BY <1>1, <1>6, <3>1, <3>2 DEF CausalFrom, QueueFrom
    <2>9. HostFrom(low2)'
      <3>1. kind'[n] \in Kinds /\ low2[n] + Len(hooks'["host"]) = Len(Stages(kind'[n])) + 1
        <4>1. Len(Stages(kind'[n])) = 2
          BY <2>3, StagesOf
        <4>2. "request" \in Kinds
          BY DEF Kinds
        <4>3. kind'[n] \in Kinds
          BY <2>3, <4>2
        <4>4. low2[n] = 1 /\ Len(hooks'["host"]) = 2
          BY <2>3, <2>6
        <4>5. low2[n] + Len(hooks'["host"]) = Len(Stages(kind'[n])) + 1
          BY <4>1, <4>4
        <4> QED
          BY <4>3, <4>5
      <3>2. \A j \in DOMAIN hooks'["host"] :
                hooks'["host"][j] = <<n, Stages(kind'[n])[low2[n] + j - 1]>>
        <4>1. \A j \in 1 .. 2 : 1 + j - 1 = j
          OBVIOUS
        <4> QED
          BY <2>3, <2>6, <4>1
      <3> QED
        BY <3>1, <3>2 DEF HostFrom
    <2> QED
      BY <1>3, <1>6, <2>2, <2>4, <2>7, <2>8, <2>9 DEF CausalInv, CausalFrom
  <1>9. CASE LtkRequested(n) \/ EncryptionChanged(n)
    <2>1. PICK k \in Remote : /\ kind' = [kind EXCEPT ![n] = k]
                              /\ \/ k \in LtkKinds /\ LtkRequested(n)
                                 \/ k = "encrypt" /\ EncryptionChanged(n)
      BY <1>9 DEF LtkRequested, EncryptionChanged, Remote
    <2> DEFINE low2 == [low EXCEPT ![n] = Arrival(k)]
    <2>2. k \in Kinds /\ Arrival(k) \in Nat \ {0}
      BY EventRanks
    <2>3. kind' \in [Exchanges -> Kinds \cup {"none"}] /\ low2 \in [Exchanges -> Nat \ {0}]
      BY <1>1, <1>3, <2>1, <2>2
    <2>4. /\ kind'[n] = k /\ low2[n] = Arrival(k)
          /\ \A m \in Exchanges : m # n => kind'[m] = kind[m] /\ low2[m] = low[m]
      BY <1>1, <1>3, <2>1
    <2>5. Followed(accepted, kind, trace, low)
      BY <1>1 DEF CausalFrom
    <2>6. Followed(accepted', kind', trace', low2)
      <3>1. CASE EncryptionChanged(n)
        <4>1. accepted' = accepted
          BY <3>1 DEF EncryptionChanged, inboxVars, inboxData
        <4> QED
          BY <1>2, <1>3, <1>6, <1>7, <2>1, <2>2, <2>5, <4>1, FollowedBegin
      <3>2. CASE k \in LtkKinds /\ LtkRequested(n)
        <4> DEFINE low1 == [low EXCEPT ![n] = 1]
        <4>1. Followed(accepted, kind', trace, low1)
          <5>1. 1 \in Nat \ {0}
            OBVIOUS
          <5> QED
            BY <1>2, <1>3, <1>7, <2>1, <2>2, <2>5, <5>1, FollowedBegin
        <4>2. low1 \in [Exchanges -> Nat] /\ low2 \in [Exchanges -> Nat]
          BY <1>7, <2>3
        <4>3. /\ \A m \in Exchanges : low1[m] <= low2[m]
              /\ low1[n] = 1 /\ low1[n] < low2[n]
          BY <1>7, <3>2 DEF Arrival
        <4> DEFINE record == <<n, "received">>
        <4>4. record \in Hooks /\ record[1] = n /\ record[2] = "received"
          BY DEF Hooks, HookNames
        <4>5. RankIn(k, "received") = 1
          <5>1. k \in Kinds /\ 1 \in DOMAIN Stages(k) /\ Stages(k)[1] = "received"
            BY <2>2, <3>2, StagesOf DEF LtkKinds
          <5> QED
            BY <5>1, RankAt
        <4>6. accepted' = accepted \/ accepted' = Append(accepted, record)
          BY <3>2, StoreEffect DEF LtkRequested, CaptureInIsr
        <4> HIDE DEF low1, low2, record
        <4>7. Followed(accepted, kind', trace, low2)
          BY <1>3, <4>1, <4>2, <4>3, FollowedLater
        <4>8. Followed(Append(accepted, record), kind', trace, low2)
          <5>1. kind'[record[1]] \in Kinds /\ RankIn(kind'[record[1]], record[2]) = low1[record[1]]
            BY <2>2, <2>4, <3>2, <4>3, <4>4, <4>5
          <5>2. low1[record[1]] < low2[record[1]]
            BY <4>3, <4>4
          <5> QED
            BY <1>3, <4>1, <4>2, <4>3, <4>4, <5>1, <5>2, FollowedStore
        <4> QED
          BY <1>6, <4>6, <4>7, <4>8
      <3> QED
        BY <2>1, <3>1, <3>2
    <2> HIDE DEF low2
    <2>7. hooks["rx"] = <<>> /\ hooks'["host"] = hooks["host"] /\ hooks'["rx"] = slist_put(n)
      BY <1>4, <1>9 DEF LtkRequested, EncryptionChanged
    <2>8. \A j \in DOMAIN hooks["host"] : hooks["host"][j][1] # n
      <3>1. CASE hooks["host"] = <<>>
        BY <3>1
      <3>2. CASE hooks["host"] # <<>>
        <4>1. PICK m \in Exchanges :
                 kind[m] \in Kinds /\ \A j \in DOMAIN hooks["host"] :
                   hooks["host"][j] = <<m, Stages(kind[m])[low[m] + j - 1]>>
          BY <1>1, <3>2 DEF CausalFrom, HostFrom
        <4> QED
          BY <1>2, <4>1
      <3> QED
        BY <3>1, <3>2
    <2>9. RxFrom(low2)'
      BY <1>5, <1>6, <2>4, <2>7, <2>8 DEF RxFrom, slist_put
    <2>10. QueueFrom(low2)'
      <3>1. \A i \in DOMAIN rx_queue :
                kind'[rx_queue[i]] = kind[rx_queue[i]] /\ low2[rx_queue[i]] = low[rx_queue[i]]
        BY <1>5, <2>4
      <3> QED
        BY <1>1, <1>6, <2>7, <3>1 DEF CausalFrom, QueueFrom
    <2>11. HostFrom(low2)'
      <3>1. CASE hooks["host"] = <<>>
        BY <2>7, <3>1 DEF HostFrom
      <3>2. CASE hooks["host"] # <<>>
        <4>1. PICK m \in Exchanges :
                 /\ kind[m] \in Kinds /\ low[m] + Len(hooks["host"]) = Len(Stages(kind[m])) + 1
                 /\ \A j \in DOMAIN hooks["host"] :
                       hooks["host"][j] = <<m, Stages(kind[m])[low[m] + j - 1]>>
          BY <1>1, <3>2 DEF CausalFrom, HostFrom
        <4>2. m # n /\ kind'[m] = kind[m] /\ low2[m] = low[m]
          BY <1>2, <2>4, <4>1
        <4> QED
          BY <2>7, <4>1, <4>2 DEF HostFrom
      <3> QED
        BY <3>1, <3>2
    <2> QED
      BY <1>3, <1>6, <2>3, <2>6, <2>9, <2>10, <2>11 DEF CausalInv, CausalFrom
  <1> QED
    BY <1>8, <1>9

\* The host takes an event off the queue.
LEMMA CausalTake ==
    ASSUME HookInv, CausalInv, TakeEvent
    PROVE  CausalInv'
  <1> DEFINE n == Head(rx_queue)
  <1>1. PICK low \in [Exchanges -> Nat \ {0}] : CausalFrom(low)
    BY DEF CausalInv
  <1>2. UNCHANGED <<kind, trace, accepted>> /\ hooks["host"] = <<>> /\ rx_queue # <<>>
    BY DEF TakeEvent, inboxVars, inboxData
  <1>3. /\ "rx" \in SecThreads /\ "host" \in SecThreads /\ "rx" # "host"
        /\ hooks \in [SecThreads -> Seq(Hooks)] /\ rx_queue \in Seq(Exchanges)
    BY DEF HookInv, SecThreads
  <1>4. /\ Len(rx_queue) \in Nat \ {0} /\ DOMAIN rx_queue = 1 .. Len(rx_queue)
        /\ rx_queue' = Tail(rx_queue) /\ DOMAIN rx_queue' = 1 .. Len(rx_queue) - 1
        /\ \A i \in 1 .. Len(rx_queue) - 1 : rx_queue'[i] = rx_queue[i + 1]
        /\ n = rx_queue[1] /\ 1 \in DOMAIN rx_queue /\ n \in Exchanges
    BY <1>2, <1>3 DEF TakeEvent
  <1>5. kind[n] \in Remote /\ low[n] = Arrival(kind[n]) + 1
    BY <1>1, <1>4 DEF CausalFrom, QueueFrom
  <1>6. \A i \in DOMAIN rx_queue' : i + 1 \in DOMAIN rx_queue /\ rx_queue'[i] # n
    <2>1. \A i \in DOMAIN rx_queue' : i + 1 \in DOMAIN rx_queue /\ i + 1 # 1
      BY <1>4
    <2> QED
      BY <1>1, <1>4, <2>1 DEF CausalFrom, QueueFrom
  <1>7. hooks'["host"] = Captures(n, Handling(kind[n])) /\ hooks'["rx"] = hooks["rx"]
    BY <1>3 DEF TakeEvent
  <1> HIDE DEF n
  <1> DEFINE d == Hooked(kind[n])
  <1>8. /\ d \in Nat /\ Len(hooks'["host"]) = d /\ DOMAIN hooks'["host"] = 1 .. d
        /\ \A j \in 1 .. d : hooks'["host"][j] = <<n, Stages(kind[n])[Arrival(kind[n]) + j]>>
    <2>1. Handling(kind[n]) \in Seq(HookNames)
      BY HandlingTyped
    <2>2. d \in Nat /\ DOMAIN Handling(kind[n]) = 1 .. d
          /\ \A j \in 1 .. d : Handling(kind[n])[j] = Stages(kind[n])[Arrival(kind[n]) + j]
      BY <1>5, EventRanks
    <2>3. hooks'["host"] \in Seq(Hooks)
      BY <1>4, <1>7, <2>1, CapturesTyped
    <2> HIDE DEF d
    <2> QED
      BY <1>7, <2>2, <2>3 DEF Captures
  <1> HIDE DEF d
  <1>9. RxFrom(low)'
    <2>1. CASE hooks["rx"] = <<>>
      BY <1>7, <2>1 DEF RxFrom
    <2>2. CASE hooks["rx"] # <<>>
      <3>1. PICK m \in Exchanges :
               /\ kind[m] \in Remote
               /\ \/ hooks["rx"] = slist_put(m) /\ low[m] = Arrival(kind[m])
                  \/ hooks["rx"] = << <<m, "put">> >> /\ low[m] = Arrival(kind[m]) + 1
               /\ \A i \in DOMAIN rx_queue : rx_queue[i] # m
        BY <1>1, <2>2 DEF CausalFrom, RxFrom
      <3>2. m # n /\ \A i \in DOMAIN rx_queue' : rx_queue'[i] # m
        BY <1>4, <1>6, <3>1
      <3>3. \A j \in DOMAIN hooks'["host"] : hooks'["host"][j][1] # m
        BY <1>8, <3>2
      <3> QED
        BY <1>2, <1>7, <3>1, <3>2, <3>3 DEF RxFrom, slist_put
    <2> QED
      BY <2>1, <2>2
  <1>10. QueueFrom(low)'
    <2>1. ASSUME NEW i \in DOMAIN rx_queue'
          PROVE  /\ kind'[rx_queue'[i]] \in Remote
                 /\ low[rx_queue'[i]] = Arrival(kind'[rx_queue'[i]]) + 1
                 /\ \A j \in DOMAIN hooks'["host"] : hooks'["host"][j][1] # rx_queue'[i]
      <3>1. i + 1 \in DOMAIN rx_queue /\ rx_queue'[i] = rx_queue[i + 1] /\ rx_queue'[i] # n
        BY <1>4, <1>6
      <3> QED
        BY <1>1, <1>2, <1>8, <3>1 DEF CausalFrom, QueueFrom
    <2>2. ASSUME NEW i \in DOMAIN rx_queue', NEW j \in DOMAIN rx_queue', rx_queue'[i] = rx_queue'[j]
          PROVE  i = j
      <3>1. i + 1 \in DOMAIN rx_queue /\ j + 1 \in DOMAIN rx_queue
            /\ rx_queue[i + 1] = rx_queue[j + 1]
        BY <1>4, <2>2
      <3>2. i + 1 = j + 1
        BY <1>1, <3>1 DEF CausalFrom, QueueFrom
      <3> QED
        BY <1>4, <3>2
    <2> QED
      BY <2>1, <2>2 DEF QueueFrom
  <1>11. HostFrom(low)'
    <2>1. kind'[n] = kind[n] /\ kind[n] \in Kinds /\ Len(Stages(kind[n])) = Arrival(kind[n]) + d
          /\ Arrival(kind[n]) \in Nat
      BY <1>2, <1>5, EventRanks DEF d
    <2>2. low[n] + Len(hooks'["host"]) = Len(Stages(kind'[n])) + 1
      BY <1>5, <1>8, <2>1
    <2>3. \A j \in 1 .. d : low[n] + j - 1 = Arrival(kind[n]) + j
      BY <1>5, <2>1
    <2>4. \A j \in DOMAIN hooks'["host"] :
              hooks'["host"][j] = <<n, Stages(kind'[n])[low[n] + j - 1]>>
      BY <1>8, <2>1, <2>3
    <2> QED
      BY <1>4, <2>1, <2>2, <2>4 DEF HostFrom
  <1>12. Followed(accepted', kind', trace', low)
    BY <1>1, <1>2 DEF CausalFrom
  <1> QED
    BY <1>2, <1>9, <1>10, <1>11, <1>12 DEF CausalInv, CausalFrom

\* The thread that puts events on the queue: an event is observed and then put.
LEMMA CausalRx ==
    ASSUME HookInv, CausalInv, accepted \in Seq(Hooks), HookStep("rx")
    PROVE  CausalInv'
  <1>1. PICK low \in [Exchanges -> Nat \ {0}] : CausalFrom(low)
    BY DEF CausalInv
  <1>2. /\ "rx" \in SecThreads /\ "host" \in SecThreads /\ "rx" # "host"
        /\ hooks \in [SecThreads -> Seq(Hooks)] /\ rx_queue \in Seq(Exchanges)
        /\ kind \in [Exchanges -> Kinds \cup {"none"}] /\ trace \in [Exchanges -> Nat]
    BY DEF HookInv, SecThreads, CausalInv
  <1>3. PICK n \in Exchanges :
           /\ kind[n] \in Remote
           /\ \/ hooks["rx"] = slist_put(n) /\ low[n] = Arrival(kind[n])
              \/ hooks["rx"] = << <<n, "put">> >> /\ low[n] = Arrival(kind[n]) + 1
           /\ \A i \in DOMAIN rx_queue : rx_queue[i] # n
           /\ \A j \in DOMAIN hooks["host"] : hooks["host"][j][1] # n
    BY <1>1 DEF HookStep, CausalFrom, RxFrom
  <1>4. UNCHANGED <<kind, trace>> /\ hooks'["host"] = hooks["host"]
        /\ hooks'["rx"] = Tail(hooks["rx"])
    BY <1>2 DEF HookStep
  <1>5. low \in [Exchanges -> Nat] /\ Followed(accepted, kind, trace, low)
    BY <1>1 DEF CausalFrom
  <1>6. CASE hooks["rx"] = slist_put(n) /\ low[n] = Arrival(kind[n])
    <2> DEFINE record == <<n, "arrived">>
               low2 == [low EXCEPT ![n] = low[n] + 1]
    <2>1. Head(hooks["rx"]) = record /\ hooks'["rx"] = << <<n, "put">> >>
      BY <1>4, <1>6 DEF slist_put
    <2>2. record \in Hooks /\ record[1] = n /\ record[2] = "arrived"
      BY DEF Hooks, HookNames
    <2>3. Capture("rx", record) /\ UNCHANGED rx_queue
      <3>1. record[2] # "put"
        BY <2>2
      <3> HIDE DEF record
      <3> QED
        BY <2>1, <3>1 DEF HookStep
    <2>4. accepted' = accepted \/ accepted' = Append(accepted, record)
      BY <2>3, StoreEffect DEF Capture
    <2>5. /\ low2 \in [Exchanges -> Nat \ {0}] /\ low2 \in [Exchanges -> Nat]
          /\ low2[n] = low[n] + 1 /\ low[n] < low2[n] /\ low2[n] = Arrival(kind[n]) + 1
          /\ \A m \in Exchanges : low[m] <= low2[m] /\ (m # n => low2[m] = low[m])
      <3>1. low[n] \in Nat \ {0} /\ low[n] + 1 \in Nat \ {0}
        BY <1>1
      <3> QED
        BY <1>1, <1>6, <3>1
    <2>6. kind[n] \in Kinds /\ RankIn(kind[n], "arrived") = low[n]
      BY <1>3, <1>6, EventRanks, RankAt
    <2> HIDE DEF record, low2
    <2>7. Followed(accepted, kind, trace, low2)
      BY <1>2, <1>5, <2>5, FollowedLater
    <2>8. Followed(Append(accepted, record), kind, trace, low2)
      BY <1>2, <1>5, <2>2, <2>5, <2>6, FollowedStore
    <2>9. Followed(accepted', kind', trace', low2)
      BY <1>4, <2>4, <2>7, <2>8
    <2>10. RxFrom(low2)'
      <3>1. kind'[n] \in Remote /\ low2[n] = Arrival(kind'[n]) + 1
        BY <1>3, <1>4, <1>6, <2>5
      <3>2. \A i \in DOMAIN rx_queue' : rx_queue'[i] # n
        BY <1>3, <2>3
      <3>3. \A j \in DOMAIN hooks'["host"] : hooks'["host"][j][1] # n
        BY <1>3, <1>4
      <3> QED
        BY <2>1, <3>1, <3>2, <3>3 DEF RxFrom
    <2>11. QueueFrom(low2)'
      <3>1. \A i \in DOMAIN rx_queue : low2[rx_queue[i]] = low[rx_queue[i]]
        <4>1. \A i \in DOMAIN rx_queue : rx_queue[i] \in Exchanges
          BY <1>2
        <4> QED
          BY <1>3, <2>5, <4>1
      <3> QED
        BY <1>1, <1>4, <2>3, <3>1 DEF CausalFrom, QueueFrom
    <2>12. HostFrom(low2)'
      <3>1. CASE hooks["host"] = <<>>
        BY <1>4, <3>1 DEF HostFrom
      <3>2. CASE hooks["host"] # <<>>
        <4>1. PICK m \in Exchanges :
                 /\ kind[m] \in Kinds /\ low[m] + Len(hooks["host"]) = Len(Stages(kind[m])) + 1
                 /\ \A j \in DOMAIN hooks["host"] :
                       hooks["host"][j] = <<m, Stages(kind[m])[low[m] + j - 1]>>
          BY <1>1, <3>2 DEF CausalFrom, HostFrom
        <4>2. 1 \in DOMAIN hooks["host"]
          BY <1>2, <3>2
        <4>3. m # n
          BY <1>3, <4>1, <4>2
        <4> QED
          BY <1>4, <2>5, <4>1, <4>3 DEF HostFrom
      <3> QED
        BY <3>1, <3>2
    <2> QED
      BY <1>2, <1>4, <2>5, <2>9, <2>10, <2>11, <2>12 DEF CausalInv, CausalFrom
  <1>7. CASE hooks["rx"] = << <<n, "put">> >> /\ low[n] = Arrival(kind[n]) + 1
    <2>1. Head(hooks["rx"]) = <<n, "put">> /\ hooks'["rx"] = <<>>
      BY <1>4, <1>7
    <2>2. rx_queue' = Append(rx_queue, n) /\ accepted' = accepted
      BY <2>1 DEF HookStep, inboxVars, inboxData
    <2> DEFINE l == Len(rx_queue) + 1
    <2>3. /\ Len(rx_queue) \in Nat /\ DOMAIN rx_queue = 1 .. Len(rx_queue)
          /\ DOMAIN rx_queue' = 1 .. l /\ rx_queue'[l] = n
          /\ \A i \in 1 .. Len(rx_queue) : rx_queue'[i] = rx_queue[i]
      BY <1>2, <2>2
    <2>4. RxFrom(low)'
      BY <2>1 DEF RxFrom
    <2>5. HostFrom(low)'
      BY <1>1, <1>4 DEF CausalFrom, HostFrom
    <2>6. QueueFrom(low)'
      <3>1. ASSUME NEW i \in DOMAIN rx_queue'
            PROVE  /\ kind'[rx_queue'[i]] \in Remote
                   /\ low[rx_queue'[i]] = Arrival(kind'[rx_queue'[i]]) + 1
                   /\ \A j \in DOMAIN hooks'["host"] : hooks'["host"][j][1] # rx_queue'[i]
        <4>1. CASE i = l
          BY <1>3, <1>4, <1>7, <2>3, <4>1
        <4>2. CASE i # l
          <5>1. i \in DOMAIN rx_queue /\ rx_queue'[i] = rx_queue[i]
            BY <2>3, <4>2
          <5> QED
            BY <1>1, <1>4, <5>1 DEF CausalFrom, QueueFrom
        <4> QED
          BY <4>1, <4>2
      <3>2. ASSUME NEW i \in DOMAIN rx_queue', NEW j \in DOMAIN rx_queue',
                   rx_queue'[i] = rx_queue'[j]
            PROVE  i = j
        <4>1. \A a \in DOMAIN rx_queue' :
                  a # l => a \in DOMAIN rx_queue /\ rx_queue'[a] = rx_queue[a] /\ rx_queue[a] # n
          BY <1>3, <2>3
        <4>2. CASE i # l /\ j # l
          BY <1>1, <3>2, <4>1, <4>2 DEF CausalFrom, QueueFrom
        <4>3. CASE i = l \/ j = l
          BY <2>3, <3>2, <4>1, <4>3
        <4> QED
          BY <4>2, <4>3
      <3> QED
        BY <3>1, <3>2 DEF QueueFrom
    <2> QED
      BY <1>2, <1>4, <1>5, <2>2, <2>4, <2>5, <2>6 DEF CausalInv, CausalFrom
  <1> QED
    BY <1>3, <1>6, <1>7

\* No record is a put.
LEMMA NotPut ==
    ASSUME NEW k \in Kinds, NEW i \in DOMAIN Stages(k)
    PROVE  Stages(k)[i] # "put"
  <1>1. CASE k = "request"
    BY <1>1, StagesOf
  <1>2. CASE k = "ltk"
    BY <1>2, StagesOf
  <1>3. CASE k = "encrypt"
    BY <1>3, StagesOf
  <1>4. CASE k = "refused"
    BY <1>4, StagesOf
  <1> QED
    BY <1>1, <1>2, <1>3, <1>4 DEF Kinds, LtkKinds

\* The host's thread: the hooks of a request, or of the event it took.
LEMMA CausalHost ==
    ASSUME HookInv, CausalInv, accepted \in Seq(Hooks), HookStep("host")
    PROVE  CausalInv'
  <1>1. PICK low \in [Exchanges -> Nat \ {0}] : CausalFrom(low)
    BY DEF CausalInv
  <1>2. /\ "rx" \in SecThreads /\ "host" \in SecThreads /\ "rx" # "host"
        /\ hooks \in [SecThreads -> Seq(Hooks)] /\ rx_queue \in Seq(Exchanges)
        /\ kind \in [Exchanges -> Kinds \cup {"none"}] /\ trace \in [Exchanges -> Nat]
    BY DEF HookInv, SecThreads, CausalInv
  <1> DEFINE h == hooks["host"]
             h2 == hooks'["host"]
  <1>3. h \in Seq(Hooks) /\ h # <<>> /\ h2 = Tail(h) /\ hooks'["rx"] = hooks["rx"]
        /\ UNCHANGED <<kind, trace>>
    BY <1>2 DEF HookStep
  <1>4. PICK n \in Exchanges :
           /\ kind[n] \in Kinds /\ low[n] + Len(h) = Len(Stages(kind[n])) + 1
           /\ \A j \in DOMAIN h : h[j] = <<n, Stages(kind[n])[low[n] + j - 1]>>
    BY <1>1, <1>3 DEF CausalFrom, HostFrom
  <1> HIDE DEF h, h2
  <1>5. /\ Len(h) \in Nat \ {0} /\ DOMAIN h = 1 .. Len(h) /\ Head(h) = h[1] /\ Head(h) \in Hooks
        /\ Len(h2) = Len(h) - 1 /\ DOMAIN h2 = 1 .. Len(h) - 1
        /\ \A j \in 1 .. Len(h) - 1 : h2[j] = h[j + 1]
    BY <1>3
  <1>6. low[n] \in Nat \ {0} /\ low \in [Exchanges -> Nat]
    BY <1>1
  <1>7. Len(Stages(kind[n])) \in Nat /\ DOMAIN Stages(kind[n]) = 1 .. Len(Stages(kind[n]))
    <2>1. CASE kind[n] = "request"
      BY <2>1, StagesOf
    <2>2. CASE kind[n] = "ltk"
      BY <2>2, StagesOf
    <2>3. CASE kind[n] = "encrypt"
      BY <2>3, StagesOf
    <2>4. CASE kind[n] = "refused"
      BY <2>4, StagesOf
    <2> QED
      BY <1>4, <2>1, <2>2, <2>3, <2>4 DEF Kinds, LtkKinds
  <1>8. low[n] \in DOMAIN Stages(kind[n]) /\ low[n] + 1 - 1 = low[n]
    BY <1>4, <1>5, <1>6, <1>7
  <1> DEFINE record == Head(h)
             low2 == [low EXCEPT ![n] = low[n] + 1]
  <1>9. record[1] = n /\ record[2] = Stages(kind[n])[low[n]]
    BY <1>4, <1>5, <1>8
  <1>10. record \in Hooks /\ record[2] # "put" /\ RankIn(kind[n], record[2]) = low[n]
    BY <1>4, <1>5, <1>8, <1>9, NotPut, RankAt
  <1>11. Capture("host", record) /\ UNCHANGED rx_queue
    BY <1>10 DEF HookStep, h
  <1>12. accepted' = accepted \/ accepted' = Append(accepted, record)
    BY <1>11, StoreEffect DEF Capture
  <1>13. /\ low2 \in [Exchanges -> Nat \ {0}] /\ low2 \in [Exchanges -> Nat]
         /\ low2[n] = low[n] + 1 /\ low[n] < low2[n]
         /\ \A m \in Exchanges : low[m] <= low2[m] /\ (m # n => low2[m] = low[m])
    BY <1>1, <1>6
  <1>14. Followed(accepted, kind, trace, low)
    BY <1>1 DEF CausalFrom
  <1> HIDE DEF record, low2
  <1>15. Followed(accepted, kind, trace, low2)
    BY <1>2, <1>6, <1>13, <1>14, FollowedLater
  <1>16. Followed(Append(accepted, record), kind, trace, low2)
    BY <1>2, <1>4, <1>6, <1>9, <1>10, <1>13, <1>14, FollowedStore
  <1>17. Followed(accepted', kind', trace', low2)
    BY <1>3, <1>12, <1>15, <1>16
  <1>18. 1 \in DOMAIN h /\ h[1][1] = n
    BY <1>5, <1>9 DEF record
  <1>19. \A j \in DOMAIN h2 : h2[j][1] = n
    <2>1. \A j \in DOMAIN h2 : j + 1 \in DOMAIN h /\ h2[j] = h[j + 1]
      BY <1>5
    <2> QED
      BY <1>4, <2>1
  <1>20. RxFrom(low2)'
    <2>1. CASE hooks["rx"] = <<>>
      BY <1>3, <2>1 DEF RxFrom
    <2>2. CASE hooks["rx"] # <<>>
      <3>1. PICK m \in Exchanges :
               /\ kind[m] \in Remote
               /\ \/ hooks["rx"] = slist_put(m) /\ low[m] = Arrival(kind[m])
                  \/ hooks["rx"] = << <<m, "put">> >> /\ low[m] = Arrival(kind[m]) + 1
               /\ \A i \in DOMAIN rx_queue : rx_queue[i] # m
               /\ \A j \in DOMAIN h : h[j][1] # m
        BY <1>1, <2>2 DEF CausalFrom, RxFrom, h
      <3>2. m # n /\ low2[m] = low[m]
        BY <1>13, <1>18, <3>1
      <3>3. \A j \in DOMAIN h2 : h2[j][1] # m
        BY <1>19, <3>2
      <3> QED
        BY <1>3, <1>11, <3>1, <3>2, <3>3 DEF RxFrom, slist_put, h2
    <2> QED
      BY <2>1, <2>2
  <1>21. QueueFrom(low2)'
    <2>1. \A i \in DOMAIN rx_queue : rx_queue[i] \in Exchanges /\ rx_queue[i] # n
      <3>1. \A i \in DOMAIN rx_queue : rx_queue[i] \in Exchanges
        BY <1>2
      <3> QED
        BY <1>1, <1>18, <3>1 DEF CausalFrom, QueueFrom, h
    <2>2. \A i \in DOMAIN rx_queue :
              low2[rx_queue[i]] = low[rx_queue[i]] /\ \A j \in DOMAIN h2 : h2[j][1] # rx_queue[i]
      BY <1>13, <1>19, <2>1
    <2> QED
      BY <1>1, <1>3, <1>11, <2>2 DEF CausalFrom, QueueFrom, h2
  <1>22. HostFrom(low2)'
    <2>1. kind'[n] \in Kinds /\ low2[n] + Len(h2) = Len(Stages(kind'[n])) + 1
      BY <1>3, <1>4, <1>5, <1>6, <1>7, <1>13
    <2>2. ASSUME NEW j \in DOMAIN h2
          PROVE  h2[j] = <<n, Stages(kind'[n])[low2[n] + j - 1]>>
      <3>1. j + 1 \in DOMAIN h /\ h2[j] = h[j + 1]
        BY <1>5
      <3>2. j \in Int /\ low[n] \in Int /\ low2[n] = low[n] + 1
        BY <1>5, <1>6, <1>13
      <3>3. low[n] + (j + 1) - 1 = low2[n] + j - 1
        BY <3>2
      <3> QED
        BY <1>3, <1>4, <3>1, <3>3
    <2> QED
      BY <2>1, <2>2 DEF HostFrom, h2
  <1> QED
    BY <1>2, <1>3, <1>13, <1>17, <1>20, <1>21, <1>22 DEF CausalInv, CausalFrom

\* timing_drain takes the oldest record out, and the journal follows it.
LEMMA CausalRecord ==
    ASSUME InboxInv, HookInv, CausalInv, DrainOne, Recorded
    PROVE  CausalInv' /\ \A n \in Exchanges : trace[n] <= trace'[n]
  <1>1. PICK low \in [Exchanges -> Nat \ {0}] : CausalFrom(low)
    BY DEF CausalInv
  <1>2. kind \in [Exchanges -> Kinds \cup {"none"}] /\ trace \in [Exchanges -> Nat]
        /\ low \in [Exchanges -> Nat]
    BY <1>1 DEF CausalInv
  <1>3. accepted \in Seq(Hooks) /\ accepted # <<>> /\ accepted' = Tail(accepted)
        /\ 1 \in 1 .. Len(accepted)
    <2>1. accepted \in Seq(Hooks) /\ Len(accepted) = timing_count /\ timing_count > 0
          /\ timing_count \in Nat
      BY InboxAssumption DEF DrainOne, MoreToDrain, InboxInv, InboxTyped, InboxTypeOK, InboxIsQueue
    <2> QED
      BY <2>1 DEF DrainOne
  <1>4. timing_inbox[timing_head] = accepted[1]
    <2>1. (timing_head + 1 - 1) % TIMING_CAP = timing_head
      <3>1. timing_head \in 0 .. TIMING_CAP - 1 /\ 0 \in 0 .. TIMING_CAP
        BY InboxAssumption DEF InboxInv, InboxTyped, InboxTypeOK, Places
      <3>2. timing_head + 1 - 1 = timing_head + 0 /\ timing_head + 0 = timing_head
            /\ timing_head < TIMING_CAP
        BY <3>1, InboxAssumption
      <3> QED
        BY <3>1, <3>2, Wrapped
    <2> QED
      BY <1>3, <2>1 DEF InboxInv, InboxIsQueue
  <1> DEFINE n == accepted[1][1]
             r == RankIn(kind[n], accepted[1][2])
  <1>5. trace' = [trace EXCEPT ![n] = r] /\ UNCHANGED <<kind, rx_queue, hooks>>
    BY <1>4 DEF Recorded, Rank, RankIn
  <1>6. /\ n \in Exchanges /\ r \in Nat /\ trace[n] < r
        /\ Followed(Tail(accepted), kind, [trace EXCEPT ![n] = r], low)
    BY <1>1, <1>2, <1>3, FollowedRecord DEF CausalFrom
  <1> HIDE DEF n, r
  <1>7. trace' \in [Exchanges -> Nat] /\ \A m \in Exchanges : trace[m] <= trace'[m]
    BY <1>2, <1>5, <1>6
  <1>8. Followed(accepted', kind', trace', low)
    BY <1>3, <1>5, <1>6
  <1>9. RxFrom(low)' /\ QueueFrom(low)' /\ HostFrom(low)'
    BY <1>1, <1>5 DEF CausalFrom, RxFrom, QueueFrom, HostFrom, slist_put
  <1> QED
    BY <1>1, <1>2, <1>5, <1>7, <1>8, <1>9 DEF CausalInv, CausalFrom

\* Every step of the two reporters keeps the order of the records, and moves no
\* trace back.
LEMMA CausalKeeps ==
    ASSUME InboxInv, HookInv, CausalInv, [Next]_vars
    PROVE  CausalInv' /\ \A n \in Exchanges : trace[n] <= trace'[n]
  <1>1. accepted \in Seq(Hooks)
    BY DEF InboxInv, InboxTyped
  <1>2. UNCHANGED trace => \A n \in Exchanges : trace[n] <= trace'[n]
    BY DEF CausalInv
  <1>3. CASE UNCHANGED <<securityVars, accepted>>
    BY <1>2, <1>3, CausalFrame DEF securityVars
  <1>4. CASE FlushWork \/ Typing \/ UNCHANGED vars
    BY <1>3, <1>4 DEF FlushWork, Typing, vars, inboxVars, inboxData
  <1>5. CASE DrainWork
    <2>1. CASE DrainOne /\ Recorded
      BY <2>1, CausalRecord
    <2>2. CASE (DrainStart \/ DrainEnd) /\ UNCHANGED securityVars
      BY <1>3, <2>2 DEF DrainStart, DrainEnd, inboxData
    <2> QED
      BY <1>5, <2>1, <2>2 DEF DrainWork
  <1>6. CASE Pairing
    <2>1. ASSUME NEW n \in Exchanges, SecurityRequest(n) \/ LtkRequested(n) \/ EncryptionChanged(n)
          PROVE  CausalInv' /\ UNCHANGED trace
      BY <1>1, <2>1, CausalBegin DEF SecurityRequest, LtkRequested, EncryptionChanged
    <2>2. CASE TakeEvent
      BY <1>2, <2>2, CausalTake DEF TakeEvent
    <2>3. ASSUME NEW t \in SecThreads, HookStep(t) PROVE CausalInv' /\ UNCHANGED trace
      BY <1>1, <2>3, CausalRx, CausalHost DEF HookStep, SecThreads
    <2>4. ASSUME NEW t \in SecThreads, Submit(t), UNCHANGED securityVars
          PROVE  UNCHANGED <<securityVars, accepted>>
      BY <2>4 DEF Submit, inboxData
    <2> QED
      BY <1>2, <1>3, <1>6, <2>1, <2>2, <2>3, <2>4 DEF Pairing
  <1> QED
    BY <1>4, <1>5, <1>6 DEF Next

-----------------------------------------------------------------------------
(* The theorems.                                                           *)

Inv == InboxInv /\ HookInv /\ HidInv /\ AccountInv /\ CausalInv

\* Everything starts empty.
LEMMA InitInv == Init => Inv
  <1> SUFFICES ASSUME Init PROVE Inv
    OBVIOUS
  <1>1. HookInv
    BY DEF Init, SecurityInit, HookInv
  <1> QED
    BY <1>1, InboxInitInv, HidInitInv, AccountInit, CausalInit DEF Init, Inv

\* Every step keeps both shared buffers sound.
LEMMA NextInv == Inv /\ [Next]_vars => Inv'
  <1> SUFFICES ASSUME Inv, [Next]_vars PROVE Inv'
    OBVIOUS
  <1> USE DEF Inv
  <1>0. UNCHANGED securityVars => HookInv'
    BY DEF HookInv, securityVars
  <1>6. CausalInv'
    BY CausalKeeps
  <1>1. CASE FlushWork
    <2>1. UNCHANGED <<securityVars, inboxVars>> /\ (FlushStart \/ FlushOne \/ FlushPass)
      BY <1>1 DEF FlushWork
    <2> QED
      BY <1>0, <1>6, <2>1, ScheduleKeeps, FlushOneKeeps, FlushPassKeeps, InboxFrame, AccountKeeps
  <1>2. CASE DrainWork
    <2>1. HidInv' /\ AccountInv'
      BY <1>2, HidFrame, AccountKeeps DEF DrainWork
    <2>2. HookInv'
      BY <1>0, <1>2 DEF DrainWork, Recorded, HookInv
    <2>3. InboxInv'
      BY <1>2, ServeKeeps, DrainOneKeeps DEF DrainWork
    <2> QED
      BY <1>6, <2>1, <2>2, <2>3
  <1>3. CASE Typing
    <2>1. UNCHANGED <<securityVars, inboxVars>>
      BY <1>3 DEF Typing
    <2>2. HidInv'
      <3>1. CASE HidCounting
        BY <3>1, CountEventKeeps, ScheduleKeeps DEF HidCounting
      <3>2. CASE ~HidCounting
        BY <1>3, <3>2, HooksKeep DEF Typing
      <3> QED
        BY <3>1, <3>2
    <2>3. AccountInv'
      BY <1>3, AccountKeeps DEF Typing
    <2> QED
      BY <1>0, <1>6, <2>1, <2>2, <2>3, InboxFrame
  <1>4. CASE Pairing
    <2>1. HidInv' /\ AccountInv'
      BY <1>4, HidFrame, AccountKeeps DEF Pairing
    <2> QED
      BY <1>4, <1>6, <2>1, PairingKeeps
  <1>5. CASE UNCHANGED vars
    BY <1>0, <1>5, <1>6, HidFrame, AccountKeeps, InboxFrame DEF vars
  <1> QED
    BY <1>1, <1>2, <1>3, <1>4, <1>5 DEF Next

\* Inv is an invariant of the two reporters and everything that feeds them.
THEOREM DiagnosticsInvariant == Spec => []Inv
  BY InitInv, NextInv, PTL DEF Spec

\* The timing inbox is a first-in first-out queue of what was stored, for every
\* capacity and any captures during a drain.
THEOREM InboxQueueCorrect == Spec => []InboxIsQueue
  <1>1. Inv => InboxIsQueue
    BY DEF Inv, InboxInv
  <1> QED
    BY <1>1, DiagnosticsInvariant, PTL

\* Every capture is recorded, stored or in the next TIMING_DROPPED report, until
\* the count of dropped records saturates.
THEOREM NoRecordVanishes == Spec => []NothingVanishes
  <1>1. Inv => NothingVanishes
    BY DEF Inv, InboxInv
  <1> QED
    BY <1>1, DiagnosticsInvariant, PTL

\* A record that is stored, or was dropped, always has a drain coming.
THEOREM InboxAlwaysServed == Spec => []InboxServed
  <1>1. Inv => InboxServed
    BY DEF Inv, InboxInv
  <1> QED
    BY <1>1, DiagnosticsInvariant, PTL

\* No count is lost to the summary, for any number of profiles, wherever
\* flush_counts is when a thread counts.
THEOREM CountsAlwaysReported == Spec => []CountsReported
  <1>1. Inv => CountsReported
    BY DEF Inv, HidInv
  <1> QED
    BY <1>1, DiagnosticsInvariant, PTL

\* Every report is accounted for, across evictions, profile changes while a put
\* waits or a connection is held and wrapping totals, for any number of profiles
\* and any queue, but for those notified to a peer that no profile holds any more.
THEOREM ReportsAlwaysAccounted == Spec => []ReportsAccounted
  <1>1. Inv => ReportsAccounted
    BY DEF Inv, AccountInv
  <1> QED
    BY <1>1, DiagnosticsInvariant, PTL

\* The all-up reports, which end a key press, are accounted for in the same way:
\* the worker's all_up_report is always that of the report it has taken, and no
\* count is lost but those dropped for want of a host or of a profile.
THEOREM AllUpAlwaysAccounted == Spec => []AllUpAccounted
  <1>1. Inv => AllUpAccounted
    BY DEF Inv, AccountInv
  <1> QED
    BY <1>1, DiagnosticsInvariant, PTL

\* The journal follows every exchange in the order of its causes, for any number
\* of exchanges and any size of inbox: no step moves the trace of one back.
THEOREM TraceIsCausal == Spec => CausalTrace
  <1>1. Inv /\ [Next]_vars => [\A n \in Exchanges : trace[n] <= trace'[n]]_trace
    BY CausalKeeps DEF Inv
  <1> QED
    BY <1>1, DiagnosticsInvariant, PTL DEF Spec, CausalTrace

=============================================================================
