--------------------------- MODULE HandoffProofs ---------------------------
(***************************************************************************)
(* The invariants of Handoff for every set of handles, every saturation    *)
(* point of the counters and every bound.                                  *)
(***************************************************************************)
EXTENDS Handoff, TLAPS

\* The disconnect call: idle it holds nothing; under way it is of a handle with
\* no summary outstanding, and while the connection object still is that link
\* the link is alive and its observers armed.
CallInv ==
    /\ call.pc = "idle" => call = NoCall
    /\ call.pc # "idle" => call.handle \in Handles /\ call.handle \notin handoff
    /\ call.pc = "call" /\ call.live => Live(call.handle) /\ radios[call.handle].armed

\* A pending transmission is the termination packet of a link that is no longer
\* up: it is on the air, or its END is the one the hardware has just raised.
PendingInv ==
    tx_radio.pending =>
        /\ tx_radio.param \in Handles /\ link[tx_radio.param] # "up"
        /\ \/ hw = "term" /\ ~end_event
           \/ /\ hw = "idle" /\ end_event
              /\ radios[tx_radio.param].armed =>
                    \/ radios[tx_radio.param].tx_completed < sent[tx_radio.param]
                    \/ sent[tx_radio.param] = COUNT_MAX

\* What the observer took for an encrypted termination packet is what CCM holds.
CipherInv == tx_radio.encrypted_term => cipher = "term"

Inv == /\ TypeOK /\ CallInv /\ PendingInv /\ CipherInv
       /\ ArmedOnlyInHandoff /\ SummaryComes /\ TxAccounted /\ OnlyRealEnds

-----------------------------------------------------------------------------
LEMMA NoParamIsNoHandle == NoParam \notin Handles
  BY RadioAssumption DEF NoParam

\* The saturating counter stays in range, moves by one below the limit and never
\* goes back.
LEMMA AddCount ==
    ASSUME NEW n \in 0 .. COUNT_MAX
    PROVE  /\ add_count(n) \in 0 .. COUNT_MAX
           /\ n < COUNT_MAX => add_count(n) = n + 1
           /\ n = COUNT_MAX => add_count(n) = COUNT_MAX
  BY RadioAssumption DEF add_count

\* What RadioTypeOK says of one handle's counters.
RadioRecord == [armed: BOOLEAN, first_bad: BOOLEAN, tx_setups: 0 .. COUNT_MAX,
                tx_completed: 0 .. COUNT_MAX, tx_uncompleted: 0 .. COUNT_MAX]

LEMMA FreshRecords ==
    /\ NewRadio \in RadioRecord /\ ~NewRadio.armed
    /\ ArmedRadio \in RadioRecord /\ ArmedRadio.armed
    /\ ArmedRadio.tx_setups = 0 /\ ArmedRadio.tx_completed = 0 /\ ArmedRadio.tx_uncompleted = 0
  <1>1. NewRadio \in RadioRecord /\ ~NewRadio.armed
    BY RadioAssumption DEF RadioRecord, NewRadio
  <1>2. /\ ArmedRadio \in RadioRecord /\ ArmedRadio.armed
        /\ ArmedRadio.tx_setups = NewRadio.tx_setups
        /\ ArmedRadio.tx_completed = NewRadio.tx_completed
        /\ ArmedRadio.tx_uncompleted = NewRadio.tx_uncompleted
    BY <1>1 DEF RadioRecord, ArmedRadio
  <1>3. NewRadio.tx_setups = 0 /\ NewRadio.tx_completed = 0 /\ NewRadio.tx_uncompleted = 0
    BY DEF NewRadio
  <1> QED
    BY <1>1, <1>2, <1>3

LEMMA InitInv == Init => Inv
  <1> SUFFICES ASSUME Init PROVE Inv
    OBVIOUS
  <1>1. TypeOK
    <2>1. RadioTypeOK
      BY RadioAssumption, FreshRecords DEF Init, RadioInit, RadioTypeOK, RadioRecord, Contents
    <2> QED
      BY <2>1 DEF Init, TypeOK, NoCall
  <1>2. CallInv /\ PendingInv /\ CipherInv
    BY DEF Init, RadioInit, CallInv, PendingInv, CipherInv, NoCall
  <1>3. ArmedOnlyInHandoff /\ SummaryComes /\ OnlyRealEnds /\ TxAccounted
    BY DEF Init, RadioInit, ArmedOnlyInHandoff, SummaryComes, TxAccounted, OnlyRealEnds, NewRadio
  <1> QED
    BY <1>1, <1>2, <1>3 DEF Inv

-----------------------------------------------------------------------------
(* Links and the disconnect call.                                          *)

LEMMA ConnectedInv ==
    ASSUME Inv, NEW h \in Handles, Connected(h) PROVE Inv'
  <1> USE RadioAssumption, NoParamIsNoHandle DEF Connected, Inv
  <1>1. TypeOK'
    BY DEF TypeOK, RadioTypeOK, NewRadio, Spend
  <1>2. CallInv'
    BY DEF CallInv, TypeOK, RadioTypeOK, Live
  <1>3. PendingInv' /\ CipherInv'
    BY DEF PendingInv, CipherInv
  <1>4. ArmedOnlyInHandoff' /\ SummaryComes'
    BY DEF ArmedOnlyInHandoff, SummaryComes, TypeOK, RadioTypeOK, NewRadio
  <1>5. TxAccounted' /\ OnlyRealEnds'
    BY DEF TxAccounted, OnlyRealEnds, TypeOK, RadioTypeOK, NewRadio
  <1> QED
    BY <1>1, <1>2, <1>3, <1>4, <1>5

LEMMA LinkEndsInv ==
    ASSUME Inv, NEW h \in Handles, LinkEnds(h) PROVE Inv'
  <1> USE DEF LinkEnds, Inv, radioVars
  <1>1. TypeOK'
    BY DEF TypeOK, RadioTypeOK
  <1>2. CallInv'
    <2>1. call'.pc = call.pc /\ call'.handle = call.handle
      BY DEF TypeOK
    <2>2. call'.live => call.live /\ call.handle # h
      BY DEF TypeOK
    <2>3. call.pc = "idle" => call' = NoCall
      <3> SUFFICES ASSUME call.pc = "idle" PROVE call' = NoCall
        OBVIOUS
      <3>1. call = NoCall
        BY DEF CallInv
      <3>2. call' = [NoCall EXCEPT !.live = FALSE]
        BY <3>1 DEF NoCall
      <3> QED
        BY <3>2 DEF NoCall
    <2> QED
      BY <2>1, <2>2, <2>3 DEF CallInv, TypeOK, Live
  <1>3. PendingInv' /\ CipherInv'
    BY DEF PendingInv, CipherInv, TypeOK
  <1>4. ArmedOnlyInHandoff' /\ SummaryComes'
    BY DEF ArmedOnlyInHandoff, SummaryComes, TypeOK
  <1>5. TxAccounted' /\ OnlyRealEnds'
    BY DEF TxAccounted, OnlyRealEnds
  <1> QED
    BY <1>1, <1>2, <1>3, <1>4, <1>5

LEMMA HciDisconnectedInv ==
    ASSUME Inv, NEW h \in Handles, HciDisconnected(h) PROVE Inv'
  <1> USE RadioAssumption DEF HciDisconnected, Inv, Cleared
  <1>1. TypeOK'
    BY DEF TypeOK, RadioTypeOK, NewRadio
  <1>2. CallInv'
    BY DEF CallInv, TypeOK, RadioTypeOK, Live
  <1>3. PendingInv' /\ CipherInv'
    BY DEF PendingInv, CipherInv, TypeOK, RadioTypeOK, NewRadio
  <1>4. ArmedOnlyInHandoff' /\ SummaryComes'
    BY DEF ArmedOnlyInHandoff, SummaryComes, TypeOK, RadioTypeOK, NewRadio
  <1>5. TxAccounted' /\ OnlyRealEnds'
    BY DEF TxAccounted, OnlyRealEnds, TypeOK, RadioTypeOK, NewRadio
  <1> QED
    BY <1>1, <1>2, <1>3, <1>4, <1>5

LEMMA BadEventInv ==
    ASSUME Inv, NEW h \in Handles, BadEvent(h) PROVE Inv'
  <1> USE DEF BadEvent, Inv
  <1>1. TypeOK'
    <2>1. radios \in [Handles -> RadioRecord]
      BY DEF TypeOK, RadioTypeOK, RadioRecord
    <2>2. [radios[h] EXCEPT !.first_bad = TRUE] \in RadioRecord
      BY <2>1 DEF RadioRecord
    <2>3. radios' = [radios EXCEPT ![h] = [radios[h] EXCEPT !.first_bad = TRUE]]
      OBVIOUS
    <2>4. radios' \in [Handles -> RadioRecord]
      BY <2>1, <2>2, <2>3
    <2> QED
      BY <2>4 DEF TypeOK, RadioTypeOK, RadioRecord
  <1>2. CallInv' /\ PendingInv' /\ CipherInv'
    BY DEF CallInv, PendingInv, CipherInv, TypeOK, RadioTypeOK, Live
  <1>4. ArmedOnlyInHandoff' /\ SummaryComes'
    BY DEF ArmedOnlyInHandoff, SummaryComes, TypeOK, RadioTypeOK
  <1>5. TxAccounted' /\ OnlyRealEnds'
    BY DEF TxAccounted, OnlyRealEnds, TypeOK, RadioTypeOK
  <1> QED
    BY <1>1, <1>2, <1>4, <1>5

\* No packet of a link that is up is pending, so the counters start from zero
\* with nothing outstanding.
LEMMA ArmHandoffInv ==
    ASSUME Inv, NEW h \in Handles, ArmHandoff(h) PROVE Inv'
  <1> USE RadioAssumption DEF ArmHandoff, Inv
  <1>1. TypeOK'
    <2>1. RadioTypeOK'
      BY FreshRecords DEF TypeOK, RadioTypeOK, RadioRecord
    <2> QED
      BY <2>1 DEF TypeOK
  <1>2. CallInv'
    BY FreshRecords DEF CallInv, TypeOK, RadioTypeOK, Live, SummaryComes
  <1>3. PendingInv' /\ CipherInv'
    BY DEF PendingInv, CipherInv, TypeOK, RadioTypeOK
  <1>4. ArmedOnlyInHandoff' /\ SummaryComes'
    <2>1. h \notin handoff
      BY DEF SummaryComes
    <2> QED
      BY <2>1, NoParamIsNoHandle DEF ArmedOnlyInHandoff, SummaryComes, TypeOK, RadioTypeOK,
           CallInv, NoCall
  <1>5. TxAccounted' /\ OnlyRealEnds'
    BY DEF TxAccounted, OnlyRealEnds, PendingInv, TypeOK, RadioTypeOK, ArmedRadio, NewRadio
  <1> QED
    BY <1>1, <1>2, <1>3, <1>4, <1>5

LEMMA PlainDisconnectInv ==
    ASSUME Inv, NEW h \in Handles, PlainDisconnect(h) PROVE Inv'
  <1> USE DEF PlainDisconnect, Inv, radioVars
  <1>1. TypeOK'
    BY DEF TypeOK, RadioTypeOK
  <1>2. CallInv' /\ PendingInv' /\ CipherInv'
    BY DEF CallInv, PendingInv, CipherInv, TypeOK
  <1>3. ArmedOnlyInHandoff' /\ SummaryComes'
    BY DEF ArmedOnlyInHandoff, SummaryComes, TypeOK
  <1>4. TxAccounted' /\ OnlyRealEnds'
    BY DEF TxAccounted, OnlyRealEnds
  <1> QED
    BY <1>1, <1>2, <1>3, <1>4

LEMMA AcceptedInv ==
    ASSUME Inv, Accepted PROVE Inv'
  <1> USE DEF Accepted, Inv, radioVars, AfterAccept
  <1>1. TypeOK'
    BY DEF TypeOK, RadioTypeOK, CallInv, NoCall
  <1>2. CallInv' /\ PendingInv' /\ CipherInv'
    BY DEF CallInv, PendingInv, CipherInv, TypeOK, NoCall
  <1>3. ArmedOnlyInHandoff' /\ SummaryComes'
    BY DEF ArmedOnlyInHandoff, SummaryComes, TypeOK, CallInv, NoCall
  <1>4. TxAccounted' /\ OnlyRealEnds'
    BY DEF TxAccounted, OnlyRealEnds
  <1> QED
    BY <1>1, <1>2, <1>3, <1>4

LEMMA RefusedInv ==
    ASSUME Inv, Refused PROVE Inv'
  <1> USE DEF Refused, Inv, radioVars
  <1>1. TypeOK'
    BY DEF TypeOK, RadioTypeOK, Spend
  <1>2. CallInv' /\ PendingInv' /\ CipherInv'
    BY DEF CallInv, PendingInv, CipherInv, TypeOK
  <1>3. ArmedOnlyInHandoff' /\ SummaryComes' /\ TxAccounted' /\ OnlyRealEnds'
    BY DEF ArmedOnlyInHandoff, SummaryComes, TypeOK, TxAccounted, OnlyRealEnds
  <1> QED
    BY <1>1, <1>2, <1>3

LEMMA DisarmInv ==
    ASSUME Inv, Disarm PROVE Inv'
  <1> USE NoParamIsNoHandle DEF Disarm, Inv, Disarmed
  <1>1. TypeOK'
    <2>1. call.handle \in Handles
      BY DEF CallInv
    <2>2. radios' \in [Handles -> RadioRecord]
      <3>1. radios \in [Handles -> RadioRecord]
        BY DEF TypeOK, RadioTypeOK, RadioRecord
      <3>2. [radios[call.handle] EXCEPT !.armed = FALSE] \in RadioRecord
        BY <2>1, <3>1 DEF RadioRecord
      <3> QED
        BY <2>1, <3>1, <3>2
    <2> QED
      BY <2>2 DEF TypeOK, RadioTypeOK, RadioRecord, NoCall
  <1>2. CallInv' /\ PendingInv' /\ CipherInv'
    BY DEF CallInv, PendingInv, CipherInv, TypeOK, RadioTypeOK, NoCall
  <1>3. ArmedOnlyInHandoff' /\ SummaryComes'
    BY DEF ArmedOnlyInHandoff, SummaryComes, TypeOK, RadioTypeOK, CallInv, NoCall
  <1>4. TxAccounted' /\ OnlyRealEnds'
    BY DEF TxAccounted, OnlyRealEnds, TypeOK, RadioTypeOK
  <1> QED
    BY <1>1, <1>2, <1>3, <1>4

-----------------------------------------------------------------------------
(* The radio.                                                              *)

\* Resolving what is pending balances the counters of every armed handle, and
\* counts an END only if the hardware raised it for a termination packet.
LEMMA FinishedBalances ==
    ASSUME Inv
    PROVE  /\ Finished \in [Handles -> RadioRecord]
           /\ \A h \in Handles :
                /\ Finished[h].armed = radios[h].armed
                /\ Finished[h].armed => Finished[h].tx_completed <= sent[h]
                /\ Finished[h].armed /\ Finished[h].tx_setups < COUNT_MAX =>
                      Finished[h].tx_setups = Finished[h].tx_completed + Finished[h].tx_uncompleted
  <1> USE DEF Inv
  <1>1. radios \in [Handles -> RadioRecord] /\ sent \in [Handles -> 0 .. COUNT_MAX]
    BY DEF TypeOK, RadioTypeOK, RadioRecord
  <1>2. CASE ~tx_radio.pending
    <2>1. Finished = radios
      BY <1>2 DEF Finished
    <2>2. \A h \in Handles : radios[h].armed =>
             /\ radios[h].tx_completed <= sent[h]
             /\ radios[h].tx_setups < COUNT_MAX =>
                   radios[h].tx_setups = radios[h].tx_completed + radios[h].tx_uncompleted + 0
      BY <1>2 DEF TxAccounted, OnlyRealEnds
    <2>3. \A h \in Handles : radios[h].tx_completed \in Int /\ radios[h].tx_uncompleted \in Int
      BY <1>1 DEF RadioRecord
    <2> QED
      BY <1>1, <2>1, <2>2, <2>3
  <1>3. CASE tx_radio.pending
    <2> DEFINE p == tx_radio.param
    <2>1. p \in Handles /\ Finished = [radios EXCEPT ![p] = tx_result(radios[p])]
      BY <1>1, <1>3 DEF Finished, PendingInv
    <2>2. CASE ~radios[p].armed
      <3>1. Finished = radios
        BY <1>1, <2>1, <2>2 DEF tx_result
      <3>2. \A h \in Handles : radios[h].armed =>
               /\ radios[h].tx_completed <= sent[h]
               /\ radios[h].tx_setups < COUNT_MAX =>
                     radios[h].tx_setups = radios[h].tx_completed + radios[h].tx_uncompleted + 0
        BY <2>2 DEF TxAccounted, OnlyRealEnds
      <3>3. \A h \in Handles : radios[h].tx_completed \in Int /\ radios[h].tx_uncompleted \in Int
        BY <1>1 DEF RadioRecord
      <3> QED
        BY <1>1, <3>1, <3>2, <3>3
    <2>3. CASE radios[p].armed
      <3> DEFINE r == radios[p]  q == tx_result(r)
      <3>1. r \in RadioRecord /\ r.armed /\ r.tx_completed <= sent[p]
            /\ (r.tx_setups < COUNT_MAX => r.tx_setups = r.tx_completed + r.tx_uncompleted + 1)
        BY <1>1, <1>3, <2>1, <2>3 DEF TxAccounted, OnlyRealEnds
      <3>2. r.tx_completed \in 0 .. COUNT_MAX /\ r.tx_uncompleted \in 0 .. COUNT_MAX
            /\ r.tx_setups \in 0 .. COUNT_MAX /\ sent[p] \in 0 .. COUNT_MAX
        BY <1>1, <2>1, <3>1 DEF RadioRecord
      <3>3. q = IF end_event THEN [r EXCEPT !.tx_completed = add_count(r.tx_completed)]
                ELSE [r EXCEPT !.tx_uncompleted = add_count(r.tx_uncompleted)]
        BY <2>3 DEF tx_result
      <3>4. /\ add_count(r.tx_completed) \in 0 .. COUNT_MAX
            /\ r.tx_completed < COUNT_MAX => add_count(r.tx_completed) = r.tx_completed + 1
            /\ add_count(r.tx_uncompleted) \in 0 .. COUNT_MAX
            /\ r.tx_uncompleted < COUNT_MAX => add_count(r.tx_uncompleted) = r.tx_uncompleted + 1
        BY <3>2, AddCount
      <3>5. end_event => r.tx_completed < sent[p] \/ sent[p] = COUNT_MAX
        BY <1>3, <2>3 DEF PendingInv
      <3>6. q \in RadioRecord /\ q.armed /\ q.tx_setups = r.tx_setups
        BY <3>1, <3>3, <3>4 DEF RadioRecord
      <3>7. q.tx_completed <= sent[p]
        <4>1. CASE end_event
          <5>1. q.tx_completed = add_count(r.tx_completed)
            BY <3>1, <3>3, <4>1 DEF RadioRecord
          <5> QED
            BY RadioAssumption, <3>2, <3>4, <3>5, <4>1, <5>1
        <4>2. CASE ~end_event
          BY <3>1, <3>3, <4>2 DEF RadioRecord
        <4> QED
          BY <4>1, <4>2
      <3>8. q.tx_setups < COUNT_MAX => q.tx_setups = q.tx_completed + q.tx_uncompleted
        <4> SUFFICES ASSUME r.tx_setups < COUNT_MAX
                     PROVE  r.tx_setups = q.tx_completed + q.tx_uncompleted
          BY <3>6
        <4>1. /\ add_count(r.tx_completed) = r.tx_completed + 1
              /\ add_count(r.tx_uncompleted) = r.tx_uncompleted + 1
          BY RadioAssumption, <3>1, <3>2, <3>4
        <4>2. \/ q.tx_completed = r.tx_completed + 1 /\ q.tx_uncompleted = r.tx_uncompleted
              \/ q.tx_completed = r.tx_completed /\ q.tx_uncompleted = r.tx_uncompleted + 1
          BY <3>1, <3>3, <4>1 DEF RadioRecord
        <4> QED
          BY <3>1, <3>2, <4>2
      <3>9. Finished[p] = q /\ \A h \in Handles \ {p} : Finished[h] = radios[h]
        BY <1>1, <2>1
      <3>10. \A h \in Handles \ {p} : radios[h].armed =>
                /\ radios[h].tx_completed <= sent[h]
                /\ radios[h].tx_setups < COUNT_MAX =>
                      radios[h].tx_setups = radios[h].tx_completed + radios[h].tx_uncompleted + 0
        BY DEF TxAccounted, OnlyRealEnds
      <3>11. Finished \in [Handles -> RadioRecord]
        BY <1>1, <2>1, <3>6
      <3>12. \A h \in Handles \ {p} : radios[h].tx_completed \in Int /\ radios[h].tx_uncompleted \in Int
        BY <1>1 DEF RadioRecord
      <3>13. ASSUME NEW h \in Handles
             PROVE  /\ Finished[h].armed = radios[h].armed
                    /\ Finished[h].armed => Finished[h].tx_completed <= sent[h]
                    /\ Finished[h].armed /\ Finished[h].tx_setups < COUNT_MAX =>
                          Finished[h].tx_setups
                              = Finished[h].tx_completed + Finished[h].tx_uncompleted
        <4>1. CASE h = p
          <5>1. Finished[h] = q /\ q.armed /\ radios[h].armed
            BY <2>3, <3>6, <3>9, <4>1
          <5> HIDE DEF q
          <5>2. Finished[h].armed = TRUE /\ radios[h].armed = TRUE
            BY <1>1, <3>11, <5>1 DEF RadioRecord
          <5> QED
            BY <3>7, <3>8, <4>1, <5>1, <5>2
        <4>2. CASE h # p
          BY <3>9, <3>10, <3>12, <4>2
        <4> QED
          BY <4>1, <4>2
      <3> QED
        BY <3>11, <3>13
    <2> QED
      BY <2>2, <2>3
  <1> QED
    BY <1>2, <1>3

\* A radio step that changes nobody's arming keeps what is said of the call and
\* of the handoffs.
LEMMA RadioKeepsCall ==
    ASSUME Inv, UNCHANGED <<link, call, handoff, used>>,
           \A h \in Handles : radios'[h].armed = radios[h].armed
    PROVE  CallInv' /\ ArmedOnlyInHandoff' /\ SummaryComes'
  BY DEF Inv, CallInv, ArmedOnlyInHandoff, SummaryComes, Live, TypeOK

\* The steps that resolve what is pending and set up nothing.
LEMMA ResolvedInv ==
    ASSUME Inv, UNCHANGED <<link, call, handoff, used, cipher, sent>>,
           radios' = Finished, ~tx_radio'.pending,
           tx_radio' \in [param: Handles \cup {NoParam}, active: BOOLEAN, pending: BOOLEAN,
                          encrypted_packet: BOOLEAN, encrypted_term: BOOLEAN],
           tx_radio'.encrypted_term = tx_radio.encrypted_term,
           hw' \in {"idle", "rx"} \cup Contents, end_event' \in BOOLEAN
    PROVE  Inv'
  <1>1. TypeOK'
    BY FinishedBalances DEF Inv, TypeOK, RadioTypeOK, RadioRecord
  <1>2. CallInv' /\ ArmedOnlyInHandoff' /\ SummaryComes'
    BY FinishedBalances, RadioKeepsCall
  <1>3. PendingInv' /\ CipherInv'
    BY DEF Inv, PendingInv, CipherInv
  <1>4. OnlyRealEnds'
    BY FinishedBalances DEF OnlyRealEnds
  <1>5. TxAccounted'
    <2>1. \A h \in Handles : Finished[h].tx_completed \in Int /\ Finished[h].tx_uncompleted \in Int
      BY FinishedBalances DEF RadioRecord
    <2>2. \A h \in Handles : Finished[h].armed /\ Finished[h].tx_setups < COUNT_MAX =>
             Finished[h].tx_setups = Finished[h].tx_completed + Finished[h].tx_uncompleted + 0
      BY FinishedBalances, <2>1
    <2> QED
      BY <2>2 DEF TxAccounted
  <1> QED
    BY <1>1, <1>2, <1>3, <1>4, <1>5 DEF Inv

LEMMA RadioRxInv ==
    ASSUME Inv, NEW h \in Handles, RadioRx(h), UNCHANGED <<link, call, handoff, used>>
    PROVE  Inv'
  <1>1. /\ tx_radio' = Follow(h, FALSE)
        /\ tx_radio' \in [param: Handles \cup {NoParam}, active: BOOLEAN, pending: BOOLEAN,
                           encrypted_packet: BOOLEAN, encrypted_term: BOOLEAN]
    BY DEF RadioRx, Follow, Inv, TypeOK, RadioTypeOK
  <1>2. ~tx_radio'.pending /\ tx_radio'.encrypted_term = tx_radio.encrypted_term
    BY <1>1 DEF Follow
  <1>3. end_event' \in BOOLEAN
    BY DEF RadioRx, Inv, TypeOK, RadioTypeOK
  <1> QED
    BY <1>1, <1>2, <1>3, ResolvedInv DEF RadioRx

LEMMA RadioOtherInv ==
    ASSUME Inv, RadioOther, UNCHANGED <<link, call, handoff, used>> PROVE Inv'
  <1>1. /\ tx_radio' \in [param: Handles \cup {NoParam}, active: BOOLEAN, pending: BOOLEAN,
                           encrypted_packet: BOOLEAN, encrypted_term: BOOLEAN]
        /\ ~tx_radio'.pending /\ tx_radio'.encrypted_term = tx_radio.encrypted_term
    BY DEF RadioOther, Inv, TypeOK, RadioTypeOK
  <1>2. end_event' \in BOOLEAN
    BY DEF RadioOther, Inv, TypeOK, RadioTypeOK
  <1> QED
    BY <1>1, <1>2, ResolvedInv DEF RadioOther

LEMMA StatusResetInv ==
    ASSUME Inv, StatusReset, UNCHANGED <<link, call, handoff, used>> PROVE Inv'
  <1>1. /\ tx_radio' \in [param: Handles \cup {NoParam}, active: BOOLEAN, pending: BOOLEAN,
                           encrypted_packet: BOOLEAN, encrypted_term: BOOLEAN]
        /\ ~tx_radio'.pending /\ tx_radio'.encrypted_term = tx_radio.encrypted_term
    BY DEF StatusReset, Inv, TypeOK, RadioTypeOK
  <1>2. hw' \in {"idle", "rx"} \cup Contents /\ end_event' \in BOOLEAN
    BY DEF StatusReset, Inv, TypeOK, RadioTypeOK
  <1> QED
    BY <1>1, <1>2, ResolvedInv DEF StatusReset

\* The transmit phase of another link resolves; one of the same link changes
\* neither what is pending nor what is on the air.
LEMMA RadioTxInv ==
    ASSUME Inv, NEW h \in Handles, RadioTx(h), UNCHANGED <<link, call, handoff, used>>
    PROVE  Inv'
  <1> DEFINE stays == tx_radio.pending /\ h = tx_radio.param
  <1>1. /\ tx_radio' = Follow(h, stays)
        /\ tx_radio' \in [param: Handles \cup {NoParam}, active: BOOLEAN, pending: BOOLEAN,
                           encrypted_packet: BOOLEAN, encrypted_term: BOOLEAN]
    BY DEF RadioTx, Follow, Inv, TypeOK, RadioTypeOK
  <1>2. /\ tx_radio'.param = h /\ tx_radio'.pending = stays
        /\ tx_radio'.encrypted_term = tx_radio.encrypted_term
    BY <1>1 DEF Follow
  <1>3. end_event' \in BOOLEAN /\ hw' \in {"idle", "rx"} \cup Contents
    BY DEF RadioTx, Inv, TypeOK, RadioTypeOK
  <1>4. CASE h # tx_radio.param
    BY <1>1, <1>2, <1>3, <1>4, ResolvedInv DEF RadioTx
  <1>5. CASE h = tx_radio.param
    <2>1. /\ radios' = radios /\ hw' = hw /\ end_event' = end_event /\ sent' = sent
          /\ cipher' = cipher /\ tx_radio'.param = tx_radio.param
          /\ tx_radio'.pending = tx_radio.pending
      BY <1>2, <1>5 DEF RadioTx, Inv, TypeOK, RadioTypeOK
    <2>2. TypeOK'
      BY <1>1, <2>1 DEF Inv, TypeOK, RadioTypeOK
    <2>3. CallInv' /\ ArmedOnlyInHandoff' /\ SummaryComes'
      BY <2>1, RadioKeepsCall
    <2>4. PendingInv' /\ CipherInv'
      BY <1>2, <2>1 DEF Inv, PendingInv, CipherInv
    <2>5. TxAccounted' /\ OnlyRealEnds'
      BY <2>1 DEF Inv, TxAccounted, OnlyRealEnds
    <2> QED
      BY <2>2, <2>3, <2>4, <2>5 DEF Inv
  <1> QED
    BY <1>4, <1>5

LEMMA CcmTxInv ==
    ASSUME Inv, NEW content \in Contents, CcmTx(content), UNCHANGED <<link, call, handoff, used>>
    PROVE  Inv'
  <1>1. TypeOK'
    BY DEF CcmTx, Inv, TypeOK, RadioTypeOK
  <1>2. /\ tx_radio'.param = tx_radio.param /\ tx_radio'.pending = tx_radio.pending
        /\ tx_radio'.encrypted_term => content = "term"
    BY DEF CcmTx, Inv, TypeOK, RadioTypeOK
  <1>3. CallInv' /\ ArmedOnlyInHandoff' /\ SummaryComes'
    BY RadioKeepsCall DEF CcmTx
  <1>4. PendingInv' /\ CipherInv'
    BY <1>2 DEF CcmTx, Inv, PendingInv, CipherInv
  <1>5. TxAccounted' /\ OnlyRealEnds'
    BY <1>2 DEF CcmTx, Inv, TxAccounted, OnlyRealEnds
  <1> QED
    BY <1>1, <1>3, <1>4, <1>5 DEF Inv

\* The END of a termination packet is one more of that link on the air.
LEMMA RadioEndInv ==
    ASSUME Inv, RadioEnd, UNCHANGED <<link, call, handoff, used>> PROVE Inv'
  <1> DEFINE p == tx_radio.param
  <1>0. radios \in [Handles -> RadioRecord] /\ sent \in [Handles -> 0 .. COUNT_MAX]
    BY DEF Inv, TypeOK, RadioTypeOK, RadioRecord
  <1>1. /\ sent' \in [Handles -> 0 .. COUNT_MAX]
        /\ \A h \in Handles : sent[h] <= sent'[h]
    <2>1. \A n \in 0 .. COUNT_MAX : add_count(n) \in 0 .. COUNT_MAX /\ n <= add_count(n)
      BY RadioAssumption DEF add_count
    <2>2. CASE sent' = sent
      BY <1>0, <2>2, RadioAssumption
    <2>3. CASE sent' = [sent EXCEPT ![p] = add_count(sent[p])]
      <3>1. \A h \in Handles :
               sent'[h] \in 0 .. COUNT_MAX /\ sent[h] \in 0 .. COUNT_MAX /\ sent[h] <= sent'[h]
        <4> TAKE h \in Handles
        <4>1. sent[h] \in 0 .. COUNT_MAX
          BY <1>0
        <4>2. sent'[h] = sent[h] \/ sent'[h] = add_count(sent[h])
          BY <1>0, <2>3
        <4> QED
          BY <2>1, <4>1, <4>2, RadioAssumption
      <3>2. sent' = [h \in Handles |-> sent'[h]]
        BY <1>0, <2>3
      <3> QED
        BY <3>1, <3>2
    <2> QED
      BY <2>2, <2>3 DEF RadioEnd
  <1>2. TypeOK'
    BY <1>1 DEF RadioEnd, Inv, TypeOK, RadioTypeOK
  <1>3. CallInv' /\ ArmedOnlyInHandoff' /\ SummaryComes'
    BY RadioKeepsCall DEF RadioEnd
  <1>4. PendingInv'
    <2> SUFFICES ASSUME tx_radio.pending
                 PROVE  /\ p \in Handles /\ link[p] # "up" /\ hw' = "idle" /\ end_event'
                        /\ radios[p].armed => radios[p].tx_completed < sent'[p] \/ sent'[p] = COUNT_MAX
      BY DEF RadioEnd, PendingInv
    <2>1. p \in Handles /\ link[p] # "up" /\ hw = "term"
      BY DEF Inv, PendingInv, RadioEnd
    <2>2. sent'[p] = add_count(sent[p])
      BY <1>0, <2>1 DEF RadioEnd
    <2>3. radios[p].armed => radios[p].tx_completed <= sent[p]
      BY <2>1 DEF Inv, OnlyRealEnds
    <2>4. radios[p].tx_completed \in 0 .. COUNT_MAX /\ sent[p] \in 0 .. COUNT_MAX
      BY <1>0, <2>1 DEF RadioRecord
    <2> QED
      BY RadioAssumption, <2>1, <2>2, <2>3, <2>4 DEF add_count, RadioEnd
  <1>5. CipherInv' /\ TxAccounted'
    BY DEF RadioEnd, Inv, CipherInv, TxAccounted
  <1>6. OnlyRealEnds'
    <2> SUFFICES ASSUME NEW h \in Handles, radios[h].armed PROVE radios[h].tx_completed <= sent'[h]
      BY DEF RadioEnd, OnlyRealEnds
    <2>1. radios[h].tx_completed <= sent[h]
      BY DEF Inv, OnlyRealEnds
    <2>2. radios[h].tx_completed \in Int /\ sent[h] \in Int /\ sent'[h] \in Int
      BY <1>0, <1>1, RadioAssumption DEF RadioRecord
    <2> QED
      BY <1>1, <2>1, <2>2
  <1> QED
    BY <1>2, <1>3, <1>4, <1>5, <1>6 DEF Inv

\* A packet is set while END is clear; what the observer counts as a termination
\* packet is one, so its END will be a real one.
LEMMA PktTxInv ==
    ASSUME Inv, NEW content \in Contents, NEW bypass \in BOOLEAN, MaySend(content),
           PktTx(content, bypass), UNCHANGED <<link, call, handoff, used>>
    PROVE  Inv'
  <1> DEFINE p == tx_radio.param  term == IsTermination(content, bypass)
  <1>1. /\ tx_radio' \in [param: Handles \cup {NoParam}, active: BOOLEAN, pending: BOOLEAN,
                           encrypted_packet: BOOLEAN, encrypted_term: BOOLEAN]
        /\ tx_radio'.param = p /\ tx_radio'.pending = term
        /\ tx_radio'.encrypted_term = tx_radio.encrypted_term
    <2>1. term \in BOOLEAN
      BY DEF IsTermination, Inv, TypeOK, RadioTypeOK
    <2>2. tx_radio' = [tx_radio EXCEPT !.encrypted_packet = FALSE, !.pending = term]
      BY DEF PktTx
    <2> HIDE DEF term
    <2> QED
      BY <2>1, <2>2 DEF Inv, TypeOK, RadioTypeOK
  <1>2. p \in Handles /\ hw' = content /\ end_event' = FALSE /\ ~end_event
    BY DEF PktTx, MaySend, Inv, TypeOK, RadioTypeOK
  <1>3. CASE ~term
    <2>1. radios' = Finished /\ UNCHANGED <<cipher, sent>>
      BY <1>3 DEF PktTx, BeforeSetup
    <2> HIDE DEF term
    <2> QED
      BY <1>1, <1>2, <1>3, <2>1, ResolvedInv
  <1>4. CASE term
    <2>1. content = "term" /\ link[p] = "closing"
      <3>1. content = "term"
        BY <1>4 DEF IsTermination, PktTx, OnAir, Inv, CipherInv
      <3> QED
        BY <3>1 DEF MaySend
    <2> DEFINE r == Finished[p]  q == tx_setup(r)
    <2>2. radios' = [Finished EXCEPT ![p] = q] /\ cipher' = cipher /\ sent' = sent
      BY <1>4 DEF PktTx, BeforeSetup
    <2>3. /\ Finished \in [Handles -> RadioRecord] /\ r \in RadioRecord
          /\ r.armed = radios[p].armed /\ (r.armed => r.tx_completed <= sent[p])
          /\ (r.armed /\ r.tx_setups < COUNT_MAX => r.tx_setups = r.tx_completed + r.tx_uncompleted)
      BY <1>2, FinishedBalances
    <2>4. /\ r.tx_setups \in 0 .. COUNT_MAX /\ r.tx_completed \in Int /\ r.tx_uncompleted \in Int
          /\ add_count(r.tx_setups) \in 0 .. COUNT_MAX
          /\ r.tx_setups < COUNT_MAX => add_count(r.tx_setups) = r.tx_setups + 1
          /\ r.tx_setups = COUNT_MAX => add_count(r.tx_setups) = COUNT_MAX
      BY <2>3, AddCount DEF RadioRecord
    <2>5. /\ q \in RadioRecord /\ q.armed = r.armed
          /\ q.tx_completed = r.tx_completed /\ q.tx_uncompleted = r.tx_uncompleted
          /\ r.armed => q.tx_setups = add_count(r.tx_setups)
      <3> HIDE DEF r
      <3> QED
        BY <2>3, <2>4 DEF tx_setup, RadioRecord
    <2>6. q.armed /\ q.tx_setups < COUNT_MAX => q.tx_setups = q.tx_completed + q.tx_uncompleted + 1
      <3> HIDE DEF r, q
      <3> QED
        BY <2>3, <2>4, <2>5, RadioAssumption
    <2>7. radios'[p] = q /\ \A h \in Handles \ {p} : radios'[h] = Finished[h]
      BY <1>2, <2>2, <2>3
    <2>8. radios' \in [Handles -> RadioRecord]
      BY <1>2, <2>2, <2>3, <2>5
    <2>9. TypeOK'
      BY <1>1, <1>2, <2>2, <2>8 DEF Inv, TypeOK, RadioTypeOK, RadioRecord
    <2>10. CallInv' /\ ArmedOnlyInHandoff' /\ SummaryComes'
      <3>1. \A h \in Handles : radios'[h].armed = radios[h].armed
        BY <1>2, <2>3, <2>5, <2>7, FinishedBalances
      <3> QED
        BY <3>1, RadioKeepsCall
    <2>11. PendingInv' /\ CipherInv'
      BY <1>1, <1>2, <2>1, <2>2 DEF Inv, PendingInv, CipherInv
    <2>12. OnlyRealEnds'
      BY <1>2, <2>2, <2>3, <2>5, <2>7, FinishedBalances DEF OnlyRealEnds
    <2>13. TxAccounted'
      <3> SUFFICES ASSUME NEW h \in Handles, radios'[h].armed, radios'[h].tx_setups < COUNT_MAX
                   PROVE  radios'[h].tx_setups = radios'[h].tx_completed + radios'[h].tx_uncompleted
                              + (IF tx_radio'.pending /\ tx_radio'.param = h THEN 1 ELSE 0)
        BY DEF TxAccounted
      <3>1. CASE h = p
        <4>1. tx_radio'.pending /\ tx_radio'.param = h
          BY <1>1, <1>4, <3>1
        <4> HIDE DEF q, term
        <4> QED
          BY <2>6, <2>7, <3>1, <4>1
      <3>2. CASE h # p
        <4>1. ~(tx_radio'.pending /\ tx_radio'.param = h)
          BY <1>1, <3>2
        <4>2. radios'[h] = Finished[h]
              /\ Finished[h].tx_completed \in Int /\ Finished[h].tx_uncompleted \in Int
          BY <2>3, <2>7, <3>2 DEF RadioRecord
        <4> QED
          BY <4>1, <4>2, FinishedBalances
      <3> QED
        BY <3>1, <3>2
    <2> QED
      BY <2>9, <2>10, <2>11, <2>12, <2>13 DEF Inv
  <1> QED
    BY <1>3, <1>4

-----------------------------------------------------------------------------
LEMMA RadioInv ==
    ASSUME Inv, Radio PROVE Inv'
  <1> USE DEF Radio
  <1>1. ASSUME NEW h \in Handles, RadioRx(h) \/ RadioTx(h) PROVE Inv'
    BY <1>1, RadioRxInv, RadioTxInv
  <1>2. CASE RadioOther \/ RadioEnd \/ StatusReset
    BY <1>2, RadioOtherInv, RadioEndInv, StatusResetInv
  <1>3. ASSUME NEW content \in Contents, CcmTx(content) PROVE Inv'
    BY <1>3, CcmTxInv
  <1>4. ASSUME NEW content \in Contents, NEW bypass \in BOOLEAN,
               MaySend(content), PktTx(content, bypass)
        PROVE  Inv'
    BY <1>4, PktTxInv
  <1> QED
    BY <1>1, <1>2, <1>3, <1>4

LEMMA NextInv == Inv /\ [Next]_vars => Inv'
  <1> SUFFICES ASSUME Inv, [Next]_vars PROVE Inv'
    OBVIOUS
  <1>1. ASSUME NEW h \in Handles,
               \/ Connected(h) \/ LinkEnds(h) \/ HciDisconnected(h) \/ BadEvent(h)
               \/ ArmHandoff(h) \/ PlainDisconnect(h)
        PROVE  Inv'
    BY <1>1, ConnectedInv, LinkEndsInv, HciDisconnectedInv, BadEventInv, ArmHandoffInv,
       PlainDisconnectInv
  <1>2. CASE Accepted \/ Refused \/ Disarm \/ Radio
    BY <1>2, AcceptedInv, RefusedInv, DisarmInv, RadioInv
  <1>3. CASE UNCHANGED vars
    <2> USE <1>3 DEF Inv, vars, radioVars
    <2>1. TypeOK' /\ CallInv' /\ PendingInv' /\ CipherInv'
      BY DEF TypeOK, RadioTypeOK, CallInv, PendingInv, CipherInv, Live
    <2>2. ArmedOnlyInHandoff' /\ SummaryComes' /\ TxAccounted' /\ OnlyRealEnds'
      BY DEF ArmedOnlyInHandoff, SummaryComes, TxAccounted, OnlyRealEnds
    <2> QED
      BY <2>1, <2>2
  <1> QED
    BY <1>1, <1>2, <1>3 DEF Next

\* Inv is an invariant: the strengthening the theorems below rest on.
THEOREM HandoffInvariant == Spec => []Inv
  BY InitInv, NextInv, PTL DEF Spec

\* The handoff observers' state stays well-typed: no counter passes its limit.
THEOREM HandoffTypeCorrect == Spec => []TypeOK
  <1>1. Inv => TypeOK
    BY DEF Inv
  <1> QED
    BY <1>1, HandoffInvariant, PTL

\* Every termination packet set up in a handoff is resolved exactly once or still
\* pending, whatever the other links and the disconnect call do meanwhile.
THEOREM TransmissionsAccounted == Spec => []TxAccounted
  <1>1. Inv => TxAccounted
    BY DEF Inv
  <1> QED
    BY <1>1, HandoffInvariant, PTL

\* A transmission is counted as completed only if a termination packet of that
\* link has really been on the air.
THEOREM CompletionsAreReal == Spec => []OnlyRealEnds
  <1>1. Inv => OnlyRealEnds
    BY DEF Inv
  <1> QED
    BY <1>1, HandoffInvariant, PTL

\* A handle is armed only while its handoff's disconnect call is under way or its
\* link is going down, for every interleaving of the call with the link's loss.
THEOREM NothingLeftArmed == Spec => []ArmedOnlyInHandoff
  <1>1. Inv => ArmedOnlyInHandoff
    BY DEF Inv
  <1> QED
    BY <1>1, HandoffInvariant, PTL

\* An accepted handoff keeps its observers armed until its summary is captured.
THEOREM HandoffSummarised == Spec => []SummaryComes
  <1>1. Inv => SummaryComes
    BY DEF Inv
  <1> QED
    BY <1>1, HandoffInvariant, PTL

=============================================================================
