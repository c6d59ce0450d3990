---------------------------- MODULE Diagnostics ----------------------------
(***************************************************************************)
(* The two reporters that share the system work queue: timing_drain, which *)
(* empties the inbox that the security hooks fill (SecurityTiming), and    *)
(* flush_counts, which reports the keyboard report counters (HidReports).  *)
(* The queue runs one handler at a time; every other context runs between  *)
(* any two of its steps.                                                   *)
(***************************************************************************)
EXTENDS HidReports, SecurityTiming

CONSTANT Loads      \* bounds: what a behaviour may be given, and how many flushes

Given == {"reports", "releases", "profiles", "exchanges", "flushes"}

ASSUME LoadAssumption == Loads \subseteq [Given -> Nat]

VARIABLE load       \* what is still to come

vars == <<hidVars, securityVars, inboxVars, load>>

TypeOK ==
    /\ HidTypeOK /\ InboxTypeOK
    /\ kind \in [Exchanges -> Kinds \cup {"none"}]
    /\ load \in [Given -> Nat]

Init == HidInit /\ SecurityInit /\ InboxInit /\ load \in Loads

Take(given) == load[given] > 0 /\ load' = [load EXCEPT ![given] = @ - 1]

\* The handlers of the system work queue.
FlushWork ==
    /\ \/ Take("flushes") /\ ~draining /\ FlushStart
       \/ UNCHANGED load /\ (FlushOne \/ FlushPass)
    /\ UNCHANGED <<securityVars, inboxVars>>

DrainWork ==
    /\ \/ ~Flushing /\ DrainStart /\ UNCHANGED securityVars
       \/ DrainOne /\ Recorded
       \/ DrainEnd /\ UNCHANGED securityVars
    /\ UNCHANGED <<hidVars, load>>

\* The key thread and the HOG worker.
Typing ==
    /\ \/ Take("releases") /\ \E err \in BOOLEAN : Release(err)
       \/ Take("reports") /\ put.pc = "idle" /\ \E up \in BOOLEAN : PutStart(up)
       \/ Take("profiles") /\ \E p \in Profiles : Select(p)
       \/ UNCHANGED load /\ (HidWorker \/ HidKeys \/ HidCounting)
    /\ UNCHANGED <<securityVars, inboxVars>>

\* The Bluetooth threads and the controller's interrupts.
Pairing ==
    /\ \/ /\ Take("exchanges")
          /\ \E n \in Exchanges : SecurityRequest(n) \/ LtkRequested(n) \/ EncryptionChanged(n)
       \/ /\ UNCHANGED load
          /\ \/ TakeEvent
             \/ \E t \in SecThreads : HookStep(t) \/ (Submit(t) /\ UNCHANGED securityVars)
    /\ UNCHANGED hidVars

Next == FlushWork \/ DrainWork \/ Typing \/ Pairing

Spec == Init /\ [][Next]_vars

=============================================================================
