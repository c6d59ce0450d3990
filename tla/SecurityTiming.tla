-------------------------- MODULE SecurityTiming ---------------------------
(***************************************************************************)
(* The observers of link encryption, security_timing.c on the Bluetooth    *)
(* host's side and security_controller_timing.c on the controller's.  An   *)
(* exchange is one security request sent, one LTK request answered with    *)
(* the key or refused, or one encryption change reported; its hooks run in *)
(* up to three contexts, the controller's interrupts, the thread that puts *)
(* HCI events on rx_queue and the thread that takes them off, and every    *)
(* hook captures a record in the inbox of TimingInbox.                     *)
(*                                                                         *)
(* External: the calls the hooks wrap, and which context makes them.  Only *)
(* the records that the hooks' own tests let through are modelled, and of  *)
(* the encryption PDUs of one procedure the one that starts it and the one *)
(* that the host's answer queues.                                          *)
(***************************************************************************)
EXTENDS TimingInbox

CONSTANT Exchanges      \* numbers of the exchanges

ASSUME ExchangeAssumption == Exchanges \subseteq Nat \ {0}

VARIABLES
    kind,       \* of each exchange: none yet, or one of Kinds
    rx_queue,   \* bt_dev.rx_queue: the exchanges whose HCI event is on it
    hooks,      \* of each thread: what its current call still has to do
    trace       \* history: how far the journal has followed each exchange

securityVars == <<kind, rx_queue, hooks, trace>>

SecThreads == {"rx", "host"}
LtkKinds == {"ltk", "refused"}
Kinds == {"request", "encrypt"} \cup LtkKinds

\* The records of an exchange, in the order of their causes.
Stages(k) ==
    CASE k = "request" -> <<"request", "requested">>
      [] k = "ltk"     -> <<"received", "arrived", "taken", "reply", "queued", "replied">>
      [] k = "refused" -> <<"received", "arrived", "taken", "reply", "replied">>
      [] k = "encrypt" -> <<"arrived", "taken", "changed", "channels", "done">>

Rank(n, stage) == CHOOSE i \in DOMAIN Stages(kind[n]) : Stages(kind[n])[i] = stage

SecurityInit ==
    /\ kind = [n \in Exchanges |-> "none"]
    /\ rx_queue = <<>>
    /\ hooks = [t \in SecThreads |-> <<>>]
    /\ trace = [n \in Exchanges |-> 0]

Captures(n, stages) == [i \in DOMAIN stages |-> <<n, stages[i]>>]

\* Mutant: the event is put on the queue before it is observed.
ObservedAfterPut(n) == << <<n, "put">>, <<n, "arrived">> >>
\* __wrap_net_buf_slist_put: encryption_observed and then the real put.
slist_put(n) == << <<n, "arrived">>, <<n, "put">> >>

\* Exchanges are numbered in the order in which they begin.
Unused(n) == \A m \in Exchanges : kind[m] = "none" <=> m >= n

\* The first hook of an exchange.  A request is sent by the host: __wrap_bt_l2cap_send_pdu
\* captures before and after the real send.
SecurityRequest(n) ==
    /\ Unused(n) /\ hooks["host"] = <<>>
    /\ kind' = [kind EXCEPT ![n] = "request"]
    /\ hooks' = [hooks EXCEPT !["host"] = Captures(n, Stages("request"))]
    /\ UNCHANGED <<rx_queue, trace, inboxVars>>

\* __wrap_ull_cp_rx in the controller's interrupt: exchange_capture, and the
\* real call then makes the LTK request event, which the host will answer or refuse.
LtkRequested(n) ==
    /\ Unused(n) /\ hooks["rx"] = <<>>
    /\ \E k \in LtkKinds : kind' = [kind EXCEPT ![n] = k]
    /\ hooks' = [hooks EXCEPT !["rx"] = slist_put(n)]
    /\ CaptureInIsr(<<n, "received">>)
    /\ UNCHANGED <<rx_queue, trace>>

\* The controller reports an encryption change or a key refresh.
EncryptionChanged(n) ==
    /\ Unused(n) /\ hooks["rx"] = <<>>
    /\ kind' = [kind EXCEPT ![n] = "encrypt"]
    /\ hooks' = [hooks EXCEPT !["rx"] = slist_put(n)]
    /\ UNCHANGED <<rx_queue, trace, inboxVars>>

\* What the host does with an LTK request it took: __wrap_ull_cp_ltk_req_reply around
\* totem_security_tx_queued, or __wrap_ull_cp_ltk_req_neq_reply, which queues a
\* rejection and no encryption PDU.
LtkHandling == <<"taken", "reply", "queued", "replied">>
RefusalHandling == <<"taken", "reply", "replied">>

\* With an encryption change: __wrap_bt_conn_security_changed around
\* __wrap_bt_l2cap_security_changed.
EncryptHandling == <<"taken", "changed", "channels", "done">>

Handling(k) ==
    IF k = "ltk" THEN LtkHandling ELSE IF k = "refused" THEN RefusalHandling ELSE EncryptHandling

\* The real net_buf_slist_get.
TakeEvent ==
    /\ hooks["host"] = <<>> /\ rx_queue # <<>>
    /\ LET n == Head(rx_queue)
       IN  hooks' = [hooks EXCEPT !["host"] = Captures(n, Handling(kind[n]))]
    /\ rx_queue' = Tail(rx_queue)
    /\ UNCHANGED <<kind, trace, inboxVars>>

\* A thread's next hook captures, or its real put is made.
HookStep(t) ==
    /\ hooks[t] # <<>> /\ t \notin submitting
    /\ hooks' = [hooks EXCEPT ![t] = Tail(@)]
    /\ LET op == Head(hooks[t])
       IN  IF op[2] = "put"
           THEN rx_queue' = Append(rx_queue, op[1]) /\ UNCHANGED inboxVars
           ELSE Capture(t, op) /\ UNCHANGED rx_queue
    /\ UNCHANGED <<kind, trace>>

\* The journal gets the record that timing_drain takes out.
Recorded ==
    /\ trace' = LET r == timing_inbox[timing_head] IN [trace EXCEPT ![r[1]] = Rank(r[1], r[2])]
    /\ UNCHANGED <<kind, rx_queue, hooks>>

-----------------------------------------------------------------------------
\* The journal follows every exchange in the order of its causes, though the
\* records come from an interrupt and two threads: a later hook's record never
\* precedes an earlier one's, whatever was dropped in between.
CausalTrace == [][\A n \in Exchanges : trace[n] <= trace'[n]]_trace

=============================================================================
