---------------------------- MODULE Notifications -----------------------------
(***************************************************************************)
(* The notifications that are sent for the outputs of a transaction        *)
(* (notifications/notifications.go and sockety/sockety.go): ProcessVout    *)
(* puts them in a bounded queue, from which workers that live as long as   *)
(* the process post them.  If the queue is full they are dropped.  The     *)
(* module composes them with the pool that calls ProcessVout, and leaves   *)
(* out the notifications of claims.                                        *)
(***************************************************************************)
EXTENDS TxPool, Sequences, SequencesExt

CONSTANTS
  QueueSize,    \* capacity of notificationQueue and socketyQueue
  Senders       \* the notification workers

ASSUME QueueAssumption   == QueueSize \in Nat \ {0}
ASSUME SendersAssumption == IsFiniteSet(Senders)

VARIABLES
  payments,     \* the outputs that pay an address
  queue,        \* the queue
  sending,      \* the notification that each worker posts, 0 for none
  sent,         \* history: notifications that were posted, with or without success
  dropped       \* history: notifications that were dropped

noteVars == <<payments, queue, sending, sent, dropped>>
vars == <<poolVars, noteVars>>

Init ==
  /\ PoolInit
  /\ payments \in SUBSET (IF kind = "outputs" THEN 1..n ELSE {})
  /\ queue = <<>> /\ sending = [s \in Senders |-> 0]
  /\ sent = {} /\ dropped = {}

\* Mutated form: the caller waits for a place in the queue.
NotifyWaits(i) ==
  /\ Len(queue) < QueueSize
  /\ queue' = Append(queue, i)
  /\ UNCHANGED <<payments, sending, sent, dropped>>

\* Notify and SendNotification: the notification is dropped if the queue is full.
Notify(i) ==
  /\ IF Len(queue) < QueueSize
     THEN queue' = Append(queue, i) /\ UNCHANGED dropped
     ELSE dropped' = dropped \cup {i} /\ UNCHANGED queue
  /\ UNCHANGED <<payments, sending, sent>>

\* Mutated form: the notification stays in the queue.
TakeCopy(s) ==
  /\ sending[s] = 0 /\ queue # <<>>
  /\ sending' = [sending EXCEPT ![s] = Head(queue)]
  /\ UNCHANGED <<payments, queue, sent, dropped>>

Take(s) ==
  /\ sending[s] = 0 /\ queue # <<>>
  /\ sending' = [sending EXCEPT ![s] = Head(queue)]
  /\ queue' = Tail(queue)
  /\ UNCHANGED <<payments, sent, dropped>>

\* The subscribers answered or not; an error is logged.
Sent(s) ==
  /\ sending[s] # 0
  /\ sending' = [sending EXCEPT ![s] = 0]
  /\ sent' = sent \cup {sending[s]}
  /\ UNCHANGED <<payments, queue, dropped>>

\* ProcessVout notifies once it has stored an output that pays an address, and may
\* still fail after that, when it stores the claim.  For null data and an output
\* without an address it returns when the output is stored.
Process(w) ==
  /\ Work(w, TRUE)
  /\ IF worker[w].item \in payments THEN Notify(worker[w].item) ELSE UNCHANGED noteVars
Fails(w) ==
  /\ Work(w, FALSE)
  /\ UNCHANGED noteVars \/ (worker[w].item \in payments /\ Notify(worker[w].item))

Pool  == (PoolSteps /\ UNCHANGED noteVars) \/ \E w \in WorkerIds : Process(w)
Posts == (\E s \in Senders : Take(s) \/ Sent(s)) /\ UNCHANGED poolVars

Next ==
  \/ Pool \/ Posts
  \/ \E w \in WorkerIds : Fails(w)
  \/ Shutdown /\ UNCHANGED noteVars

Spec == Init /\ [][Next]_vars

\* The goroutines of the pool go on; nothing is assumed of the subscribers, who
\* may keep all the notification workers waiting.
FairSpec == Spec /\ WF_vars(Pool)

-----------------------------------------------------------------------------
(* Properties.                                                             *)

\* The variables keep their types, and nothing is lost or doubled on the way
\* through the channels.  A notification is in one place: in the queue, with a
\* worker, posted or dropped; every output that was stored and pays an address has
\* one, and nothing else but such outputs that failed later.
TypeOK ==
  LET held == ToSet(queue) \cup ({sending[s] : s \in Senders} \ {0})
  IN  /\ PoolTypeOK
      /\ Len(queue) <= QueueSize
      /\ held \cup sent \cup dropped \subseteq payments \cap (good \cup bad)
      /\ payments \cap good \subseteq held \cup sent \cup dropped
      /\ held \cap sent = {} /\ dropped \cap (held \cup sent) = {}
      /\ Cardinality(held) = Len(queue) + Cardinality({s \in Senders : sending[s] # 0})

\* The call returns, whatever fails, whenever the daemon is stopped, and however
\* slow the subscribers are.
CallReturns == <>(caller = "returned")

=============================================================================
