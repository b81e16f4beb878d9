------------------------- MODULE NotificationsProofs -------------------------
(***************************************************************************)
(* Proofs about TxPool and Notifications, for every number of items, of    *)
(* workers of the pool and of notification workers, and for every capacity *)
(* of the queue.                                                           *)
(***************************************************************************)
EXTENDS Notifications, FiniteSetTheorems, TLAPS

-----------------------------------------------------------------------------
(* The inductive invariant of the pool.                                    *)

WorkerStates ==
  {Gone, Waiting} \cup [at : {"work"}, item : 1..n]
    \cup [at : {"send"}, item : 1..n, ok : BOOLEAN]

PoolTyped ==
  /\ kind \in {"fetch", "inputs", "outputs"}
  /\ n \in 0..MaxItems
  /\ next \in 0..(n + 1)
  /\ worker \in [WorkerIds -> WorkerStates]
  /\ results \subseteq 1..n /\ good \subseteq 1..n /\ bad \subseteq 1..n
  /\ caller \in {"loop", "stop", "returned"}
  /\ err \in {"none", "failed", "shutdown"}
  /\ stopped \in BOOLEAN /\ shutdown \in BOOLEAN

\* The worker w has an item.
Has(w) == worker[w].at \in {"work", "send"}

\* An item is with one worker at most, and with none once the caller has its
\* result; the items that are still to be queued are new.
OneWorker ==
  /\ \A v, w \in WorkerIds : Has(v) /\ Has(w) /\ worker[v].item = worker[w].item => v = w
  /\ \A w \in WorkerIds : worker[w].at = "work" => worker[w].item \notin good \cup bad
  /\ \A w \in WorkerIds : worker[w].at = "send" =>
       /\ worker[w].item \in IF worker[w].ok THEN good ELSE bad
       /\ worker[w].item \notin results
  /\ next > 0 => /\ \A w \in WorkerIds : Has(w) => worker[w].item < next
                 /\ \A i \in good \cup bad : i < next

\* What the caller has counted.
Tally ==
  /\ good \cap bad = {}
  /\ results \subseteq good \cup bad
  /\ left = n - Cardinality(results)

\* What the caller knows at each place.
Outcome ==
  /\ err = "none" => results \cap bad = {}
  /\ err = "failed" => bad # {}
  /\ err = "shutdown" => shutdown
  /\ shutdown => kind = "fetch"
  /\ caller # "loop" /\ (err = "none" \/ kind # "fetch") => left = 0
  /\ caller = "returned" => \A w \in WorkerIds : worker[w] = Gone

PoolInv == PoolTyped /\ OneWorker /\ Tally /\ Outcome

-----------------------------------------------------------------------------
(* The inductive invariant of the notifications.                           *)

Posting == {s \in Senders : sending[s] # 0}
Posted  == {sending[s] : s \in Senders} \ {0}

NotesTyped ==
  /\ queue \in Seq(1..n) /\ Len(queue) <= QueueSize
  /\ sending \in [Senders -> 0..n]
  /\ sent \subseteq good \cup bad /\ dropped \subseteq good \cup bad
  /\ ToSet(queue) \cup Posted \subseteq good \cup bad
  /\ ToSet(queue) \cup Posted \cup sent \cup dropped \subseteq payments

\* A notification is in one place.
OneNote ==
  /\ \A i, j \in DOMAIN queue : queue[i] = queue[j] => i = j
  /\ \A s, t \in Posting : sending[s] = sending[t] => s = t
  /\ ToSet(queue) \cap Posted = {}
  /\ (ToSet(queue) \cup Posted) \cap (sent \cup dropped) = {} /\ dropped \cap sent = {}

\* Every output that was stored and pays an address has one.
Noted == payments \cap good \subseteq ToSet(queue) \cup Posted \cup sent \cup dropped

\* The places are counted.
NotesCounted ==
  Cardinality(ToSet(queue) \cup Posted) = Len(queue) + Cardinality(Posting)

NotesInv == NotesTyped /\ OneNote /\ Noted /\ NotesCounted

IInv == PoolInv /\ NotesInv

-----------------------------------------------------------------------------
(* The pool.                                                               *)

\* What a worker can be.
LEMMA WorkerCases ==
  ASSUME PoolTyped, NEW w \in WorkerIds
  PROVE  /\ worker[w].at \in {"gone", "wait", "work", "send"}
         /\ worker[w].at = "gone" => worker[w] = Gone
         /\ worker[w].at = "wait" => worker[w] = Waiting
         /\ Has(w) => worker[w].item \in 1..n
         /\ worker[w].at = "send" => worker[w].ok \in BOOLEAN
         /\ Has(w) <=> "item" \in DOMAIN worker[w]
  BY DEF PoolTyped, WorkerStates, Has, Gone, Waiting

\* A call starts with nothing in anybody's hands.
LEMMA PoolInitInv == PoolInit => PoolInv
<1> SUFFICES ASSUME PoolInit PROVE PoolInv
  OBVIOUS
<1>1. n \in Nat /\ next \in 0..(n + 1)
  BY PoolAssumption DEF PoolInit
<1>2. worker \in [WorkerIds -> {Gone, Waiting}]
  BY DEF PoolInit
<1>3. PoolTyped
  BY <1>1, <1>2, PoolAssumption DEF PoolInit, PoolTyped, WorkerStates
<1>4. \A w \in WorkerIds : ~Has(w)
  BY <1>2 DEF Has, Gone, Waiting
<1>5. OneWorker
  BY <1>4 DEF OneWorker, PoolInit, Has
<1>6. Tally
  BY <1>1, FS_EmptySet DEF Tally, PoolInit
<1>7. ASSUME caller = "returned" PROVE \A w \in WorkerIds : worker[w] = Gone
  <2>1. n = 0
    BY <1>1, <1>7 DEF PoolInit
  <2>2. \A w \in WorkerIds : w \in Nat /\ w > 0
    BY PoolAssumption DEF WorkerIds, Least
  <2>3. QED BY <2>1, <2>2, PoolAssumption DEF PoolInit, Least
<1>8. Outcome
  BY <1>1, <1>7 DEF Outcome, PoolInit
<1>9. QED BY <1>3, <1>5, <1>6, <1>8 DEF PoolInv

\* The steps of the queueing goroutine, of the workers and of the caller that do
\* not process an item.
LEMMA PoolStepsInv == PoolInv /\ PoolSteps => PoolInv'
<1> SUFFICES ASSUME PoolInv, PoolSteps PROVE PoolInv'
  OBVIOUS
<1>0. PoolTyped /\ OneWorker /\ Tally /\ Outcome /\ n \in Nat
  BY PoolAssumption DEF PoolInv, PoolTyped
<1>1. CASE QueueEnds
  BY <1>0, <1>1 DEF QueueEnds, PoolInv, PoolTyped, WorkerStates, OneWorker, Has, Tally, Outcome
<1>2. CASE CallerStopped
  BY <1>0, <1>2 DEF CallerStopped, PoolInv, PoolTyped, WorkerStates, OneWorker, Has, Tally, Outcome
<1>3. CASE Returns
  BY <1>0, <1>3 DEF Returns, PoolInv, PoolTyped, WorkerStates, OneWorker, Has, Tally, Outcome
<1>4. ASSUME NEW w \in WorkerIds, Hand(w) PROVE PoolInv'
  <2> DEFINE got == [at |-> "work", item |-> next]
  <2>1. /\ next \in 1..n /\ worker[w] = Waiting /\ worker' = [worker EXCEPT ![w] = got]
        /\ next' = next + 1
        /\ UNCHANGED <<kind, n, left, results, caller, err, stopped, shutdown, good, bad>>
    BY <1>4 DEF Hand
  <2>2. got \in [at : {"work"}, item : 1..n] /\ got.at = "work" /\ got.item = next
    BY <2>1
  <2> HIDE DEF got
  <2>3. PoolTyped'
    BY <1>0, <2>1, <2>2 DEF PoolTyped, WorkerStates
  <2>4. OneWorker'
    <3>1. /\ worker'[w] = got /\ \A v \in WorkerIds : v # w => worker'[v] = worker[v]
          /\ next \in Nat /\ next > 0 /\ next' = next + 1
      BY <1>0, <2>1 DEF PoolTyped
    <3>2. \A v \in WorkerIds : Has(v) => worker[v].item \in Nat /\ worker[v].item < next
      BY <1>0, <3>1, WorkerCases DEF OneWorker
    <3>3. \A i \in good \cup bad : i \in Nat /\ i < next
      BY <1>0, <3>1 DEF OneWorker, PoolTyped
    <3>4. \A v \in WorkerIds : v # w => (Has(v)' <=> Has(v))
      BY <3>1 DEF Has
    <3>5. ASSUME NEW v \in WorkerIds, NEW u \in WorkerIds, Has(v)', Has(u)',
                 worker'[v].item = worker'[u].item
          PROVE  v = u
      BY <1>0, <2>2, <3>1, <3>2, <3>4, <3>5 DEF OneWorker
    <3>6. \A v \in WorkerIds : worker'[v].at = "work" => worker'[v].item \notin good \cup bad
      BY <1>0, <2>2, <3>1, <3>3 DEF OneWorker
    <3>7. \A v \in WorkerIds : worker'[v].at = "send" =>
            /\ worker'[v].item \in IF worker'[v].ok THEN good ELSE bad
            /\ worker'[v].item \notin results
      BY <1>0, <2>2, <3>1 DEF OneWorker
    <3>8. \A v \in WorkerIds : Has(v)' => worker'[v].item < next'
      BY <2>2, <3>1, <3>2, <3>4
    <3>9. \A i \in good \cup bad : i < next'
      BY <3>1, <3>3
    <3>10. QED BY <2>1, <3>5, <3>6, <3>7, <3>8, <3>9 DEF OneWorker
  <2>5. Tally'
    BY <1>0, <2>1 DEF Tally
  <2>6. Outcome'
    BY <1>0, <2>1 DEF Outcome, PoolTyped, Gone, Waiting
  <2>7. QED BY <2>3, <2>4, <2>5, <2>6 DEF PoolInv
<1>5. ASSUME NEW w \in WorkerIds, WorkerEnds(w) PROVE PoolInv'
  <2>1. /\ worker' = [worker EXCEPT ![w] = Gone] /\ Gone.at = "gone"
        /\ UNCHANGED <<kind, n, next, left, results, caller, err, stopped, shutdown, good, bad>>
    BY <1>5 DEF WorkerEnds, Gone
  <2>2. PoolTyped'
    BY <1>0, <2>1 DEF PoolTyped, WorkerStates
  <2>3. OneWorker'
    BY <1>0, <2>1 DEF OneWorker, Has, PoolTyped
  <2>4. Tally' /\ Outcome'
    BY <1>0, <2>1 DEF Tally, Outcome, PoolTyped
  <2>5. QED BY <2>2, <2>3, <2>4 DEF PoolInv
<1>6. ASSUME NEW w \in WorkerIds, Result(w) PROVE PoolInv'
  <2> DEFINE i == worker[w].item
  <2>1. /\ caller = "loop" /\ worker[w].at = "send"
        /\ worker' = [worker EXCEPT ![w] = Waiting] /\ Waiting.at = "wait"
        /\ results' = results \cup {i} /\ left' = left - 1
        /\ err' = IF ~worker[w].ok THEN "failed" ELSE err
        /\ stopped' = (stopped \/ left' = 0 \/ (~worker[w].ok /\ kind = "fetch"))
        /\ caller' = IF left' = 0 \/ (~worker[w].ok /\ kind = "fetch") THEN "stop" ELSE caller
        /\ UNCHANGED <<kind, n, next, shutdown, good, bad>>
    BY <1>6 DEF Result, Waiting
  <2>2. i \in 1..n /\ worker[w].ok \in BOOLEAN /\ i \notin results
    BY <1>0, <2>1, WorkerCases DEF Has, OneWorker
  <2>3. i \in IF worker[w].ok THEN good ELSE bad
    BY <1>0, <2>1 DEF OneWorker
  <2>4. PoolTyped'
    BY <1>0, <2>1, <2>2 DEF PoolTyped, WorkerStates
  <2>5. OneWorker'
    BY <1>0, <2>1 DEF OneWorker, Has, PoolTyped
  <2>6. Tally'
    <3>1. 1 \in Int /\ n \in Int /\ results \in SUBSET (1..n)
      BY <1>0 DEF PoolTyped
    <3>2. IsFiniteSet(results)
      BY <3>1, FS_Interval, FS_Subset
    <3>3. Cardinality(results \cup {i}) = Cardinality(results) + 1
      BY <2>2, <3>2, FS_AddElement
    <3>4. Cardinality(results) \in Nat
      BY <3>2, FS_CardinalityType
    <3>5. QED BY <1>0, <2>1, <2>3, <3>3, <3>4 DEF Tally
  <2>7. Outcome'
    <3>1. err' = "none" => results' \cap bad' = {}
      BY <1>0, <2>1, <2>2, <2>3 DEF Outcome, Tally, PoolTyped
    <3>2. err' = "failed" => bad' # {}
      BY <1>0, <2>1, <2>2, <2>3 DEF Outcome
    <3>3. QED BY <1>0, <2>1, <2>2, <3>1, <3>2 DEF Outcome
  <2>8. QED BY <2>4, <2>5, <2>6, <2>7 DEF PoolInv
<1>7. QED BY <1>1, <1>2, <1>3, <1>4, <1>5, <1>6 DEF PoolSteps

\* An item that a worker processed, with success or not, was never processed before.
LEMMA WorkInv ==
  ASSUME PoolInv, NEW w \in WorkerIds, NEW ok \in BOOLEAN, Work(w, ok)
  PROVE  /\ PoolInv'
         /\ worker[w].item \in 1..n /\ worker[w].item \notin good \cup bad
         /\ n' = n /\ kind' = kind
         /\ good' \cup bad' = good \cup bad \cup {worker[w].item}
         /\ good' \subseteq good \cup {worker[w].item}
         /\ ~ok => good' = good
<1> DEFINE i == worker[w].item
           res == [at |-> "send", item |-> i, ok |-> ok]
<1>0. PoolTyped /\ OneWorker /\ Tally /\ Outcome /\ n \in Nat
  BY PoolAssumption DEF PoolInv, PoolTyped
<1>1. /\ worker[w].at = "work" /\ worker' = [worker EXCEPT ![w] = res]
      /\ good' = IF ok THEN good \cup {i} ELSE good
      /\ bad' = IF ok THEN bad ELSE bad \cup {i}
      /\ UNCHANGED <<kind, n, next, left, results, caller, err, stopped, shutdown>>
  BY DEF Work
<1>2. i \in 1..n /\ i \notin good \cup bad
  BY <1>0, <1>1, WorkerCases DEF Has, OneWorker
<1>3. /\ res \in [at : {"send"}, item : 1..n, ok : BOOLEAN]
      /\ res.at = "send" /\ res.item = i /\ res.ok = ok
  BY <1>2
<1> HIDE DEF res
<1>4. PoolTyped'
  BY <1>0, <1>1, <1>2, <1>3 DEF PoolTyped, WorkerStates
<1>5. OneWorker'
  <2>1. i \notin results
    BY <1>0, <1>2 DEF Tally
  <2>2. QED BY <1>0, <1>1, <1>2, <1>3, <2>1 DEF OneWorker, Has, PoolTyped
<1>6. Tally'
  BY <1>0, <1>1, <1>2 DEF Tally
<1>7. Outcome'
  <2>1. caller # "returned"
    BY <1>0, <1>1 DEF Outcome, Gone
  <2>2. results' \cap bad' = results \cap bad
    BY <1>0, <1>1, <1>2 DEF Tally
  <2>3. QED BY <1>0, <1>1, <2>1, <2>2 DEF Outcome
<1>8. QED BY <1>1, <1>2, <1>4, <1>5, <1>6, <1>7 DEF PoolInv

\* The daemon's stop only raises flags.
LEMMA ShutdownInv == PoolInv /\ Shutdown => PoolInv'
  BY DEF Shutdown, PoolInv, PoolTyped, WorkerStates, OneWorker, Has, Tally, Outcome

\* Nothing that concerns the pool happens when a notification is posted.
LEMMA PoolFrame == PoolInv /\ UNCHANGED poolVars => PoolInv'
  BY DEF poolVars, PoolInv, PoolTyped, WorkerStates, OneWorker, Has, Tally, Outcome

-----------------------------------------------------------------------------
(* The notifications.                                                      *)

\* An item at the end of a queue is in the set of its entries.
LEMMA AppendSet ==
  ASSUME NEW S, NEW q \in Seq(S), NEW x \in S
  PROVE  /\ Append(q, x) \in Seq(S) /\ Len(Append(q, x)) = Len(q) + 1
         /\ ToSet(Append(q, x)) = ToSet(q) \cup {x}
         /\ (\A i, j \in DOMAIN q : q[i] = q[j] => i = j) /\ x \notin ToSet(q) =>
              \A i, j \in DOMAIN Append(q, x) : Append(q, x)[i] = Append(q, x)[j] => i = j
<1>1. /\ Append(q, x) \in Seq(S) /\ Len(q) \in Nat /\ Len(Append(q, x)) = Len(q) + 1
      /\ DOMAIN q = 1..Len(q) /\ DOMAIN Append(q, x) = 1..(Len(q) + 1)
      /\ \A k \in 1..Len(q) : Append(q, x)[k] = q[k]
      /\ Append(q, x)[Len(q) + 1] = x
  OBVIOUS
<1>2. ToSet(Append(q, x)) = ToSet(q) \cup {x}
  <2>1. \A k \in 1..(Len(q) + 1) : k \in 1..Len(q) \/ k = Len(q) + 1
    BY <1>1
  <2>2. \A k \in 1..Len(q) : k \in 1..(Len(q) + 1)
    BY <1>1
  <2>3. QED BY <1>1, <2>1, <2>2 DEF ToSet
<1>3. ASSUME \A i, j \in DOMAIN q : q[i] = q[j] => i = j, x \notin ToSet(q),
             NEW i \in DOMAIN Append(q, x), NEW j \in DOMAIN Append(q, x),
             Append(q, x)[i] = Append(q, x)[j]
      PROVE  i = j
  <2>1. \A k \in 1..Len(q) : q[k] # x
    BY <1>1, <1>3 DEF ToSet
  <2>2. QED BY <1>1, <1>3, <2>1
<1>4. QED BY <1>1, <1>2, <1>3

\* Taking the head of a queue without duplicates takes exactly that entry.
LEMMA TailSet ==
  ASSUME NEW S, NEW q \in Seq(S), q # <<>>, \A i, j \in DOMAIN q : q[i] = q[j] => i = j
  PROVE  /\ Tail(q) \in Seq(S) /\ Len(Tail(q)) = Len(q) - 1 /\ Len(q) \in Nat
         /\ Head(q) \in S
         /\ ToSet(q) = ToSet(Tail(q)) \cup {Head(q)} /\ Head(q) \notin ToSet(Tail(q))
         /\ \A i, j \in DOMAIN Tail(q) : Tail(q)[i] = Tail(q)[j] => i = j
<1>1. /\ Len(q) \in Nat /\ Len(q) > 0 /\ DOMAIN q = 1..Len(q)
      /\ Head(q) = q[1] /\ Head(q) \in S
      /\ Tail(q) \in Seq(S) /\ Len(Tail(q)) = Len(q) - 1
      /\ DOMAIN Tail(q) = 1..(Len(q) - 1)
      /\ \A k \in 1..(Len(q) - 1) : Tail(q)[k] = q[k + 1]
  OBVIOUS
<1>2. ToSet(q) \subseteq ToSet(Tail(q)) \cup {Head(q)}
  <2>1. ASSUME NEW k \in 1..Len(q), k # 1 PROVE q[k] \in ToSet(Tail(q))
    <3>1. k - 1 \in 1..(Len(q) - 1) /\ Tail(q)[k - 1] = q[k]
      BY <1>1, <2>1
    <3>2. QED BY <1>1, <3>1 DEF ToSet
  <2>2. QED BY <1>1, <2>1 DEF ToSet
<1>3. ASSUME NEW k \in 1..(Len(q) - 1) PROVE Tail(q)[k] \in ToSet(q) /\ Tail(q)[k] # Head(q)
  <2>1. k + 1 \in 1..Len(q) /\ 1 \in 1..Len(q) /\ k + 1 # 1
    BY <1>1
  <2>2. QED BY <1>1, <2>1 DEF ToSet
<1>4. ToSet(Tail(q)) \subseteq ToSet(q) /\ Head(q) \notin ToSet(Tail(q))
  BY <1>1, <1>3 DEF ToSet
<1>5. Head(q) \in ToSet(q)
  <2>1. 1 \in DOMAIN q
    BY <1>1
  <2>2. QED BY <1>1, <2>1 DEF ToSet
<1>6. ASSUME NEW i \in DOMAIN Tail(q), NEW j \in DOMAIN Tail(q), Tail(q)[i] = Tail(q)[j]
      PROVE  i = j
  <2>1. i + 1 \in DOMAIN q /\ j + 1 \in DOMAIN q /\ q[i + 1] = q[j + 1]
    BY <1>1, <1>6
  <2>2. i + 1 = j + 1
    BY <2>1
  <2>3. QED BY <1>1, <2>2
<1>7. QED BY <1>1, <1>2, <1>4, <1>5, <1>6

\* The sets that the counts are about are finite.
LEMMA NotesFinite ==
  ASSUME PoolTyped, NotesTyped
  PROVE  /\ n \in Nat /\ good \cup bad \subseteq 1..n
         /\ IsFiniteSet(ToSet(queue) \cup Posted) /\ IsFiniteSet(Posting)
         /\ Cardinality(ToSet(queue) \cup Posted) \in Nat /\ Cardinality(Posting) \in Nat
         /\ Len(queue) \in Nat /\ 0 \notin ToSet(queue) \cup Posted
<1>1. n \in Nat /\ good \cup bad \subseteq 1..n /\ Len(queue) \in Nat
  BY PoolAssumption DEF PoolTyped, NotesTyped
<1>2. ToSet(queue) \cup Posted \subseteq 1..n
  BY <1>1 DEF NotesTyped
<1>3. IsFiniteSet(1..n)
  BY <1>1, FS_Interval
<1>4. IsFiniteSet(ToSet(queue) \cup Posted)
  BY <1>2, <1>3, FS_Subset
<1>5. IsFiniteSet(Posting)
  <2>1. Posting \subseteq Senders
    BY DEF Posting
  <2>2. QED BY <2>1, SendersAssumption, FS_Subset
<1>6. QED BY <1>1, <1>2, <1>4, <1>5, FS_CardinalityType

\* There are no notifications at first.
LEMMA NotesInitInv == Init => NotesInv
<1> SUFFICES ASSUME Init PROVE NotesInv
  OBVIOUS
<1>1. /\ queue = <<>> /\ sending = [s \in Senders |-> 0] /\ sent = {} /\ dropped = {}
      /\ good = {} /\ bad = {} /\ n \in Nat
  BY PoolAssumption DEF Init, PoolInit
<1>2. ToSet(queue) = {} /\ DOMAIN queue = {} /\ Len(queue) = 0 /\ queue \in Seq(1..n)
  BY <1>1 DEF ToSet
<1>3. Posting = {} /\ Posted = {}
  BY <1>1 DEF Posting, Posted
<1>4. NotesTyped
  BY <1>1, <1>2, <1>3, QueueAssumption DEF NotesTyped
<1>5. OneNote /\ Noted
  BY <1>1, <1>2, <1>3 DEF OneNote, Noted
<1>6. NotesCounted
  BY <1>2, <1>3, FS_EmptySet DEF NotesCounted
<1>7. QED BY <1>4, <1>5, <1>6 DEF NotesInv

\* A step that neither notifies nor stores an output that pays an address leaves the
\* account alone.
LEMMA QuietInv ==
  ASSUME NotesInv, UNCHANGED <<n, kind, noteVars>>, good \cup bad \subseteq good' \cup bad',
         payments \cap good' \subseteq good
  PROVE  NotesInv'
<1>1. /\ NotesTyped /\ OneNote /\ Noted /\ NotesCounted
      /\ n' = n /\ kind' = kind /\ queue' = queue /\ sending' = sending
      /\ sent' = sent /\ dropped' = dropped /\ payments' = payments
  BY DEF NotesInv, noteVars
<1>2. Posting' = Posting /\ Posted' = Posted
  BY <1>1 DEF Posting, Posted
<1>3. NotesTyped'
  BY <1>1, <1>2 DEF NotesTyped
<1>4. OneNote' /\ NotesCounted'
  BY <1>1, <1>2 DEF OneNote, NotesCounted
<1>5. Noted'
  BY <1>1, <1>2 DEF Noted
<1>6. QED BY <1>3, <1>4, <1>5 DEF NotesInv

\* A notification is made for an output that has none yet.
LEMMA NotifyInv ==
  ASSUME PoolTyped, NotesInv, NEW i \in 1..n, i \in payments, i \notin good \cup bad, n' = n, kind' = kind,
         good' \cup bad' = good \cup bad \cup {i}, good' \subseteq good \cup {i}, Notify(i)
  PROVE  NotesInv'
<1> DEFINE held == ToSet(queue) \cup Posted
<1>1. NotesTyped /\ OneNote /\ Noted /\ NotesCounted
  BY DEF NotesInv
<1>2. /\ n \in Nat /\ good \cup bad \subseteq 1..n
      /\ IsFiniteSet(held) /\ IsFiniteSet(Posting)
      /\ Cardinality(held) \in Nat /\ Cardinality(Posting) \in Nat
      /\ Len(queue) \in Nat
  BY <1>1, NotesFinite
<1>3. i \notin held /\ i \notin sent /\ i \notin dropped
  BY <1>1 DEF NotesTyped
<1>4. UNCHANGED <<payments, sending, sent>> /\ Posting' = Posting /\ Posted' = Posted
  BY DEF Notify, Posting, Posted
<1>5. CASE Len(queue) < QueueSize
  <2>1. queue' = Append(queue, i) /\ dropped' = dropped
    BY <1>5 DEF Notify
  <2>2. queue \in Seq(1..n) /\ \A k, j \in DOMAIN queue : queue[k] = queue[j] => k = j
    BY <1>1 DEF NotesTyped, OneNote
  <2>3. /\ queue' \in Seq(1..n) /\ Len(queue') = Len(queue) + 1
        /\ ToSet(queue') = ToSet(queue) \cup {i}
        /\ \A k, j \in DOMAIN queue' : queue'[k] = queue'[j] => k = j
    <3>1. i \notin ToSet(queue)
      BY <1>3
    <3>2. /\ Append(queue, i) \in Seq(1..n) /\ Len(Append(queue, i)) = Len(queue) + 1
          /\ ToSet(Append(queue, i)) = ToSet(queue) \cup {i}
          /\ \A k, j \in DOMAIN Append(queue, i) :
               Append(queue, i)[k] = Append(queue, i)[j] => k = j
      <4> DEFINE S == 1..n
      <4>1. queue \in Seq(S) /\ i \in S
        BY <2>2
      <4> HIDE DEF S, held
      <4>2. /\ Append(queue, i) \in Seq(S) /\ Len(Append(queue, i)) = Len(queue) + 1
            /\ ToSet(Append(queue, i)) = ToSet(queue) \cup {i}
            /\ \A k, j \in DOMAIN Append(queue, i) :
                 Append(queue, i)[k] = Append(queue, i)[j] => k = j
        BY <2>2, <3>1, <4>1, AppendSet
      <4>3. QED BY <4>2 DEF S
    <3>3. QED BY <2>1, <3>2
  <2>4. Len(queue') <= QueueSize
    BY <1>2, <1>5, <2>3, QueueAssumption
  <2>5. ToSet(queue)' = ToSet(queue')
    OBVIOUS
  <2>6. NotesTyped'
    BY <1>1, <1>4, <2>1, <2>3, <2>4 DEF NotesTyped
  <2>7. OneNote'
    BY <1>1, <1>3, <1>4, <2>1, <2>3 DEF OneNote
  <2>8. Noted'
    BY <1>1, <1>4, <2>1, <2>3 DEF Noted
  <2>9. NotesCounted'
    <3>1. ToSet(queue') \cup Posted' = held \cup {i}
      BY <1>4, <2>3
    <3>2. Cardinality(held \cup {i}) = Cardinality(held) + 1
      BY <1>2, <1>3, FS_AddElement
    <3>3. Cardinality(held) = Len(queue) + Cardinality(Posting)
      BY <1>1 DEF NotesCounted
    <3>4. Cardinality(ToSet(queue') \cup Posted') = Len(queue') + Cardinality(Posting')
      <4> HIDE DEF held
      <4>1. Cardinality(ToSet(queue') \cup Posted') = Cardinality(held) + 1
        BY <3>1, <3>2
      <4>2. QED BY <1>2, <1>4, <2>3, <3>3, <4>1
    <3>5. QED BY <3>4 DEF NotesCounted
  <2>10. QED BY <2>6, <2>7, <2>8, <2>9 DEF NotesInv
<1>6. CASE ~(Len(queue) < QueueSize)
  <2>1. queue' = queue /\ dropped' = dropped \cup {i}
    BY <1>6 DEF Notify
  <2>2. NotesTyped'
    BY <1>1, <1>4, <2>1 DEF NotesTyped
  <2>3. OneNote'
    BY <1>1, <1>3, <1>4, <2>1 DEF OneNote
  <2>4. Noted'
    BY <1>1, <1>4, <2>1 DEF Noted
  <2>5. NotesCounted'
    BY <1>1, <1>4, <2>1 DEF NotesCounted
  <2>6. QED BY <2>2, <2>3, <2>4, <2>5 DEF NotesInv
<1>7. QED BY <1>5, <1>6

\* What is posted when one worker turns to another notification, or to none.
LEMMA PostedChange ==
  ASSUME NotesTyped, NEW s \in Senders, NEW x \in 0..n,
         \A t, u \in Posting : sending[t] = sending[u] => t = u,
         sending' = [sending EXCEPT ![s] = x]
  PROVE  /\ sending' \in [Senders -> 0..n]
         /\ Posting' = (Posting \ {s}) \cup (IF x = 0 THEN {} ELSE {s})
         /\ Posted' = (Posted \ {sending[s]}) \cup ({x} \ {0})
<1>1. /\ sending' \in [Senders -> 0..n] /\ sending \in [Senders -> 0..n]
      /\ sending'[s] = x /\ \A t \in Senders : t # s => sending'[t] = sending[t]
  BY DEF NotesTyped
<1>2. Posting' = (Posting \ {s}) \cup (IF x = 0 THEN {} ELSE {s})
  BY <1>1 DEF Posting
<1>3. Posted' \subseteq (Posted \ {sending[s]}) \cup ({x} \ {0})
  <2>1. ASSUME NEW t \in Senders, sending'[t] # 0
        PROVE  sending'[t] \in (Posted \ {sending[s]}) \cup ({x} \ {0})
    BY <1>1, <2>1 DEF Posted, Posting
  <2>2. QED BY <2>1 DEF Posted
<1>4. (Posted \ {sending[s]}) \cup ({x} \ {0}) \subseteq Posted'
  <2>1. ASSUME NEW t \in Senders, sending[t] # 0, sending[t] # sending[s]
        PROVE  sending[t] \in Posted'
    BY <1>1, <2>1 DEF Posted
  <2>2. x # 0 => x \in Posted'
    BY <1>1 DEF Posted
  <2>3. QED BY <2>1, <2>2 DEF Posted
<1>5. QED BY <1>1, <1>2, <1>3, <1>4

\* A worker takes the oldest notification from the queue.
LEMMA TakeInv ==
  ASSUME PoolTyped, NotesInv, UNCHANGED poolVars, NEW s \in Senders, Take(s)
  PROVE  NotesInv'
<1> DEFINE x == Head(queue)
<1>1. NotesTyped /\ OneNote /\ Noted /\ NotesCounted
  BY DEF NotesInv
<1>2. /\ n \in Nat /\ IsFiniteSet(Posting) /\ Cardinality(Posting) \in Nat
      /\ Len(queue) \in Nat /\ 0 \notin ToSet(queue) \cup Posted
  BY <1>1, NotesFinite
<1>3. /\ sending[s] = 0 /\ queue # <<>> /\ sending' = [sending EXCEPT ![s] = x]
      /\ queue' = Tail(queue) /\ sent' = sent /\ dropped' = dropped
      /\ UNCHANGED <<n, kind, good, bad, payments>>
  BY DEF Take, poolVars
<1>4. /\ queue' \in Seq(1..n) /\ Len(queue') = Len(queue) - 1 /\ x \in 1..n
      /\ ToSet(queue) = ToSet(queue') \cup {x} /\ x \notin ToSet(queue')
      /\ \A i, j \in DOMAIN queue' : queue'[i] = queue'[j] => i = j
  <2> DEFINE S == 1..n
  <2>1. queue \in Seq(S) /\ \A i, j \in DOMAIN queue : queue[i] = queue[j] => i = j
    BY <1>1 DEF NotesTyped, OneNote
  <2> HIDE DEF S
  <2>2. /\ Tail(queue) \in Seq(S) /\ Len(Tail(queue)) = Len(queue) - 1 /\ x \in S
        /\ ToSet(queue) = ToSet(Tail(queue)) \cup {x} /\ x \notin ToSet(Tail(queue))
        /\ \A i, j \in DOMAIN Tail(queue) : Tail(queue)[i] = Tail(queue)[j] => i = j
    BY <1>3, <2>1, TailSet
  <2>3. QED BY <1>3, <2>2 DEF S
<1> HIDE DEF x
<1>5. x \in 0..n /\ x # 0
  BY <1>2, <1>4
<1>6. /\ sending' \in [Senders -> 0..n]
      /\ Posting' = (Posting \ {s}) \cup (IF x = 0 THEN {} ELSE {s})
      /\ Posted' = (Posted \ {sending[s]}) \cup ({x} \ {0})
  BY <1>1, <1>3, <1>5, PostedChange DEF OneNote
<1>7. s \notin Posting /\ 0 \notin Posted /\ x \notin Posted
  BY <1>1, <1>3, <1>4 DEF Posting, Posted, OneNote
<1>8. Posting' = Posting \cup {s} /\ Posted' = Posted \cup {x}
  BY <1>3, <1>5, <1>6, <1>7
<1>9. ToSet(queue') \cup Posted' = ToSet(queue) \cup Posted
  BY <1>4, <1>8
<1>10. NotesTyped'
  <2>1. Len(queue') <= QueueSize
    BY <1>1, <1>2, <1>4, QueueAssumption DEF NotesTyped
  <2>2. QED BY <1>1, <1>3, <1>4, <1>6, <1>9, <2>1 DEF NotesTyped
<1>11. OneNote'
  <2>1. ASSUME NEW t \in Posting', NEW u \in Posting', sending'[t] = sending'[u]
        PROVE  t = u
    <3>1. \A v \in Posting : v # s /\ sending'[v] = sending[v] /\ sending[v] \in Posted
      BY <1>1, <1>3, <1>7 DEF NotesTyped, Posting, Posted
    <3>2. sending'[s] = x
      BY <1>1, <1>3 DEF NotesTyped
    <3>3. QED BY <1>1, <1>7, <1>8, <2>1, <3>1, <3>2 DEF OneNote
  <2>2. ToSet(queue') \cap Posted' = {}
    BY <1>1, <1>4, <1>8 DEF OneNote
  <2>3. (ToSet(queue') \cup Posted') \cap (sent' \cup dropped') = {} /\ dropped' \cap sent' = {}
    BY <1>1, <1>3, <1>9 DEF OneNote
  <2>4. QED BY <1>4, <2>1, <2>2, <2>3 DEF OneNote
<1>12. Noted'
  BY <1>1, <1>3, <1>9 DEF Noted
<1>13. NotesCounted'
  <2>1. Cardinality(Posting') = Cardinality(Posting) + 1
    BY <1>2, <1>7, <1>8, FS_AddElement
  <2>2. Cardinality(ToSet(queue') \cup Posted') = Cardinality(ToSet(queue) \cup Posted)
    BY <1>9
  <2>3. Cardinality(ToSet(queue) \cup Posted) = Len(queue) + Cardinality(Posting)
    BY <1>1 DEF NotesCounted
  <2>4. Cardinality(ToSet(queue') \cup Posted') = Len(queue') + Cardinality(Posting')
    BY <1>2, <1>4, <2>1, <2>2, <2>3
  <2>5. QED BY <2>4 DEF NotesCounted
<1>14. QED BY <1>10, <1>11, <1>12, <1>13 DEF NotesInv

\* A worker is done with its notification.
LEMMA SentInv ==
  ASSUME PoolTyped, NotesInv, UNCHANGED poolVars, NEW s \in Senders, Sent(s)
  PROVE  NotesInv'
<1> DEFINE x == sending[s]
           held == ToSet(queue) \cup Posted
<1>1. NotesTyped /\ OneNote /\ Noted /\ NotesCounted
  BY DEF NotesInv
<1>2. /\ n \in Nat /\ IsFiniteSet(Posting) /\ Cardinality(Posting) \in Nat
      /\ IsFiniteSet(held) /\ Cardinality(held) \in Nat
      /\ Len(queue) \in Nat
  BY <1>1, NotesFinite
<1>3. /\ x # 0 /\ sending' = [sending EXCEPT ![s] = 0]
      /\ queue' = queue /\ sent' = sent \cup {x} /\ dropped' = dropped
      /\ UNCHANGED <<n, kind, good, bad, payments>>
  BY DEF Sent, poolVars
<1>4. s \in Posting /\ x \in Posted /\ x \in held
  BY <1>3 DEF Posting, Posted
<1>5. /\ sending' \in [Senders -> 0..n]
      /\ Posting' = (Posting \ {s}) \cup (IF 0 = 0 THEN {} ELSE {s})
      /\ Posted' = (Posted \ {x}) \cup ({0} \ {0})
  <2>1. 0 \in 0..n
    BY <1>2
  <2>2. QED BY <1>1, <1>3, <2>1, PostedChange DEF OneNote
<1>6. Posting' = Posting \ {s} /\ Posted' = Posted \ {x}
  BY <1>5
<1>7. ToSet(queue') \cup Posted' = held \ {x}
  BY <1>1, <1>3, <1>4, <1>6 DEF OneNote
<1>8. NotesTyped'
  <2>1. x \in payments \cap (good \cup bad) /\ held \subseteq payments \cap (good \cup bad)
    BY <1>1, <1>4 DEF NotesTyped
  <2>2. QED BY <1>1, <1>3, <1>5, <1>7, <2>1 DEF NotesTyped
<1>9. OneNote'
  <2>1. ASSUME NEW t \in Posting', NEW u \in Posting', sending'[t] = sending'[u]
        PROVE  t = u
    <3>1. \A v \in Posting' : v \in Posting /\ sending'[v] = sending[v]
      BY <1>1, <1>3, <1>6 DEF NotesTyped, Posting
    <3>2. QED BY <1>1, <2>1, <3>1 DEF OneNote
  <2>2. ToSet(queue') \cap Posted' = {}
    BY <1>1, <1>3, <1>6 DEF OneNote
  <2>3. (ToSet(queue') \cup Posted') \cap (sent' \cup dropped') = {} /\ dropped' \cap sent' = {}
    BY <1>1, <1>3, <1>4, <1>7 DEF OneNote
  <2>4. QED BY <1>1, <1>3, <2>1, <2>2, <2>3 DEF OneNote
<1>10. Noted'
  BY <1>1, <1>3, <1>7 DEF Noted
<1>11. NotesCounted'
  <2> HIDE DEF held, x
  <2>1. Cardinality(Posting') = Cardinality(Posting) - 1
    BY <1>2, <1>4, <1>6, FS_RemoveElement
  <2>2. Cardinality(held \ {x}) = Cardinality(held) - 1
    BY <1>2, <1>4, FS_RemoveElement
  <2>3. Cardinality(held) = Len(queue) + Cardinality(Posting)
    BY <1>1 DEF NotesCounted, held
  <2>4. Cardinality(ToSet(queue') \cup Posted') = Len(queue') + Cardinality(Posting')
    <3>1. Cardinality(ToSet(queue') \cup Posted') = Cardinality(held) - 1
      BY <1>7, <2>2
    <3>2. Len(queue') = Len(queue)
      BY <1>3
    <3>3. QED BY <1>2, <2>1, <2>3, <3>1, <3>2
  <2>5. QED BY <2>4 DEF NotesCounted
<1>12. QED BY <1>8, <1>9, <1>10, <1>11 DEF NotesInv

\* The invariant of the pool and of the notifications holds in every state.
THEOREM Invariance == Spec => []IInv
<1>1. Init => IInv
  BY PoolInitInv, NotesInitInv DEF Init, IInv
<1>2. IInv /\ [Next]_vars => IInv'
  <2> SUFFICES ASSUME IInv, [Next]_vars PROVE IInv'
    OBVIOUS
  <2>0. PoolInv /\ PoolTyped /\ NotesInv
    BY DEF IInv, PoolInv
  <2>1. CASE PoolSteps /\ UNCHANGED noteVars
    <3>1. UNCHANGED <<n, kind, good, bad>>
      BY <2>1 DEF PoolSteps, QueueEnds, CallerStopped, Returns, Hand, WorkerEnds, Result
    <3>2. NotesInv'
      BY <2>0, <2>1, <3>1, QuietInv
    <3>3. QED BY <2>0, <2>1, <3>2, PoolStepsInv DEF IInv
  <2>2. ASSUME NEW w \in WorkerIds, Process(w) PROVE IInv'
    <3>0. TRUE \in BOOLEAN /\ Work(w, TRUE)
      BY <2>2 DEF Process
    <3>1. /\ PoolInv' /\ worker[w].item \in 1..n /\ worker[w].item \notin good \cup bad
          /\ n' = n /\ kind' = kind
          /\ good' \cup bad' = good \cup bad \cup {worker[w].item}
          /\ good' \subseteq good \cup {worker[w].item}
      BY <2>0, <3>0, WorkInv
    <3>2. CASE worker[w].item \in payments
      <4>1. Notify(worker[w].item)
        BY <2>2, <3>2 DEF Process
      <4>2. NotesInv'
        BY <2>0, <3>1, <3>2, <4>1, NotifyInv
      <4>3. QED BY <3>1, <4>2 DEF IInv
    <3>3. CASE worker[w].item \notin payments
      <4>1. UNCHANGED noteVars
        BY <2>2, <3>3 DEF Process
      <4>2. NotesInv'
        BY <2>0, <3>1, <3>3, <4>1, QuietInv
      <4>3. QED BY <3>1, <4>2 DEF IInv
    <3>4. QED BY <3>2, <3>3
  <2>3. ASSUME NEW w \in WorkerIds, Fails(w) PROVE IInv'
    <3>0. FALSE \in BOOLEAN /\ Work(w, FALSE)
      BY <2>3 DEF Fails
    <3>1. /\ PoolInv' /\ worker[w].item \in 1..n /\ worker[w].item \notin good \cup bad
          /\ n' = n /\ kind' = kind
          /\ good' \cup bad' = good \cup bad \cup {worker[w].item}
          /\ good' \subseteq good \cup {worker[w].item} /\ good' = good
      BY <2>0, <3>0, WorkInv
    <3>2. CASE UNCHANGED noteVars
      <4>1. NotesInv'
        BY <2>0, <3>1, <3>2, QuietInv
      <4>2. QED BY <3>1, <4>1 DEF IInv
    <3>3. CASE worker[w].item \in payments /\ Notify(worker[w].item)
      <4>1. NotesInv'
        BY <2>0, <3>1, <3>3, NotifyInv
      <4>2. QED BY <3>1, <4>1 DEF IInv
    <3>4. QED BY <2>3, <3>2, <3>3 DEF Fails
  <2>4. CASE Posts
    <3>1. NotesInv'
      BY <2>0, <2>4, TakeInv, SentInv DEF Posts
    <3>2. PoolInv'
      BY <2>0, <2>4, PoolFrame DEF Posts
    <3>3. QED BY <3>1, <3>2 DEF IInv
  <2>5. CASE Shutdown /\ UNCHANGED noteVars
    <3>1. UNCHANGED <<n, kind, good, bad>>
      BY <2>5 DEF Shutdown
    <3>2. NotesInv'
      BY <2>0, <2>5, <3>1, QuietInv
    <3>3. QED BY <2>0, <2>5, <3>2, ShutdownInv DEF IInv
  <2>6. CASE UNCHANGED vars
    <3>1. UNCHANGED <<n, kind, good, bad, noteVars>> /\ UNCHANGED poolVars
      BY <2>6 DEF vars, poolVars
    <3>2. NotesInv'
      BY <2>0, <3>1, QuietInv
    <3>3. QED BY <2>0, <3>1, <3>2, PoolFrame DEF IInv
  <2>7. QED BY <2>1, <2>2, <2>3, <2>4, <2>5, <2>6 DEF Next, Pool
<1>3. QED BY <1>1, <1>2, PTL DEF Spec

\* What the caller has not seen is at least nothing; with nothing left it has
\* seen every item.
LEMMA LeftCounts ==
  ASSUME PoolTyped, Tally
  PROVE  left \in 0..n /\ (left = 0 => results = 1..n)
<1>1. n \in Nat /\ results \in SUBSET (1..n)
  BY PoolAssumption DEF PoolTyped
<1>2. IsFiniteSet(1..n) /\ Cardinality(1..n) = n
  BY <1>1, FS_Interval
<1>3. /\ IsFiniteSet(results) /\ Cardinality(results) <= n
      /\ Cardinality(results) = n => results = 1..n
  BY <1>1, <1>2, FS_Subset
<1>4. Cardinality(results) \in Nat
  BY <1>3, FS_CardinalityType
<1>5. QED BY <1>1, <1>3, <1>4 DEF Tally

\* No item and no notification is lost or doubled on its way through the channels
\* and the queue.
THEOREM TypeCorrect == Spec => []TypeOK
<1>1. IInv => TypeOK
  <2> SUFFICES ASSUME IInv PROVE TypeOK
    OBVIOUS
  <2>1. PoolTyped /\ OneWorker /\ Tally /\ NotesTyped /\ OneNote /\ Noted /\ NotesCounted
    BY DEF IInv, PoolInv, NotesInv
  <2>2. PoolTypeOK
    <3>1. left \in 0..n
      BY <2>1, LeftCounts
    <3>2. \A v, w \in WorkerIds : v # w /\ "item" \in DOMAIN worker[v] \cap DOMAIN worker[w]
                                    => worker[v].item # worker[w].item
      BY <2>1, WorkerCases DEF OneWorker
    <3>3. QED BY <2>1, <3>1, <3>2 DEF PoolTypeOK, PoolTyped, Tally
  <2>3. Posting = {s \in Senders : sending[s] # 0} /\ Posted = {sending[s] : s \in Senders} \ {0}
    BY DEF Posting, Posted
  <2>4. /\ Len(queue) <= QueueSize
        /\ (ToSet(queue) \cup Posted) \cup sent \cup dropped \subseteq payments \cap (good \cup bad)
        /\ payments \cap good \subseteq (ToSet(queue) \cup Posted) \cup sent \cup dropped
        /\ (ToSet(queue) \cup Posted) \cap sent = {}
        /\ dropped \cap ((ToSet(queue) \cup Posted) \cup sent) = {}
        /\ Cardinality(ToSet(queue) \cup Posted) = Len(queue) + Cardinality(Posting)
    BY <2>1 DEF NotesTyped, OneNote, Noted, NotesCounted
  <2>5. QED BY <2>2, <2>3, <2>4 DEF TypeOK
<1>2. QED BY <1>1, Invariance, PTL

\* What the call returns is true of what its goroutines did.
THEOREM VerdictAlways == Spec => []Verdict
<1>1. IInv => Verdict
  <2> SUFFICES ASSUME IInv, caller = "returned"
               PROVE  /\ err = "none" => good = 1..n
                      /\ err = "failed" => bad # {}
                      /\ err = "shutdown" => shutdown
                      /\ kind # "fetch" => good \cup bad = 1..n
    BY DEF Verdict
  <2>1. PoolTyped /\ Tally /\ Outcome
    BY DEF IInv, PoolInv
  <2>2. err = "none" \/ kind # "fetch" => results = 1..n
    BY <2>1, LeftCounts DEF Outcome
  <2>3. good \subseteq 1..n /\ bad \subseteq 1..n /\ results \subseteq good \cup bad
    BY <2>1 DEF PoolTyped, Tally
  <2>4. QED BY <2>1, <2>2, <2>3 DEF Outcome
<1>2. QED BY <1>1, Invariance, PTL

\* No goroutine of the call processes an item after the call returned.
THEOREM NoLateWorkEver == Spec => NoLateWork
<1>1. IInv /\ [Next]_vars => [caller = "returned" => UNCHANGED <<good, bad>>]_poolVars
  <2> SUFFICES ASSUME IInv, [Next]_vars, caller = "returned"
               PROVE  UNCHANGED <<good, bad>>
    OBVIOUS
  <2>1. \A w \in WorkerIds : worker[w].at # "work"
    BY DEF IInv, PoolInv, Outcome, Gone
  <2>2. \A w \in WorkerIds, ok \in BOOLEAN : ~Work(w, ok)
    BY <2>1 DEF Work
  <2>3. \A w \in WorkerIds : ~Process(w) /\ ~Fails(w)
    BY <2>2 DEF Process, Fails
  <2>4. CASE PoolSteps
    BY <2>4 DEF PoolSteps, QueueEnds, CallerStopped, Returns, Hand, WorkerEnds, Result
  <2>5. CASE Posts \/ Shutdown \/ UNCHANGED vars
    BY <2>5 DEF Posts, Shutdown, vars, poolVars
  <2>6. QED BY <2>3, <2>4, <2>5 DEF Next, Pool
<1>2. QED BY <1>1, Invariance, PTL DEF Spec, NoLateWork

=============================================================================
