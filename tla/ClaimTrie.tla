------------------------------ MODULE ClaimTrie ------------------------------
(***************************************************************************)
(* The claim rows of one name, and their writers: block processing, which  *)
(* reads and writes a row under the lock of its claim (daemon/processing/  *)
(* claim.go), and the claim trie job (daemon/jobs/claimtriesync.go), which *)
(* computes the bid states from a snapshot of the rows and the node's      *)
(* claim trie.                                                             *)
(*                                                                         *)
(* A claim is created as version 1; an update spends the output of the     *)
(* last version and creates the next one, and abandoning the claim spends  *)
(* its output.  A version is a transaction, with other outputs than the    *)
(* claim, such as the change.  modified_at is only compared with the start *)
(* of job runs, so it is kept as the set of rows that were modified since  *)
(* each of them.                                                           *)
(***************************************************************************)
EXTENDS Integers

CONSTANTS
  Claims,
  Amount,       \* the amount of each claim; no two are equal
  MaxHeight,    \* bound: height of the node's chain
  MaxVersion,   \* bound: versions of a claim
  MaxDelay,     \* bound: blocks until a claim becomes valid
  MaxFaults     \* bound: failures of block processing and of the job

ASSUME AmountAssumption ==
  /\ Amount \in [Claims -> Nat \ {0}]
  /\ \A c, d \in Claims : Amount[c] = Amount[d] => c = d
ASSUME BoundsAssumption ==
  MaxHeight \in Nat /\ MaxVersion \in Nat \ {0} /\ MaxDelay \in Nat /\ MaxFaults \in Nat

VARIABLES
  height,       \* the node: its height,
  trie,         \* and its claims: version, whether it is unspent, valid_at_height
  rows,         \* the claim table
  spent,        \* the output table: the spent claims, by claim and version,
  spentSince,   \* and the transactions with outputs that were spent since
                \* PreviousSyncTime, LastSync and started
  modified,     \* claims modified since LastSync and since started
  lock,         \* the holder of each claim's lock
  writer,       \* block processing
  job,          \* the claim trie job
  lastHeight,   \* LastHeight of the last successful run, 0 if there was none
  stale,        \* history: claims whose last version was not written, or was lost
  flaws,        \* history: what the runs left out since the name was last selected
  faults        \* faults so far

dbVars  == <<rows, spent, spentSince, modified>>
vars == <<height, trie, dbVars, lock, writer, job, lastHeight, stale, flaws, faults>>

Windows  == {"previous", "last", "started"}
NoRow    == [ver |-> 0, bid |-> "none", validAt |-> 0, eff |-> 0]
NewRow   == [ver |-> 1, bid |-> "Accepted", validAt |-> 0, eff |-> 0]
Idle     == [at |-> "idle"]
Stored   == {c \in Claims : rows[c].ver > 0}

\* The transactions of the claims.
Published == {o \in Claims \X (1..MaxVersion) : o[2] <= trie[o[1]].ver}

Init ==
  /\ height = 1
  /\ trie = [c \in Claims |-> [ver |-> 0, live |-> FALSE, validAt |-> 0]]
  /\ rows = [c \in Claims |-> NoRow]
  /\ spent = {} /\ spentSince = [w \in Windows |-> {}]
  /\ modified = [w \in {"last", "started"} |-> {}]
  /\ lock = [c \in Claims |-> "nobody"]
  /\ writer = Idle /\ job = Idle
  /\ lastHeight = 0 /\ stale = {} /\ flaws = {} /\ faults = 0

-----------------------------------------------------------------------------
(* The node, and the outputs that a block stores.                          *)

Valid(c) == trie[c].live /\ trie[c].validAt <= height

\* GetClaimsForName: a claim that is valid has an effective amount, another one
\* a pending amount.
GetClaimsForName ==
  [c \in {d \in Claims : trie[d].live} |->
     [validAt |-> trie[c].validAt,
      eff     |-> IF Valid(c) THEN Amount[c] ELSE 0,
      pending |-> IF Valid(c) THEN 0 ELSE Amount[c]]]

\* A block; it is processed before the next one comes.
NextBlock ==
  /\ writer = Idle
  /\ height < MaxHeight
  /\ height' = height + 1

Empty ==
  /\ NextBlock
  /\ UNCHANGED <<trie, dbVars, lock, writer, job, lastHeight, stale, flaws, faults>>

\* ProcessVin marks an output of a transaction as spent.
SpendOf(tx) == spentSince' = [w \in Windows |-> spentSince[w] \cup {tx}]

\* The output of the claim.
Spend(c) ==
  /\ spent' = spent \cup {<<c, trie[c].ver>>}
  /\ SpendOf(<<c, trie[c].ver>>)

\* Another output of a transaction of the claim.
SpendChange(c) ==
  /\ NextBlock
  /\ \E v \in 1..trie[c].ver : SpendOf(<<c, v>>)
  /\ UNCHANGED <<trie, rows, spent, modified, lock, writer, job, lastHeight, stale, flaws, faults>>

\* A new version is valid at once or after a delay, which ends within MaxHeight.
Becomes(c, v) ==
  \E h \in (height + 1)..(height + 1 + MaxDelay) :
    /\ h <= MaxHeight
    /\ trie' = [trie EXCEPT ![c] = [ver |-> v, live |-> TRUE, validAt |-> h]]

Create(c) ==
  /\ NextBlock
  /\ trie[c].ver = 0
  /\ Becomes(c, 1)
  /\ writer' = [at |-> "lock", claim |-> c]
  /\ UNCHANGED <<dbVars, lock, job, lastHeight, stale, flaws, faults>>

Update(c) ==
  /\ NextBlock
  /\ trie[c].live /\ trie[c].ver < MaxVersion
  /\ Becomes(c, trie[c].ver + 1)
  /\ Spend(c)
  /\ writer' = [at |-> "lock", claim |-> c]
  /\ UNCHANGED <<rows, modified, lock, job, lastHeight, stale, flaws, faults>>

Abandon(c) ==
  /\ NextBlock
  /\ trie[c].live
  /\ trie' = [trie EXCEPT ![c].live = FALSE]
  /\ Spend(c)
  /\ UNCHANGED <<rows, modified, lock, writer, job, lastHeight, stale, flaws, faults>>

-----------------------------------------------------------------------------
(* The claim table.                                                        *)

\* A write to the claims C at this moment.
Touch(C) == modified' = [w \in DOMAIN modified |-> modified[w] \cup C]

\* PutClaim writes the whole row.
PutClaim(c, r) ==
  /\ rows' = [rows EXCEPT ![c] = r]
  /\ Touch({c})
  /\ UNCHANGED <<spent, spentSince>>

\* An update of some columns.
SetBid(C, bid) ==
  /\ rows' = [c \in Claims |-> IF c \in C THEN [rows[c] EXCEPT !.bid = bid] ELSE rows[c]]
  /\ Touch(C)
  /\ UNCHANGED <<spent, spentSince>>

\* processClaimNameScript and processClaimUpdateScript: the claim is locked and
\* read, and then written.
WriterReads ==
  /\ writer.at = "lock"
  /\ lock[writer.claim] = "nobody"
  /\ lock' = [lock EXCEPT ![writer.claim] = "writer"]
  /\ writer' = [at |-> "write", claim |-> writer.claim, row |-> rows[writer.claim]]
  /\ UNCHANGED <<height, trie, dbVars, job, lastHeight, stale, flaws, faults>>

\* Mutated form: the lock is not released.
WriterWritesLocked ==
  /\ writer.at = "write"
  /\ PutClaim(writer.claim, [NewRow EXCEPT !.ver = trie[writer.claim].ver])
  /\ stale' = stale \ {writer.claim}
  /\ writer' = Idle
  /\ UNCHANGED <<height, trie, lock, job, lastHeight, flaws, faults>>

\* Mutated form: a row that exists keeps the transaction of its last version.
WriterWritesOld ==
  /\ writer.at = "write"
  /\ LET c == writer.claim
         r == IF writer.row = NoRow THEN NewRow ELSE writer.row
     IN  /\ PutClaim(c, r)
         /\ lock' = [lock EXCEPT ![c] = "nobody"]
         /\ stale' = stale \ {c}
  /\ writer' = Idle
  /\ UNCHANGED <<height, trie, job, lastHeight, flaws, faults>>

WriterWrites ==
  /\ writer.at = "write"
  /\ LET c == writer.claim
         r == IF writer.row = NoRow THEN NewRow ELSE writer.row
     IN  /\ PutClaim(c, [r EXCEPT !.ver = trie[c].ver,
                                  !.bid = IF @ = "Spent" THEN "Accepted" ELSE @])
         /\ lock' = [lock EXCEPT ![c] = "nobody"]
         /\ stale' = stale \ {c}
  /\ writer' = Idle
  /\ UNCHANGED <<height, trie, job, lastHeight, flaws, faults>>

\* An error is returned and the transaction is tried again.  That the last write
\* of an update failed is only logged: the row stays as it was.
WriterFails ==
  /\ writer.at = "write"
  /\ faults < MaxFaults /\ faults' = faults + 1
  /\ lock' = [lock EXCEPT ![writer.claim] = "nobody"]
  /\ \/ writer' = [at |-> "lock", claim |-> writer.claim] /\ UNCHANGED stale
     \/ writer.row # NoRow /\ writer' = Idle /\ stale' = stale \cup {writer.claim}
  /\ UNCHANGED <<height, trie, dbVars, job, lastHeight, flaws>>

\* An update that does not decode is kept elsewhere (saveUnknownClaim).
WriterSkips ==
  /\ writer.at = "lock" /\ trie[writer.claim].ver > 1
  /\ faults < MaxFaults /\ faults' = faults + 1
  /\ writer' = Idle
  /\ stale' = stale \cup {writer.claim}
  /\ UNCHANGED <<height, trie, dbVars, lock, job, lastHeight, flaws>>

-----------------------------------------------------------------------------
(* ClaimTrieSync.                                                          *)

JobAt(at) == job.at = at

StartJob ==
  /\ JobAt("idle")
  /\ job' = [at |-> "spent1", todo |-> {c \in Stored : <<c, 1>> \in spentSince["previous"]}]
  /\ UNCHANGED <<height, trie, dbVars, lock, writer, lastHeight, stale, flaws, faults>>

\* updateSpentClaims, first loop.  The claims are found by the transaction that
\* created them, and transaction_hash_update is not among the columns that are
\* read: a claim that was updated later is marked as well.
MarkSpent ==
  /\ JobAt("spent1")
  /\ \E c \in job.todo :
       /\ lock[c] = "nobody"
       /\ SetBid({c}, "Spent")
       /\ job' = [job EXCEPT !.todo = @ \ {c}]
  /\ UNCHANGED <<height, trie, lock, writer, lastHeight, stale, flaws, faults>>

\* The second loop reads the claims by the transaction of their last version.
ReadSpent ==
  /\ JobAt("spent1") /\ job.todo = {}
  /\ job' = [at |-> "spent2",
             todo |-> {c \in Stored : <<c, rows[c].ver>> \in spentSince["previous"]}]
  /\ UNCHANGED <<height, trie, dbVars, lock, writer, lastHeight, stale, flaws, faults>>

\* One statement marks them, without a lock.
MarkAllSpent ==
  /\ JobAt("spent2")
  /\ SetBid(job.todo, "Spent")
  /\ job' = [at |-> "start"]
  /\ UNCHANGED <<height, trie, lock, writer, lastHeight, stale, flaws, faults>>

\* The time and the height of the run.
Started ==
  /\ JobAt("start")
  /\ modified' = [modified EXCEPT !["started"] = {}]
  /\ spentSince' = [spentSince EXCEPT !["started"] = {}]
  /\ job' = [at |-> "select", height |-> height]
  /\ UNCHANGED <<height, trie, rows, spent, lock, writer, lastHeight, stale, flaws, faults>>

\* getModifiedClaims and getNewValidClaims: the name is processed if one of its
\* claims was modified since the last run, or will be valid from here on.
Selected ==
  \/ modified["last"] \cap Stored # {}
  \/ lastHeight > 0 /\ \E c \in Stored : rows[c].validAt >= job.height

\* The claims that became valid since the last run.
NewlyValid == {c \in Stored : rows[c].validAt \in (lastHeight + 1)..job.height}

\* SyncClaims asks the node for the claims of the name.
Select ==
  /\ JobAt("select")
  /\ job' = IF Selected
            THEN [at |-> "sync", height |-> job.height, trie |-> GetClaimsForName]
            ELSE [at |-> "done", height |-> job.height]
  /\ flaws' = IF Selected THEN {}
              ELSE IF NewlyValid # {} THEN flaws \cup {"missed"} ELSE flaws
  /\ UNCHANGED <<height, trie, dbVars, lock, writer, lastHeight, stale, faults>>

\* syncClaim writes two columns; the lock it takes is not that of the claim.
syncClaim(row, json) ==
  [row EXCEPT !.validAt = json.validAt,
              !.eff = IF json.pending # 0 /\ @ \notin {json.eff, json.pending}
                      THEN json.pending ELSE json.eff]

Sync ==
  /\ JobAt("sync")
  /\ \E c \in DOMAIN job.trie :
       LET row == syncClaim(rows[c], job.trie[c])
       IN  /\ job' = [job EXCEPT !.trie = [d \in DOMAIN @ \ {c} |-> @[d]]]
           /\ IF c \in Stored /\ row # rows[c]
              THEN rows' = [rows EXCEPT ![c] = row] /\ Touch({c})
              ELSE UNCHANGED <<rows, modified>>
  /\ UNCHANGED <<height, trie, spent, spentSince, lock, writer, lastHeight, stale, flaws, faults>>

\* setBidStateOfClaimsForName reads the claims that are valid at the height.
ReadBids ==
  /\ JobAt("sync") /\ DOMAIN job.trie = {}
  /\ LET seen == {c \in Stored : rows[c].validAt <= job.height}
     IN  job' = [at |-> "bids", height |-> job.height, todo |-> seen, controlling |-> FALSE,
                 row |-> [c \in seen |-> rows[c]]]
  /\ UNCHANGED <<height, trie, dbVars, lock, writer, lastHeight, stale, flaws, faults>>

getClaimStatus(c, r) == IF <<c, r.ver>> \in spent THEN "Spent" ELSE "Active"

\* The next claim by effective amount.
SetBidState(c) ==
  /\ JobAt("bids")
  /\ c \in job.todo
  /\ \A d \in job.todo : job.row[d].eff <= job.row[c].eff
  /\ LET status == getClaimStatus(c, job.row[c])
         wins   == ~job.controlling /\ status = "Active"
         bid    == IF wins THEN "Controlling" ELSE status
     IN  /\ job' = [job EXCEPT !.todo = @ \ {c}, !.controlling = @ \/ wins]
         /\ IF bid = job.row[c].bid
            THEN UNCHANGED <<dbVars, stale>>
            ELSE /\ lock[c] = "nobody"
                 /\ PutClaim(c, [job.row[c] EXCEPT !.bid = bid])
                 /\ stale' = IF job.row[c].ver < rows[c].ver THEN stale \cup {c} ELSE stale
  /\ UNCHANGED <<height, trie, lock, writer, lastHeight, flaws, faults>>

\* Mutated form: LastSync becomes the time at which the run ended.
JobDoneNow ==
  /\ JobAt("done") \/ (JobAt("bids") /\ job.todo = {})
  /\ modified' = [modified EXCEPT !["last"] = {}]
  /\ spentSince' = [spentSince EXCEPT !["previous"] = spentSince["last"], !["last"] = {}]
  /\ lastHeight' = job.height
  /\ job' = Idle
  /\ UNCHANGED <<height, trie, rows, spent, lock, writer, stale, flaws, faults>>

\* The run was a success: LastSync becomes the time it started.
JobDone ==
  /\ JobAt("done") \/ (JobAt("bids") /\ job.todo = {})
  /\ modified' = [modified EXCEPT !["last"] = modified["started"]]
  /\ spentSince' = [spentSince EXCEPT !["previous"] = spentSince["last"],
                                      !["last"] = spentSince["started"]]
  /\ lastHeight' = job.height
  /\ job' = Idle
  /\ UNCHANGED <<height, trie, rows, spent, lock, writer, stale, flaws, faults>>

\* The run fails in one of its queries; LastSync is kept.
JobFails ==
  /\ job.at \in {"spent1", "spent2", "start", "select", "done"}
  /\ faults < MaxFaults /\ faults' = faults + 1
  /\ job' = Idle
  /\ UNCHANGED <<height, trie, dbVars, lock, writer, lastHeight, stale, flaws>>

\* syncProcessor and controllingProcessor log an error of theirs; the run goes on
\* with the next claim or the next name, and is a success.
NameFails ==
  /\ job.at \in {"sync", "bids"}
  /\ faults < MaxFaults /\ faults' = faults + 1
  /\ job' = IF JobAt("sync") THEN [job EXCEPT !.trie = <<>>]
            ELSE [at |-> "done", height |-> job.height]
  /\ flaws' = flaws \cup {"skipped"}
  /\ UNCHANGED <<height, trie, dbVars, lock, writer, lastHeight, stale>>

Node   == Empty \/ \E c \in Claims : Create(c) \/ Update(c) \/ Abandon(c) \/ SpendChange(c)
Writer == WriterReads \/ WriterWrites
Job    ==
  \/ StartJob \/ MarkSpent \/ ReadSpent \/ MarkAllSpent \/ Started \/ Select \/ Sync
  \/ ReadBids \/ JobDone \/ \E c \in Claims : SetBidState(c)

Next == Node \/ Writer \/ WriterFails \/ WriterSkips \/ Job \/ JobFails \/ NameFails

Spec == Init /\ [][Next]_vars

\* The node goes on finding blocks, block processing goes on, and so does the job,
\* which is scheduled every 15 minutes.
FairSpec == Spec /\ WF_vars(Empty) /\ WF_vars(Writer) /\ WF_vars(Job)

-----------------------------------------------------------------------------
(* Properties.                                                             *)

Bids == {"none", "Accepted", "Active", "Spent", "Controlling"}

\* The variables keep their types, and the windows of time are nested.
TypeOK ==
  /\ rows \in [Claims -> [ver : 0..MaxVersion, bid : Bids, validAt : 0..(MaxHeight + MaxDelay),
                          eff : {0} \cup {Amount[c] : c \in Claims}]]
  /\ spentSince["last"] \subseteq spentSince["previous"]
  /\ spent \cup spentSince["previous"] \subseteq Published
  /\ lock \in [Claims -> {"nobody", "writer"}]
  /\ \A c \in Claims : lock[c] = "writer" <=> writer.at = "write" /\ writer.claim = c

Controlling == {c \in Claims : rows[c].bid = "Controlling"}

\* The bid states that follow from the outputs and the node's trie.
Winner(c) == Valid(c) /\ \A d \in Claims : Valid(d) => Amount[d] <= Amount[c]
Truth ==
  /\ \A c \in Claims : rows[c].ver = trie[c].ver
  /\ \A c \in Stored : CASE ~trie[c].live -> rows[c].bid = "Spent"
                         [] Winner(c)     -> rows[c].bid = "Controlling"
                         [] OTHER         -> rows[c].bid \notin {"Spent", "Controlling"}

\* The version of a claim in the table is the node's, but for the claim that block
\* processing has before it, and the claims of which a version was not written or
\* was lost and that were not written since.
Current ==
  \A c \in Claims \ stale : rows[c].ver = trie[c].ver \/ (writer # Idle /\ writer.claim = c)

\* When the claims come to rest, the bid states become those of the claim trie,
\* whatever run failed before, and although claims that are alive are marked as
\* spent on the way.  What prevents it is a claim that stays stale: an update that
\* did not decode or whose write failed, or a row that was updated after it was read
\* and is written back.  A claim that became valid and was left out, and an error
\* that was logged in a run that counts as a success, prevent it until the name is
\* selected again.
Converges == <>[]Truth \/ <>[](stale \cup flaws # {})

\* The comment in getNewValidClaims: "CLAIMS THAT BECAME VALID SINCE".
SelectsNewlyValid == JobAt("select") /\ lastHeight > 0 => (NewlyValid # {} => Selected)

=============================================================================
