----------------------------- MODULE Coordinator -----------------------------
(***************************************************************************)
(* The coordinator process (src/pww/darl/server.py): the lease table, the  *)
(* write-ahead journal, the snapshot, and what is rebuilt from the two     *)
(* after a crash.  Every RPC runs under one lock, so an RPC is one step;   *)
(* a crash falls between RPCs, between writing a snapshot and truncating   *)
(* the journal, or in the middle of a replay.                              *)
(*                                                                         *)
(* A line written to the journal survives the death of the process; the    *)
(* death of the host loses any suffix that was not fsynced, and may leave  *)
(* the first lost line torn.                                               *)
(***************************************************************************)
EXTENDS LeaseTable

CONSTANTS
    NoSnapshot,     \* no snapshot.json in the state directory
    NoLease,        \* the lease of a release that names none
    SnapshotFirst,  \* the state directory starts with a snapshot
    Expires,        \* leases may run over their deadline
    GoesSilent,     \* clusters may fall silent for a liveness window
    TornWrites,     \* a crash may tear the line being written
    MaxLines        \* bound: lines ever written to the journal

ASSUME CoordinatorAssumption ==
    /\ NoSnapshot \notin Table /\ NoLease \notin Nat \X Nat \X Nat
    /\ {SnapshotFirst, Expires, GoesSilent, TornWrites} \subseteq BOOLEAN
    /\ MaxLines \in Nat

VARIABLES
    snapshot,       \* snapshot.json
    journal,        \* the lines of journal.jsonl
    durable,        \* how many of them are fsynced
    phase,          \* "up", "truncating" (inside save_snapshot), "down", "replaying"
    todo,           \* lines still to replay
    lines,          \* lines written so far

    \* What the clients were told, kept to state the properties.
    acked,          \* <<epoch, position>> whose commit was acknowledged
    held,           \* leases held when the process died, if no line was lost
    covered,        \* how many lines of the journal the snapshot holds as well
    outrun          \* a crash took a line that the snapshot holds

disk    == <<snapshot, journal, durable>>
history == <<acked, held, covered, outrun>>
vars    == <<table, disk, phase, todo, lines, history>>

-----------------------------------------------------------------------------
(* The journal                                                             *)

Torn    == [op |-> "torn"]      \* a partial last line, without its newline
Garbled == [op |-> "garbled"]   \* a partial line with the next one glued to it

\* Python opens the file in append mode: after a torn line the next entry
\* continues that line.
Logged(entry) ==
    IF journal # <<>> /\ journal[Len(journal)] = Torn
    THEN [journal EXCEPT ![Len(journal)] = Garbled]
    ELSE Append(journal, entry)

Write(entry) ==
    /\ phase = "up"
    /\ lines < MaxLines /\ lines' = lines + 1
    /\ journal' = Logged(entry)
    /\ UNCHANGED <<snapshot, phase, todo, held, covered, outrun>>

\* _log_op: a commit is fsynced before the reply, the other lines are not.
Log(entry)       == Write(entry) /\ UNCHANGED durable
LogSynced(entry) == Write(entry) /\ durable' = Len(journal')

\* An RPC that leaves no line.
Unlogged == phase = "up" /\ UNCHANGED <<disk, phase, todo, lines, held, covered, outrun>>

Positions(t, S) == {<<t.epoch, b>> : b \in S}

\* The leases a replay may bring back; only their ids matter to it.
Remembered ==
    LET granted == {i \in DOMAIN journal : journal[i].op = "acquire"}
    IN  (IF snapshot = NoSnapshot THEN {} ELSE snapshot.leases)
        \cup UNION {{journal[i].leases[j] : j \in DOMAIN journal[i].leases} : i \in granted}

-----------------------------------------------------------------------------
(* RPCs                                                                    *)

\* The line records the incarnation the record ends up with.
ServeRegister(c, inc) ==
    /\ Register(c, inc)
    /\ Log([op |-> "register", cluster |-> c, incarnation |-> table'.clusters[c].incarnation])
    /\ UNCHANGED acked

\* The leases a grant created, in the order of their spans.
Grants == [i \in 1 .. table'.seq - table.seq |->
              CHOOSE l \in table'.leases : l.id[3] = table.seq + i]

\* The outcome of an acquire is journalled; what it took from a victim, and
\* the reap and the epoch it may have started with, are not.
ServeAcquire(c) ==
    /\ AcquireFree(c) \/ AcquireStolen(c)
    /\ Log([op |-> "acquire", cluster |-> c, leases |-> Grants])
    /\ UNCHANGED acked

ServeAcquireNothing(c) ==
    /\ AcquireNothing(c)
    /\ Unlogged
    /\ UNCHANGED acked

ServeHeartbeat(c, progress) ==
    /\ Heartbeat(c, progress)
    /\ Unlogged
    /\ UNCHANGED acked

\* Commits are fsynced before the reply; the line holds the watermark as it
\* was sent, not as it was clamped.
ServeCommit(l, watermark) ==
    /\ Commit(l, watermark)
    /\ LogSynced([op |-> "commit", cluster |-> l.cluster, lease |-> l.id, through |-> watermark])
    /\ acked' = acked \cup Positions(table, {b \in Outstanding(l) : b < watermark})

\* The line of a release says neither whether it was refused nor whether it
\* counted against the positions.
ServeReleaseOne(l, count) ==
    /\ ReleaseOne(l, count)
    /\ Log([op |-> "release", cluster |-> l.cluster, lease |-> l.id])
    /\ UNCHANGED acked

\* A release of a lease the table no longer has is logged all the same.
ServeReleaseGone(l) ==
    /\ ~\E m \in Holding(table, l.cluster) : m.id = l.id
    /\ Log([op |-> "release", cluster |-> l.cluster, lease |-> l.id])
    /\ UNCHANGED <<table, acked>>

ServeReleaseAll(c, inc, count) ==
    LET gone == IF MayReleaseAll(table, c, inc) THEN Holding(table, c) ELSE {}
    IN  /\ table' = Reclaimed(table, gone, count)
        /\ Log([op |-> "release", cluster |-> c, lease |-> NoLease])
        /\ UNCHANGED acked

\* The tick logs what it reaps; GET /status reaps and does not.
Tick ==
    /\ Reap
    /\ Log([op |-> "reap"])
    /\ UNCHANGED acked

Status ==
    /\ Reap
    /\ Unlogged
    /\ UNCHANGED acked

ServeAdvance ==
    /\ table' = Advanced(table)
    /\ Log([op |-> "advance_epoch"])
    /\ UNCHANGED acked

TimePasses ==
    /\ \/ Expires /\ \E l \in table.leases : LeaseOverdue(l)
       \/ GoesSilent /\ \E c \in Cluster : FallSilent(c)
    /\ Unlogged
    /\ UNCHANGED acked

-----------------------------------------------------------------------------
(* Snapshots                                                               *)

\* The file holds deadlines; load extends every one of them (grace_s), so it
\* does not matter which have passed.
Undated(t) == [t EXCEPT !.leases = {[l EXCEPT !.overdue = FALSE] : l \in t.leases}]

\* save_snapshot: the new file replaces the old one, and only then is the
\* journal truncated.  The lock is held across both.
SaveSnapshot ==
    /\ phase = "up"
    /\ snapshot' = Undated(table)
    /\ phase' = "truncating"
    /\ covered' = Len(journal)
    /\ UNCHANGED <<table, journal, durable, todo, lines, acked, held, outrun>>

Truncate ==
    /\ phase = "truncating"
    /\ journal' = <<>> /\ durable' = 0 /\ covered' = 0
    /\ phase' = "up"
    /\ UNCHANGED <<table, snapshot, todo, lines, acked, held, outrun>>

-----------------------------------------------------------------------------
(* Crash and restart                                                       *)

\* The first n lines survive; the next one may survive in part.
Crash ==
    /\ phase # "down"
    /\ \E n \in durable .. Len(journal) :
         /\ \/ journal' = SubSeq(journal, 1, n)
            \/ TornWrites /\ n < Len(journal) /\ journal' = Append(SubSeq(journal, 1, n), Torn)
         /\ held' = IF n < Len(journal) THEN {}
                    ELSE IF phase = "replaying" THEN held
                    ELSE {<<l.id, l.cluster>> : l \in table.leases}
         /\ outrun' = (outrun \/ n < covered) /\ covered' = Smaller(covered, n)
    /\ phase' = "down"
    /\ table' = NewTable /\ todo' = <<>>
    /\ UNCHANGED <<snapshot, durable, lines, acked>>

\* restore: the pool is recomputed from the states.
Restored(s) == [s EXCEPT !.free = {b \in Blocks : s.state[b] = UNASSIGNED}]

\* load: without a snapshot there is nothing to load, and main starts afresh.
Load ==
    /\ phase = "down"
    /\ IF snapshot = NoSnapshot
       THEN table' = NewTable /\ todo' = <<>> /\ phase' = "up" /\ held' = {}
       ELSE table' = Restored(snapshot) /\ todo' = journal /\ phase' = "replaying" /\ held' = held
    /\ UNCHANGED <<disk, lines, acked, covered, outrun>>

\* replay_lease: the first run of positions of the lease that are still free.
Replayable_(t, lease, lo, hi) == lo = lease.start /\ hi = lease.end

Replayable(t, lease, lo, hi) ==
    /\ lease.start <= lo /\ lo < hi /\ hi <= lease.end
    /\ \A b \in lease.start .. lo - 1 : t.state[b] # UNASSIGNED
    /\ \A b \in lo .. hi - 1 : t.state[b] = UNASSIGNED
    /\ hi = lease.end \/ t.state[hi] # UNASSIGNED

Installed(t, lease, lo, hi) ==
    LET l == [lease EXCEPT !.start = lo, !.end = hi, !.committed_end = lo,
                           !.progress_end = Smaller(Larger(@, lo), hi), !.overdue = FALSE]
    IN  [t EXCEPT !.free = @ \ (lo .. hi - 1),
                  !.state = Fill(@, lo .. hi - 1, LEASED),
                  !.leases = @ \cup {l},
                  !.seq = Larger(@, lease.id[3])]

\* The table after replay_lease: a lease of another epoch, one that is there
\* already, and one with nothing left to take are skipped.
ReplayLease(t, lease) ==
    LET fits == lease.epoch = t.epoch /\ \A m \in t.leases : m.id # lease.id
        runs == {r \in (0 .. NumBlocks) \X (0 .. NumBlocks) : fits /\ Replayable(t, lease, r[1], r[2])}
    IN  IF runs = {} THEN {t} ELSE {Installed(t, lease, r[1], r[2]) : r \in runs}

\* _replay of the next line; the leases of an acquire are taken one a step.
Replaying(op) == phase = "replaying" /\ todo # <<>> /\ Head(todo).op = op

LineDone == todo' = Tail(todo) /\ UNCHANGED <<disk, phase, lines, history>>

ReplayRegister ==
    /\ Replaying("register")
    /\ table' = Registered(table, Head(todo).cluster, Head(todo).incarnation)
    /\ LineDone

ReplayAcquire ==
    /\ Replaying("acquire")
    /\ LET line == Head(todo)
       IN  /\ table' \in ReplayLease(Registered(table, line.cluster, NoIncarnation), line.leases[1])
           /\ todo' = IF Len(line.leases) = 1 THEN Tail(todo)
                      ELSE [todo EXCEPT ![1].leases = Tail(@)]
    /\ UNCHANGED <<disk, phase, lines, history>>

\* A lease that is gone, or another cluster's, is skipped.
ReplayCommit ==
    /\ Replaying("commit")
    /\ LET line == Head(todo)
           mine == {l \in Holding(table, line.cluster) : l.id = line.lease}
       IN  \/ \E l \in mine : table' = Committed(table, l, line.through)
           \/ mine = {} /\ table' = table
    /\ LineDone

\* The leases a release line names; the incarnation and the count are not in it.
Released_(t, line) == Holding(t, line.cluster)
Released(t, line)  == {l \in Holding(t, line.cluster) : line.lease \in {l.id, NoLease}}

ReplayRelease ==
    /\ Replaying("release")
    /\ table' = Reclaimed(table, Released(table, Head(todo)), TRUE)
    /\ LineDone

\* Every restored deadline lies after the time of the line, so nothing is due.
ReplayReap ==
    /\ Replaying("reap")
    /\ table' = table
    /\ LineDone

ReplayAdvance ==
    /\ Replaying("advance_epoch")
    /\ table' = Advanced(table)
    /\ LineDone

\* A line that is not JSON ends the replay, whatever follows it.
ReplayStop ==
    /\ Replaying("torn") \/ Replaying("garbled")
    /\ todo' = <<>>
    /\ UNCHANGED <<table, disk, phase, lines, history>>

ReplayDone ==
    /\ phase = "replaying" /\ todo = <<>>
    /\ phase' = "up" /\ held' = {}
    /\ UNCHANGED <<table, disk, todo, lines, acked, covered, outrun>>

-----------------------------------------------------------------------------

CoordinatorInit ==
    /\ Init
    /\ snapshot = IF SnapshotFirst THEN NewTable ELSE NoSnapshot
    /\ journal = <<>> /\ durable = 0 /\ lines = 0
    /\ phase = "up" /\ todo = <<>>
    /\ acked = {} /\ held = {} /\ covered = 0 /\ outrun = FALSE

CoordinatorNext ==
    \/ \E c \in Cluster, inc \in Incarnation \cup {NoIncarnation} : ServeRegister(c, inc)
    \/ \E c \in Cluster : ServeAcquire(c)
    \/ \E c \in Cluster : ServeAcquireNothing(c)
    \/ \E c \in Cluster : \E renewed \in SUBSET Holding(table, c) :
         \E progress \in [{l.id : l \in renewed} -> Watermarks] : ServeHeartbeat(c, progress)
    \/ \E l \in table.leases, w \in Watermarks : ServeCommit(l, w)
    \/ \E l \in table.leases, count \in BOOLEAN : ServeReleaseOne(l, count)
    \/ \E l \in Remembered : ServeReleaseGone(l)
    \/ \E c \in Cluster, inc \in Incarnation \cup {NoIncarnation}, count \in BOOLEAN :
         ServeReleaseAll(c, inc, count)
    \/ Tick \/ Status \/ ServeAdvance \/ TimePasses
    \/ SaveSnapshot \/ Truncate
    \/ Crash \/ Load
    \/ ReplayRegister \/ ReplayAcquire \/ ReplayCommit \/ ReplayRelease
    \/ ReplayReap \/ ReplayAdvance \/ ReplayStop \/ ReplayDone

CoordinatorSpec == CoordinatorInit /\ [][CoordinatorNext]_vars

-----------------------------------------------------------------------------
(* Properties                                                              *)

Serving == phase \in {"up", "truncating"}

\* The table, live or rebuilt, is a table, and so is the snapshot.
CoordinatorTypeOK ==
    /\ table \in Table /\ snapshot \in Table \cup {NoSnapshot}
    /\ phase \in {"up", "truncating", "down", "replaying"}
    /\ durable \in 0 .. Len(journal)
    /\ todo # <<>> => phase = "replaying"

\* verify() would pass on the live table, on the snapshot, and after every
\* line of a replay: on top of a snapshot that already holds its effect, after
\* a steal that left no line, and with any unsynced suffix lost.
ReplayVerifies ==
    \A t \in {table, snapshot} \ {NoSnapshot} :
        VerifiedIn(t) /\ CreditIn(t)

\* An acknowledged commit is still a commit after any restart (server.py,
\* module docstring: every mutation is appended before the reply goes out).
CommitsSurvive ==
    Serving => \A p \in acked :
        p[1] < table.epoch \/ (p[1] = table.epoch /\ table.state[p[2]] = COMMITTED)

\* No position counts as committed that no cluster was credited with: replay
\* never settles more than was acknowledged (table.py:795, commits that name a
\* lease the snapshot already settled are no-ops).  Lost lines alone never break
\* it, nor does a replay on top of a snapshot that holds all of its lines; the
\* two together do, hence ~outrun.
NoPhantomCommit ==
    Serving /\ ~outrun =>
        \A b \in Blocks : table.state[b] = COMMITTED => <<table.epoch, b>> \in acked

\* When the process dies and no line is lost, the clusters find their leases
\* again: they heartbeat, get renewed and never notice (restore, grace_s).  The
\* exception is the one of NoPhantomCommit.
LeasesSurvive ==
    [][phase' = "up" /\ phase \in {"down", "replaying"} /\ ~outrun =>
          \A h \in held : \E l \in table'.leases : <<l.id, l.cluster>> = h]_vars

=============================================================================
