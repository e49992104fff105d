-------------------------- MODULE SettlementDaemon --------------------------
(***************************************************************************)
(* The daemon of a registered node: it polls, publishes a heartbeat when   *)
(* its interval has passed, and the checkpoints of the state root one by   *)
(* one.  What it broadcasts reaches a block later, or never; the handlers  *)
(* (node_heartbeat, node_state_checkpoint) judge it by that block.         *)
(* Time is the number of the head block.                                   *)
(***************************************************************************)
EXTENDS Integers, Sequences, FiniteSets, FiniteSetsExt, SequencesExt

CONSTANTS
    Interval,       \* MIN_HEARTBEAT_INTERVAL_BLOCKS
    Staleness,      \* MAX_NODE_HEARTBEAT_STALENESS_BLOCKS
    Boundary,       \* STATE_CHECKPOINT_INTERVAL_BLOCKS
    PollEvery,      \* POLL_INTERVAL_MS, in blocks
    MaxDelay,       \* bound: blocks between broadcast and inclusion
    MaxBlock,       \* bound: head block
    MaxMisfortunes  \* bound: crashes, failed calls and lost transactions

ASSUME DaemonAssumption ==
    /\ {Interval, Staleness, Boundary, PollEvery, MaxDelay} \subseteq Nat \ {0}
    /\ {MaxBlock, MaxMisfortunes} \subseteq Nat
    /\ MaxDelay <= PollEvery /\ MaxDelay < Interval
    /\ Interval + PollEvery + MaxDelay <= Staleness

VARIABLES
    head,           \* the head block
    indexed,        \* last_block of the node's own index
    snapshots,      \* boundaries in state_root_checkpoints
    alive,          \* whether the daemon's process is up
    polled,         \* block of the last poll, or of the start
    step,           \* where the tick stands: asleep, beaten, sent
    beatAt,         \* lastEmittedBlock
    emitted,        \* lastEmittedCheckpointBlock
    cursorRow,      \* l2_nodes.last_emitted_checkpoint_block
    air,            \* broadcast and not included: [kind, block, sent]
    beats,          \* blocks of the accepted heartbeats
    sent,           \* history: boundaries broadcast, in order
    missed,         \* history: heartbeats lost or refused
    misfortunes     \* crashes, failures and losses so far

daemonVars == <<head, indexed, snapshots, alive, polled, step, beatAt, emitted,
                cursorRow, air, beats, sent, missed, misfortunes>>

\* The node registered, and was indexed, at block 0.
DaemonInit ==
    /\ head = 0 /\ indexed = 0 /\ snapshots = {} /\ alive = TRUE /\ polled = 0
    /\ step = "asleep" /\ beatAt = 0 /\ emitted = 0 /\ cursorRow = 0 /\ air = {}
    /\ beats = {} /\ sent = <<>> /\ missed = 0 /\ misfortunes = 0

LastBeat(upTo) == Max({b \in beats : b <= upTo} \cup {0})
ActiveAt(block) == block - LastBeat(block) <= Staleness
-----------------------------------------------------------------------------
(* The chain and the index. *)

\* No poll is skipped while the process is up, and no transaction is included
\* later than MaxDelay.
NewBlock ==
    /\ head < MaxBlock
    /\ alive => head - polled < PollEvery /\ step = "asleep"
    /\ \A tx \in air : head - tx.sent < MaxDelay
    /\ head' = head + 1
    /\ UNCHANGED <<indexed, snapshots, alive, polled, step, beatAt, emitted, cursorRow,
                   air, beats, sent, missed, misfortunes>>

\* A heartbeat too soon after the last one is refused, by the block it is in.
Include(tx) ==
    /\ tx \in air /\ tx.sent < head
    /\ air' = air \ {tx}
    /\ IF tx.kind = "beat"
       THEN IF beats # {} /\ head - Max(beats) < Interval
            THEN missed' = missed + 1 /\ UNCHANGED beats
            ELSE beats' = beats \cup {head} /\ UNCHANGED missed
       ELSE UNCHANGED <<beats, missed>>
    /\ UNCHANGED <<head, indexed, snapshots, alive, polled, step, beatAt, emitted,
                   cursorRow, sent, misfortunes>>

\* The transaction expires before a witness takes it.
Expire(tx) ==
    /\ tx \in air /\ misfortunes < MaxMisfortunes
    /\ air' = air \ {tx} /\ misfortunes' = misfortunes + 1
    /\ missed' = IF tx.kind = "beat" THEN missed + 1 ELSE missed
    /\ UNCHANGED <<head, indexed, snapshots, alive, polled, step, beatAt, emitted,
                   cursorRow, beats, sent>>

\* A batch is indexed; its end is a boundary, or the boundary goes unrecorded.
IndexTo(block) ==
    /\ indexed < block /\ block <= head
    /\ indexed' = block
    /\ snapshots' = IF block % Boundary = 0 THEN snapshots \cup {block} ELSE snapshots
    /\ UNCHANGED <<head, alive, polled, step, beatAt, emitted, cursorRow, air, beats,
                   sent, missed, misfortunes>>
-----------------------------------------------------------------------------
(* The daemon. *)

\* Mutant: the interval is counted from the staleness limit.
DueLate == head - beatAt >= Staleness

Due == head - beatAt >= Interval

Awake == alive /\ step = "asleep" /\ polled < head

Unpublished == {b \in snapshots : b > emitted}

\* The first half of a tick: the heartbeat, if one is due.
Tick ==
    /\ Awake
    /\ polled' = head /\ step' = "beaten"
    /\ IF Due
       THEN beatAt' = head /\ air' = air \cup {[kind |-> "beat", block |-> head, sent |-> head]}
       ELSE UNCHANGED <<beatAt, air>>
    /\ UNCHANGED <<head, indexed, snapshots, alive, emitted, cursorRow, beats, sent, missed,
                   misfortunes>>

\* Head query or broadcast fails: the whole tick is given up, checkpoint included.
TickFails ==
    /\ Awake /\ misfortunes < MaxMisfortunes
    /\ polled' = head /\ misfortunes' = misfortunes + 1
    /\ UNCHANGED <<head, indexed, snapshots, alive, step, beatAt, emitted, cursorRow, air,
                   beats, sent, missed>>

NothingToPublish ==
    /\ alive /\ step = "beaten" /\ Unpublished = {}
    /\ step' = "asleep"
    /\ UNCHANGED <<head, indexed, snapshots, alive, polled, beatAt, emitted, cursorRow, air,
                   beats, sent, missed, misfortunes>>

\* Mutant: the latest boundary is published, not the lowest.
NextLatest == Max(Unpublished)

NextPending == Min(Unpublished)

Publish ==
    /\ alive /\ step = "beaten" /\ Unpublished # {}
    /\ air' = air \cup {[kind |-> "checkpoint", block |-> NextPending, sent |-> head]}
    /\ sent' = Append(sent, NextPending)
    /\ step' = "sent"
    /\ UNCHANGED <<head, indexed, snapshots, alive, polled, beatAt, emitted, cursorRow,
                   beats, missed, misfortunes>>

PublishFails ==
    /\ alive /\ step = "beaten" /\ Unpublished # {} /\ misfortunes < MaxMisfortunes
    /\ step' = "asleep" /\ misfortunes' = misfortunes + 1
    /\ UNCHANGED <<head, indexed, snapshots, alive, polled, beatAt, emitted, cursorRow, air,
                   beats, sent, missed>>

\* Row first, memory second; if the row cannot be written both stay.
Persist ==
    /\ alive /\ step = "sent"
    /\ cursorRow' = NextPending /\ emitted' = NextPending
    /\ step' = "asleep"
    /\ UNCHANGED <<head, indexed, snapshots, alive, polled, beatAt, air, beats, sent, missed,
                   misfortunes>>

PersistFails ==
    /\ alive /\ step = "sent" /\ misfortunes < MaxMisfortunes
    /\ step' = "asleep" /\ misfortunes' = misfortunes + 1
    /\ UNCHANGED <<head, indexed, snapshots, alive, polled, beatAt, emitted, cursorRow, air,
                   beats, sent, missed>>

DaemonCrash ==
    /\ alive /\ misfortunes < MaxMisfortunes
    /\ alive' = FALSE /\ step' = "asleep" /\ beatAt' = 0 /\ emitted' = 0
    /\ misfortunes' = misfortunes + 1
    /\ UNCHANGED <<head, indexed, snapshots, polled, cursorRow, air, beats, sent, missed>>

\* Mutant: a restart takes up at the end of what is recorded.
ResumeAfterAll == Max(snapshots \cup {0})

ResumeCursor == cursorRow

\* Both cursors are read from the node's row, which the index may not have
\* brought up to date yet.
Restart ==
    /\ ~alive
    /\ alive' = TRUE /\ polled' = head
    /\ beatAt' = LastBeat(indexed) /\ emitted' = ResumeCursor
    /\ UNCHANGED <<head, indexed, snapshots, step, cursorRow, air, beats, sent, missed,
                   misfortunes>>

DaemonNext ==
    \/ NewBlock \/ \E block \in 1..MaxBlock : IndexTo(block)
    \/ \E tx \in air : Include(tx) \/ Expire(tx)
    \/ Tick \/ TickFails \/ NothingToPublish \/ Publish \/ PublishFails
    \/ Persist \/ PersistFails \/ DaemonCrash \/ Restart

DaemonSpec == DaemonInit /\ [][DaemonNext]_daemonVars
-----------------------------------------------------------------------------
(* Properties. *)

\* Boundaries are broadcast in increasing order, only the last one ever again,
\* and none that was recorded is passed over: not by a crash between broadcast
\* and record, nor by a failed write.
CheckpointsInOrder ==
    /\ \A i \in 1..(Len(sent) - 1) :
        /\ sent[i] <= sent[i + 1]
        /\ \A b \in snapshots : ~(sent[i] < b /\ b < sent[i + 1])
    /\ sent # <<>> => \A b \in snapshots : sent[1] <= b
    /\ sent # <<>> => \A b \in Unpublished : alive => b >= Last(sent)

\* While the process stays up and nothing is lost, the node never counts as
\* silent unless a heartbeat was refused: the daemon's interval is counted from the
\* head at broadcast, the handler's from the block of inclusion, so one that comes
\* quickly after one that took long is too soon.  But never are two refused in a
\* row: the silence is a second interval at most, and what poll and inclusion add.
HealthyNodeStaysActive ==
    misfortunes = 0 =>
        /\ missed = 0 => ActiveAt(head)
        /\ head - LastBeat(head) <= 2 * Interval + PollEvery + MaxDelay - 3
=============================================================================
