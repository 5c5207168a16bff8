--------------------------- MODULE BookPersistence ---------------------------
(***************************************************************************)
(* The files that keep an order book over a restart: PersistenceManager    *)
(* and RecoveryManager of matching-engine/src/persistence.rs.              *)
(*                                                                         *)
(* checkpoint is a sequence of file operations.  The process may die       *)
(* between any two of them and in the middle of a write, an operation may  *)
(* fail, which ends the call; the next process recovers.  A book is the    *)
(* sequence number it was saved with; updates are numbered like it.        *)
(*                                                                         *)
(* A file's modification time is its place in the order of the writes; two *)
(* snapshots of one sequence number fall into one second and share a name. *)
(***************************************************************************)
EXTENDS Naturals, FiniteSets, FiniteSetsExt

CONSTANTS
    SnapshotInterval,  \* snapshot_interval, 1000 by default
    MaxSnapshots,      \* max_snapshots, 10 by default
    MaxSequence, MaxWrites, MaxCrashes    \* bounds

\* Of no snapshots at all none can be kept.
ASSUME PersistAssumption == {SnapshotInterval, MaxSequence} \subseteq Nat /\ MaxSnapshots \in Nat \ {0}

VARIABLES
    sequence,   \* the book's last sequence number
    since,      \* updates_since_snapshot
    step,       \* what checkpoint does next
    pending,    \* the buffer that this checkpoint is to save: its first and last update
    files,      \* the files named snapshot_*: book, suffix, whether whole, time
    buffer_file,\* buffer.json
    clock,      \* history: writes so far
    kept,       \* history: the book of the last snapshot that was completely written
    crashes,    \* history
    recovered   \* what recover returned last

pvars == <<sequence, since, step, pending, files, buffer_file, clock, kept, crashes, recovered>>

NoBuffer == [first |-> 0, last |-> 0, whole |-> TRUE]
Nobody == [book |-> 0, first |-> 0, last |-> 0]

PersistInit ==
    /\ sequence = 0 /\ since = 0
    /\ step = "idle" /\ pending = NoBuffer
    /\ files = {} /\ buffer_file = NoBuffer
    /\ clock = 0 /\ kept = 0 /\ crashes = 0
    /\ recovered = Nobody

Steady == UNCHANGED <<sequence, crashes, recovered>>
\* Mutant: the files are sorted the wrong way round.
Latest == CHOOSE f \in files : \A g \in files : f.time >= g.time

Oldest == CHOOSE f \in files : \A g \in files : f.time <= g.time

-----------------------------------------------------------------------------
(* checkpoint(book, sequence, buffer).                                     *)

\* save_state counts the update and most often that is all it does.
checkpoint(n, updates) ==
    /\ step = "idle"
    /\ sequence + n + updates <= MaxSequence /\ since <= SnapshotInterval    \* bounds
    /\ sequence' = sequence + n
    /\ since' = since + 1
    /\ pending' = IF updates = 0 THEN NoBuffer
                  ELSE [first |-> sequence' + 1, last |-> sequence' + updates, whole |-> TRUE]
    /\ step' = IF since' < SnapshotInterval THEN "buffer" ELSE "write"
    /\ UNCHANGED <<files, buffer_file, clock, kept, crashes, recovered>>

\* atomic_write: the .tmp file, whose name begins like a snapshot's, is written;
WriteTemporary(whole) ==
    /\ step = "write" /\ clock < MaxWrites
    /\ clock' = clock + 1
    /\ files' = {f \in files : f.book /= sequence \/ f.suffix /= "tmp"}
                  \cup {[book |-> sequence, suffix |-> "tmp", whole |-> whole, time |-> clock']}
    /\ step' = IF whole THEN "rename" ELSE "torn"
    /\ Steady /\ UNCHANGED <<since, pending, buffer_file, kept>>

\* and renamed.
RenameTemporary ==
    /\ step = "rename"
    /\ \E t \in {f \in files : f.book = sequence /\ f.suffix = "tmp"} :
         files' = {f \in files : f.book /= sequence} \cup {[t EXCEPT !.suffix = "json"]}
    /\ since' = 0
    /\ kept' = sequence
    /\ step' = "cleanup"
    /\ Steady /\ UNCHANGED <<pending, buffer_file, clock>>

\* cleanup_old_snapshots: the oldest go, one after the other.
cleanup_old_snapshots ==
    /\ step = "cleanup"
    /\ IF Cardinality(files) > MaxSnapshots
         THEN files' = files \ {Oldest} /\ step' = step
         ELSE files' = files /\ step' = "buffer"
    /\ Steady /\ UNCHANGED <<since, pending, buffer_file, clock, kept>>

\* save_buffer writes in place, and not at all if there is nothing to save.
save_buffer(whole) ==
    /\ step = "buffer"
    /\ IF pending = NoBuffer
         THEN whole /\ buffer_file' = buffer_file /\ step' = "idle"
         ELSE buffer_file' = [pending EXCEPT !.whole = whole] /\ step' = (IF whole THEN "idle" ELSE "torn")
    /\ Steady /\ UNCHANGED <<since, pending, files, clock, kept>>

\* An operation fails: the call returns its error, the files stay as they are.
Fail ==
    /\ step \in {"write", "rename", "cleanup", "buffer", "torn"}
    /\ step' = "idle"
    /\ Steady /\ UNCHANGED <<since, pending, files, buffer_file, clock, kept>>

-----------------------------------------------------------------------------
(* Crash and recovery.                                                     *)

Crash ==
    /\ step /= "down" /\ crashes < MaxCrashes
    /\ crashes' = crashes + 1
    /\ step' = "down"
    /\ UNCHANGED <<sequence, since, pending, files, buffer_file, clock, kept, recovered>>

\* The newest file that can be read, whatever its suffix, else nothing at all.
load_latest_state ==
    LET readable == {f \in files : f.whole} IN
    IF readable = {} THEN 0 ELSE (CHOOSE f \in readable : \A g \in readable : g.time <= f.time).book

\* recover: without a snapshot the buffer is not looked at.  A buffer that is
\* read is deleted, one that cannot be parsed is left; the book begins with what
\* was recovered.
recover ==
    /\ step = "down"
    /\ since' = 0 /\ pending' = NoBuffer
    /\ sequence' = load_latest_state
    /\ IF load_latest_state = 0 \/ ~buffer_file.whole
         THEN recovered' = [Nobody EXCEPT !.book = load_latest_state] /\ buffer_file' = buffer_file
         ELSE /\ recovered' = [book |-> load_latest_state, first |-> buffer_file.first, last |-> buffer_file.last]
              /\ buffer_file' = NoBuffer
    /\ step' = "idle"
    /\ UNCHANGED <<files, clock, kept, crashes>>

PersistNext ==
    \/ \E n \in 0 .. 1, updates \in 0 .. 1 : checkpoint(n, updates)
    \/ \E whole \in BOOLEAN : WriteTemporary(whole) \/ save_buffer(whole)
    \/ RenameTemporary \/ cleanup_old_snapshots \/ Fail \/ Crash \/ recover

-----------------------------------------------------------------------------
(* What holds of it.                                                       *)

PersistTypeOK ==
    /\ sequence \in 0 .. MaxSequence /\ since \in Nat
    /\ step \in {"idle", "write", "torn", "rename", "cleanup", "buffer", "down"}
    /\ \A f \in files : f.book \in 0 .. MaxSequence /\ f.suffix \in {"tmp", "json"} /\ f.time \in 1 .. clock
    /\ recovered.book \in 0 .. MaxSequence

\* A snapshot that was written is never lost again: whenever the process dies,
\* what recover would find is that book or a newer one, although torn and left
\* over temporary files are taken for snapshots when the oldest are removed.
\* With a snapshot at each checkpoint no update is missing between the book and
\* the buffer that are recovered.
NeverBack ==
    /\ load_latest_state >= kept
    /\ (SnapshotInterval = 1 /\ recovered.first > 0 /\ step = "idle") => recovered.first <= recovered.book + 1

=============================================================================
