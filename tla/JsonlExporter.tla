---------------------------- MODULE JsonlExporter ----------------------------
(***************************************************************************)
(* The telemetry file: hook processes append one line each to a shared     *)
(* JSONL file under a file lock, rotate it by size and count what fails in *)
(* a health file.  Only the lock keeps the processes apart; a crash may    *)
(* come between any two system calls and releases the lock.                *)
(*                                                                         *)
(* A file is None or the sequence of the pieces of records written to it,  *)
(* [record, end, ended]: end is the byte of the file at which the piece    *)
(* ends, ended says whether that is the end of the record, its newline.    *)
(***************************************************************************)
EXTENDS Integers, Sequences, FiniteSets, SequencesExt

CONSTANTS
  None,
  Procs,
  MaxBytes, BackupCount, MaxRecordBytes,  \* JsonlExporter(...)
  Sizes,          \* encoded sizes of observations, newline included
  ShortWrites,    \* may os.write take part of the payload
  MaxRecords,     \* bound: exports in a behaviour
  MaxFaults       \* bound: crashes and failing system calls in a behaviour

Piece == [record : Nat, end : Nat, ended : BOOLEAN]

ASSUME ExporterAssumption ==
  /\ None \notin Procs \cup Seq(Piece)
  /\ MaxBytes \in Nat \ {0} /\ BackupCount \in Nat
  /\ MaxRecordBytes \in 1..MaxBytes
  /\ Sizes \subseteq Nat \ {0} /\ ShortWrites \in BOOLEAN
  /\ MaxRecords \in Nat /\ MaxFaults \in Nat

VARIABLES
  files,      \* index -> content; 0 is the current file, i its i-th backup
  lock,       \* the process that holds the lock, or None
  pc,         \* process -> the system call it makes next
  payload,    \* process -> the observation it exports, [record, bytes], or None
  step,       \* process -> the backup _rotate handles next
  offset,     \* process -> bytes of the payload already written
  count,      \* failure_count in the health file
  seen,       \* process -> the failure_count it read
  acked,      \* history variable: records whose export returned, in that order
  raised,     \* history variable: number of exports that raised after they had the lock
  swallowed,  \* history variable: failures the health file could not take
  forgotten,  \* history variable: failures counted in health files that were replaced unread
  records, faults

locals == <<payload, step, offset, seen>>
history == <<acked, raised, swallowed, forgotten>>
vars == <<files, lock, pc, locals, count, history, records, faults>>

Indexes == 0..BackupCount

Init ==
  /\ files = [i \in Indexes |-> None]
  /\ lock = None
  /\ pc = [p \in Procs |-> "idle"]
  /\ payload = [p \in Procs |-> None]
  /\ step = [p \in Procs |-> 0]
  /\ offset = [p \in Procs |-> 0]
  /\ count = 0 /\ seen = [p \in Procs |-> 0]
  /\ acked = <<>> /\ raised = 0 /\ swallowed = 0 /\ forgotten = 0
  /\ records = 0 /\ faults = 0

Pieces(content) == IF content = None THEN <<>> ELSE content
Size(content) == IF Pieces(content) = <<>> THEN 0 ELSE Last(content).end

-----------------------------------------------------------------------------
(* export: lock, maybe rotate, append, unlock *)

Export(p, bytes) ==
  /\ pc[p] = "idle" /\ records < MaxRecords
  /\ records' = records + 1
  /\ payload' = [payload EXCEPT ![p] = [record |-> records + 1, bytes |-> bytes]]
  /\ pc' = [pc EXCEPT ![p] = "lock"]
  /\ UNCHANGED <<files, lock, step, offset, count, seen, history, faults>>

MustRotate_Mutant(p) == Size(files[0]) > MaxBytes
MustRotate(p) == Size(files[0]) > 0 /\ Size(files[0]) + payload[p].bytes > MaxBytes

Free_Mutant(p) == TRUE
Free(p) == lock = None

\* The lock, then the decision what to do, which nobody else can disturb.
Lock(p) ==
  /\ pc[p] = "lock" /\ Free(p)
  /\ lock' = p
  /\ pc' = [pc EXCEPT ![p] =
       CASE payload[p].bytes > MaxRecordBytes -> "read_health"
         [] payload[p].bytes <= MaxRecordBytes /\ MustRotate(p) -> "rotate"
         [] OTHER -> "open"]
  /\ step' = [step EXCEPT ![p] = BackupCount]
  /\ offset' = [offset EXCEPT ![p] = 0]
  /\ UNCHANGED <<files, payload, count, seen, history, records, faults>>

Shift_DropCurrent(k) ==
  CASE k = 0 -> [files EXCEPT ![0] = None]
    [] k > 0 /\ files[k] # None -> [files EXCEPT ![k] = None, ![k + 1] = files[k]]
    [] OTHER -> files

\* os.replace of file k by its successor's name, when there is a file k.
Shift(k) ==
  IF files[k] = None THEN files ELSE [files EXCEPT ![k] = None, ![k + 1] = files[k]]

\* First the oldest file is unlinked, without backups the current one, then the
\* others move up one by one, the current one last.
Rotate(p) ==
  /\ pc[p] = "rotate"
  /\ files' = IF step[p] = BackupCount THEN [files EXCEPT ![BackupCount] = None]
              ELSE Shift(step[p])
  /\ \/ step[p] = 0 /\ pc' = [pc EXCEPT ![p] = "open"] /\ UNCHANGED step
     \/ step[p] > 0 /\ step' = [step EXCEPT ![p] = @ - 1] /\ UNCHANGED pc
  /\ UNCHANGED <<lock, payload, offset, count, seen, history, records, faults>>

OpenFile_Mutant(p) ==
  /\ pc[p] = "open"
  /\ files' = [files EXCEPT ![0] = <<>>]
  /\ pc' = [pc EXCEPT ![p] = "write"]
  /\ UNCHANGED <<lock, locals, count, history, records, faults>>

\* O_APPEND | O_CREAT.
OpenFile(p) ==
  /\ pc[p] = "open"
  /\ files' = [files EXCEPT ![0] = IF @ = None THEN <<>> ELSE @]
  /\ pc' = [pc EXCEPT ![p] = "write"]
  /\ UNCHANGED <<lock, locals, count, history, records, faults>>

\* One os.write of n bytes at the end of the file.
Appended(content, p, n) ==
  LET piece == [record |-> payload[p].record, end |-> Size(content) + n,
                ended |-> offset[p] + n = payload[p].bytes]
  IN  IF offset[p] = 0 THEN Append(content, piece) ELSE Append(Front(content), piece)

WriteBytes(p, n) ==
  /\ pc[p] = "write"
  /\ n <= payload[p].bytes - offset[p]
  /\ ShortWrites \/ n = payload[p].bytes - offset[p]
  /\ files' = [files EXCEPT ![0] = Appended(@, p, n)]
  /\ offset' = [offset EXCEPT ![p] = @ + n]
  /\ pc' = [pc EXCEPT ![p] = IF offset'[p] = payload[p].bytes THEN "done" ELSE "write"]
  /\ UNCHANGED <<lock, payload, step, count, seen, history, records, faults>>

Forget(p) ==
  /\ pc' = [pc EXCEPT ![p] = "idle"]
  /\ payload' = [payload EXCEPT ![p] = None]
  /\ step' = [step EXCEPT ![p] = 0]
  /\ offset' = [offset EXCEPT ![p] = 0]
  /\ seen' = [seen EXCEPT ![p] = 0]

Unlock_Mutant(p) == lock' = IF pc[p] = "done" THEN None ELSE lock
Unlock(p) == lock' = None

\* export returns or raises, in both cases without the lock.
Return(p) ==
  /\ pc[p] \in {"done", "failed"}
  /\ Unlock(p)
  /\ Forget(p)
  /\ IF pc[p] = "done" THEN acked' = Append(acked, payload[p].record) /\ UNCHANGED raised
                       ELSE raised' = raised + 1 /\ UNCHANGED acked
  /\ UNCHANGED <<files, count, swallowed, forgotten, records, faults>>

-----------------------------------------------------------------------------
(* _record_failure, still under the lock *)

ReadHealth(p) ==
  /\ pc[p] = "read_health"
  /\ seen' = [seen EXCEPT ![p] = count]
  /\ pc' = [pc EXCEPT ![p] = "write_health"]
  /\ UNCHANGED <<files, lock, payload, step, offset, count, history, records, faults>>

\* The health file cannot be read or parsed: taken for one without failures.
MisreadHealth(p) ==
  /\ pc[p] = "read_health" /\ faults < MaxFaults
  /\ faults' = faults + 1
  /\ pc' = [pc EXCEPT ![p] = "restart_health"]
  /\ UNCHANGED <<files, lock, locals, count, history, records>>

\* os.replace of the health file by a temporary one, whatever it held.
WriteHealth(p) ==
  /\ \/ pc[p] = "write_health" /\ count' = seen[p] + 1 /\ UNCHANGED forgotten
     \/ pc[p] = "restart_health" /\ count' = 1 /\ forgotten' = forgotten + count
  /\ pc' = [pc EXCEPT ![p] = "failed"]
  /\ UNCHANGED <<files, lock, locals, acked, raised, swallowed, records, faults>>

\* A health file that cannot be written is given up on.
LoseHealth(p) ==
  /\ pc[p] \in {"write_health", "restart_health"} /\ faults < MaxFaults
  /\ faults' = faults + 1
  /\ swallowed' = swallowed + 1
  /\ pc' = [pc EXCEPT ![p] = "failed"]
  /\ UNCHANGED <<files, lock, locals, count, acked, raised, forgotten, records>>

-----------------------------------------------------------------------------
(* The environment *)

SystemCallFails_Mutant(p) ==
  /\ pc[p] \in {"rotate", "open", "write"} /\ faults < MaxFaults
  /\ faults' = faults + 1
  /\ pc' = [pc EXCEPT ![p] = "done"]
  /\ UNCHANGED <<files, lock, locals, count, history, records>>

\* OSError from a system call of _rotate or _write_payload, a full disk for one.
SystemCallFails(p) ==
  /\ pc[p] \in {"rotate", "open", "write"} /\ faults < MaxFaults
  /\ faults' = faults + 1
  /\ pc' = [pc EXCEPT ![p] = "read_health"]
  /\ UNCHANGED <<files, lock, locals, count, history, records>>

\* The lock file cannot be opened: export raises before it could count that.
LockFails(p) ==
  /\ pc[p] = "lock" /\ faults < MaxFaults
  /\ faults' = faults + 1
  /\ Forget(p)
  /\ UNCHANGED <<files, lock, count, history, records>>

\* The process is killed; the kernel releases its lock.
Crash(p) ==
  /\ pc[p] # "idle" /\ faults < MaxFaults
  /\ faults' = faults + 1
  /\ lock' = IF lock = p THEN None ELSE lock
  /\ Forget(p)
  /\ UNCHANGED <<files, count, history, records>>

Step(p) ==
  \/ Lock(p) \/ Rotate(p) \/ OpenFile(p) \/ Return(p) \/ ReadHealth(p) \/ WriteHealth(p)
  \/ \E n \in 1..MaxRecordBytes : WriteBytes(p, n)

Next ==
  \E p \in Procs :
    \/ \E bytes \in Sizes : Export(p, bytes)
    \/ Step(p)
    \/ MisreadHealth(p) \/ LoseHealth(p)
    \/ LockFails(p) \/ SystemCallFails(p) \/ Crash(p)

Spec == Init /\ [][Next]_vars

\* A process that is exporting is scheduled; the kernel grants a free lock.
FairSpec == Spec /\ \A p \in Procs : WF_vars(Step(p))

-----------------------------------------------------------------------------
(* What a reader of the files sees: a line is readable when it is the whole *)
(* of one record, and a torn piece spoils the line it shares with the next. *)

Stored(i) == Pieces(files[i])

Whole(i) ==
  {k \in DOMAIN Stored(i) : Stored(i)[k].ended /\ (k = 1 \/ Stored(i)[k - 1].ended)}

Readable == UNION {{Stored(i)[k].record : k \in Whole(i)} : i \in Indexes}

\* A line with record r comes before one with s, who reads the oldest file first.
Precedes(r, s) ==
  \E i \in Indexes : \E k \in Whole(i) :
    /\ Stored(i)[k].record = r
    /\ \E j \in 0..i : \E l \in Whole(j) : Stored(j)[l].record = s /\ (i = j => k < l)

\* The record of the last piece in the most recent file that has any.
Filled == {i \in Indexes : Pieces(files[i]) # <<>>}
Newest == Last(files[Min(Filled)]).record

(* No file ever grows beyond MaxBytes, torn writes and crashes in the middle *)
(* of a rotation included, so the telemetry stays below                      *)
(* MaxBytes * (BackupCount + 1) (observability.py:99-114).                   *)
FilesBounded == \A i \in Indexes : Size(files[i]) <= MaxBytes

(* What a reader finds changes only at the two ends: a step appends at most *)
(* one record after all others, or drops the oldest ones.  A crash between  *)
(* two renames of a rotation never loses a record out of the middle, puts   *)
(* one there twice or changes the order (observability.py:86-97).           *)
OldestLostFirst ==
  [][LET before == Readable
         after == Readable'
     IN  /\ before \subseteq after \/ after \subseteq before
         /\ \A r \in before \cap after, s \in before : Precedes(r, s) => s \in after
         /\ \A r, s \in before \cap after : Precedes(r, s)' <=> Precedes(r, s)
         /\ \A r \in after \ before : \A s \in after :
              ~Precedes(r, s)' /\ (s # r => Precedes(s, r)')]_files

(* With a backup file, the record written last survives every step: a       *)
(* rotation that is interrupted, repeated or followed by a failed write     *)
(* gives up old files only (observability.py:86-114).                       *)
NewestKept ==
  [][Filled # {} =>
       \E i \in Indexes : \E piece \in Range(Pieces(files'[i])) : piece.record = Newest]_vars

(* When an export returns, its record is in the current file to the last    *)
(* byte: no failure is taken for success (observability.py:99-114, 184-194).*)
AcknowledgedIsComplete ==
  [][acked' # acked =>
       \E piece \in Range(Pieces(files'[0])) :
         piece.ended /\ piece.record = Last(acked')]_vars

(* Every failure raised to a hook from under the lock was counted: it is in  *)
(* the failure counter, or the health file could not be written, or it was   *)
(* in a health file that could not be read, in whose place the code begins a *)
(* new one at 1.  A concurrent failure is never overwritten                  *)
(* (observability.py:116-158, 176-194).                                      *)
FailuresCounted ==
  count + swallowed + forgotten >= raised + Cardinality({p \in Procs : pc[p] = "failed"})

(* Every export comes to an end, also when another process failed or was    *)
(* killed while it held the lock (observability.py:186-194).                *)
ExportReturns == \A p \in Procs : pc[p] = "lock" ~> pc[p] = "idle"
=============================================================================
