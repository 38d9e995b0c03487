------------------------- MODULE JsonlExporter_proofs -------------------------
(***************************************************************************)
(* Any number of hook processes share a telemetry file of any size with    *)
(* any number of backups: the files stay below MaxBytes, every failure is  *)
(* counted, what an export acknowledges is complete, and a rotation, also  *)
(* one that is interrupted, never gives up the newest record.              *)
(***************************************************************************)
EXTENDS JsonlExporter, FiniteSetTheorems, TLAPS

Holding ==
  {"rotate", "open", "write", "done", "failed", "read_health", "write_health",
   "restart_health"}

Content == Seq(Piece)
Payload == [record : Nat, bytes : Nat \ {0}]

Types ==
  /\ files \in [Indexes -> Content \cup {None}]
  /\ pc \in [Procs -> {"idle", "lock"} \cup Holding]
  /\ payload \in [Procs -> Payload \cup {None}]
  /\ step \in [Procs -> Indexes]
  /\ offset \in [Procs -> Nat] /\ seen \in [Procs -> Nat]
  /\ count \in Nat /\ raised \in Nat /\ swallowed \in Nat /\ forgotten \in Nat
  /\ records \in Nat
  /\ acked \in Seq(Nat)

\* A piece of p's record ends the current file.
Begun(p) == Pieces(files[0]) # <<>> /\ Last(files[0]).record = payload[p].record

\* What the one process with the lock knows at each of its system calls.
Knows(p) ==
  /\ pc[p] # "idle" => payload[p] \in Payload
  /\ pc[p] \in Holding => lock = p
  /\ pc[p] = "rotate" => /\ Pieces(files[0]) # <<>>
                         /\ payload[p].bytes <= MaxRecordBytes
                         /\ offset[p] = 0
  /\ pc[p] = "open" => offset[p] = 0 /\ Size(files[0]) + payload[p].bytes <= MaxBytes
  /\ pc[p] = "write" => /\ files[0] # None
                        /\ offset[p] < payload[p].bytes
                        /\ offset[p] > 0 => Begun(p)
                        /\ Size(files[0]) + (payload[p].bytes - offset[p]) <= MaxBytes
  /\ pc[p] = "done" => Begun(p) /\ Last(files[0]).ended
  /\ pc[p] = "write_health" => seen[p] = count
  /\ pc[p] = "failed" => count + swallowed + forgotten >= raised + 1

ExporterInv ==
  /\ Types
  /\ \A p \in Procs : Knows(p)
  /\ FilesBounded
  /\ count + swallowed + forgotten >= raised
-----------------------------------------------------------------------------
(* Files                                                                    *)

\* An absent file is not an empty one.
LEMMA NoFile ==
  /\ <<>> \in Content /\ None \notin Content /\ <<>> # None
  /\ 0 \in Indexes /\ BackupCount \in Indexes /\ BackupCount \in Nat
<1>1. <<>> \in Content
  BY DEF Content
<1>2. None \notin Content
  BY ExporterAssumption DEF Content
<1> QED BY <1>1, <1>2, ExporterAssumption DEF Indexes

\* What a file or its absence contains, and how long it is.
LEMMA Sized ==
  ASSUME NEW content \in Content \cup {None}
  PROVE  /\ Size(content) \in Nat
         /\ Pieces(content) \in Content
         /\ Pieces(content) = <<>> => Size(content) = 0
         /\ content # None => Pieces(content) = content
         /\ Pieces(content) # <<>> => content # None /\ Last(content) \in Piece
<1>1. <<>> \in Content
  BY DEF Content
<1>2. ASSUME content # None, content # <<>>
      PROVE  Len(content) \in DOMAIN content /\ Last(content) \in Piece
  BY <1>2 DEF Content, Last
<1> QED BY <1>1, <1>2 DEF Size, Pieces, Piece

(* One write makes the file longer by the bytes written, ends it with the   *)
(* writer's record and leaves every other piece of the file where it was.   *)
LEMMA AppendedFile ==
  ASSUME ExporterInv, NEW p \in Procs, pc[p] = "write",
         NEW n \in 1..MaxRecordBytes, n <= payload[p].bytes - offset[p],
         NEW content, content = Appended(files[0], p, n)
  PROVE  /\ content \in Content /\ content # <<>> /\ content # None
         /\ Size(content) = Size(files[0]) + n
         /\ Last(content).record = payload[p].record
         /\ Last(content).ended = (offset[p] + n = payload[p].bytes)
         /\ \A j \in DOMAIN files[0] :
              \E k \in DOMAIN content : content[k].record = files[0][j].record
<1> DEFINE piece == [record |-> payload[p].record, end |-> Size(files[0]) + n,
                     ended |-> offset[p] + n = payload[p].bytes]
<1>1. /\ files[0] \in Content /\ files[0] # None /\ Size(files[0]) \in Nat
      /\ offset[p] \in Nat /\ payload[p] \in Payload /\ n \in Nat \ {0}
      /\ offset[p] > 0 => files[0] # <<>> /\ Last(files[0]).record = payload[p].record
  <2>1. 0 \in Indexes /\ files[0] \in Content \cup {None}
    BY ExporterAssumption DEF Indexes, ExporterInv, Types
  <2> QED BY <2>1, Sized, ExporterAssumption DEF ExporterInv, Types, Knows, Begun, Pieces
<1>2. piece \in Piece
  BY <1>1 DEF Piece, Payload
<1>3. content = IF offset[p] = 0 THEN Append(files[0], piece) ELSE Append(Front(files[0]), piece)
  BY DEF Appended
<1> DEFINE base == IF offset[p] = 0 THEN files[0] ELSE Front(files[0])
<1>4. /\ base \in Content /\ content = Append(base, piece)
      /\ offset[p] = 0 => base = files[0]
      /\ offset[p] > 0 => /\ Len(files[0]) = Len(base) + 1
                          /\ \A j \in 1..Len(base) : base[j] = files[0][j]
  BY <1>1, <1>3 DEF Content, Front
<1>5. files[0] \in Content
  BY <1>1
<1> HIDE DEF base
<1>6. /\ content \in Content /\ Len(content) = Len(base) + 1 /\ content # <<>>
      /\ content[Len(base) + 1] = piece
      /\ \A j \in 1..Len(base) : content[j] = base[j]
  BY <1>2, <1>4 DEF Content
<1>7. content # None /\ Last(content) = piece
  BY <1>6, ExporterAssumption DEF Last, Content
<1>8. Size(content) = Size(files[0]) + n
  BY <1>6, <1>7 DEF Size, Pieces
<1>9. \A j \in DOMAIN files[0] :
        \E k \in DOMAIN content : content[k].record = files[0][j].record
  <2> SUFFICES ASSUME NEW j \in DOMAIN files[0]
               PROVE  \E k \in DOMAIN content : content[k].record = files[0][j].record
    OBVIOUS
  <2>1. j \in 1..Len(files[0]) /\ DOMAIN content = 1..(Len(base) + 1) /\ Len(base) \in Nat
    BY <1>4, <1>5, <1>6 DEF Content
  <2>2. CASE j \in 1..Len(base)
    <3>1. content[j] = files[0][j]
      BY <1>4, <1>6, <2>2, <1>1
    <3> QED BY <2>1, <2>2, <3>1
  <2>3. CASE j \notin 1..Len(base)
    <3>1. offset[p] > 0 /\ j = Len(base) + 1 /\ j = Len(files[0])
      BY <1>1, <1>4, <2>1, <2>3
    <3>2. files[0][j].record = payload[p].record
      BY <1>1, <3>1 DEF Last
    <3> QED BY <1>6, <2>1, <3>1, <3>2
  <2> QED BY <2>2, <2>3
<1>10. /\ Last(content).record = payload[p].record
       /\ Last(content).ended = (offset[p] + n = payload[p].bytes)
  <2>1. piece.record = payload[p].record /\ piece.ended = (offset[p] + n = payload[p].bytes)
    OBVIOUS
  <2> HIDE DEF piece
  <2> QED BY <1>7, <2>1
<1> QED BY <1>6, <1>7, <1>8, <1>9, <1>10
-----------------------------------------------------------------------------
(* Every step                                                               *)

(* While p has the lock or nobody has it, the others neither use the file   *)
(* nor count.                                                               *)
LEMMA OthersWait ==
  ASSUME ExporterInv, NEW p \in Procs, NEW q \in Procs \ {p}, lock \in {None, p},
         pc'[q] = pc[q], payload'[q] = payload[q]
  PROVE  Knows(q)'
BY ExporterAssumption DEF ExporterInv, Types, Knows, Holding

(* Who is not touched knows what it knew.                                   *)
LEMMA OthersStay ==
  ASSUME ExporterInv, NEW q \in Procs,
         UNCHANGED <<files, lock, count, raised, swallowed, forgotten>>,
         pc'[q] = pc[q], payload'[q] = payload[q], offset'[q] = offset[q], seen'[q] = seen[q]
  PROVE  Knows(q)'
BY DEF ExporterInv, Knows, Begun

\* The invariant holds before the first export.
LEMMA InitExporter == Init => ExporterInv
<1> SUFFICES ASSUME Init PROVE ExporterInv
  OBVIOUS
<1>1. Types
  BY ExporterAssumption DEF Init, Types, Indexes, Content
<1>2. \A p \in Procs : Knows(p)
  BY DEF Init, Knows, Holding
<1>3. FilesBounded
  BY ExporterAssumption DEF Init, FilesBounded, Size, Pieces
<1> QED BY <1>1, <1>2, <1>3 DEF Init, ExporterInv

\* Beginning an export keeps it.
LEMMA ExportStep ==
  ASSUME ExporterInv, NEW p \in Procs, NEW bytes \in Sizes, Export(p, bytes)
  PROVE  ExporterInv'
<1> USE DEF Export, history
<1>1. Types'
  BY ExporterAssumption DEF ExporterInv, Types, Payload, Holding
<1>2. Knows(p)'
  BY ExporterAssumption DEF ExporterInv, Types, Knows, Payload, Holding
<1>3. ASSUME NEW q \in Procs, q # p PROVE Knows(q)'
  BY <1>3, OthersStay DEF ExporterInv, Types
<1>4. FilesBounded' /\ (count + swallowed + forgotten >= raised)'
  BY DEF ExporterInv, FilesBounded, Size, Pieces
<1> QED BY <1>1, <1>2, <1>3, <1>4 DEF ExporterInv

(* The lock shows the size of the file at its true value: what fits now     *)
(* still fits at the write.                                                 *)
LEMMA LockStep ==
  ASSUME ExporterInv, NEW p \in Procs, Lock(p)
  PROVE  ExporterInv'
<1> USE DEF Lock, history
<1>1. /\ pc'[p] \in {"read_health", "rotate", "open"} /\ offset'[p] = 0
      /\ payload[p] \in Payload /\ lock' = p
      /\ pc'[p] # "read_health" => payload[p].bytes <= MaxRecordBytes
      /\ pc'[p] = "rotate" => MustRotate(p)
      /\ pc'[p] = "open" => ~MustRotate(p)
  BY ExporterAssumption DEF ExporterInv, Types, Knows, Payload
<1>2. Types'
  <2>1. pc' \in [Procs -> {"idle", "lock"} \cup Holding]
    BY <1>1 DEF ExporterInv, Types, Holding
  <2>2. step' \in [Procs -> Indexes] /\ offset' \in [Procs -> Nat]
    BY NoFile DEF ExporterInv, Types
  <2> QED BY <2>1, <2>2 DEF ExporterInv, Types
<1>3. files[0] \in Content \cup {None} /\ files' = files /\ payload' = payload
  <2>1. files[0] \in Content \cup {None}
    BY NoFile DEF ExporterInv, Types
  <2> QED BY <2>1
<1>4. Knows(p)'
  <2>1. pc'[p] = "rotate" => Pieces(files[0]) # <<>>
    BY <1>1, <1>3, Sized DEF MustRotate
  <2>2. pc'[p] = "open" => Size(files[0]) + payload[p].bytes <= MaxBytes
    BY <1>1, <1>3, Sized, ExporterAssumption DEF MustRotate, Payload
  <2>3. (Size(files[0]))' = Size(files[0]) /\ (Pieces(files[0]))' = Pieces(files[0])
    BY <1>3
  <2> QED BY <1>1, <1>3, <2>1, <2>2, <2>3 DEF Knows
<1>5. ASSUME NEW q \in Procs, q # p PROVE Knows(q)'
  BY <1>5, OthersWait DEF ExporterInv, Types, Free
<1>6. FilesBounded' /\ (count + swallowed + forgotten >= raised)'
  BY DEF ExporterInv, FilesBounded
<1> QED BY <1>2, <1>4, <1>5, <1>6 DEF ExporterInv

(* After the last rename there is no current file.                          *)
LEMMA RotateStep ==
  ASSUME ExporterInv, NEW p \in Procs, Rotate(p)
  PROVE  ExporterInv'
<1> USE DEF Rotate, history
<1>1. /\ step[p] \in Indexes /\ 0 \in Indexes /\ lock = p /\ payload[p] \in Payload
      /\ payload[p].bytes <= MaxRecordBytes /\ Pieces(files[0]) # <<>> /\ offset[p] = 0
      /\ BackupCount \in Nat
  BY ExporterAssumption DEF ExporterInv, Types, Knows, Holding, Indexes
<1>2. /\ files' \in [Indexes -> Content \cup {None}]
      /\ \A i \in Indexes : files'[i] = None \/ \E k \in Indexes : files'[i] = files[k]
      /\ step[p] > 0 => files'[0] = files[0]
      /\ step[p] = 0 => files'[0] = None
  <2>1. CASE step[p] = BackupCount
    BY <1>1, <2>1 DEF ExporterInv, Types, Indexes
  <2>2. CASE step[p] # BackupCount /\ files[step[p]] = None
    BY <1>1, <2>2 DEF ExporterInv, Types, Indexes, Shift
  <2>3. CASE step[p] # BackupCount /\ files[step[p]] # None
    <3>1. PICK k \in Indexes : k = step[p] /\ k + 1 \in Indexes /\ k # k + 1
      BY <1>1, <2>3 DEF Indexes
    <3>2. files' = [files EXCEPT ![k] = None, ![k + 1] = files[k]]
      BY <2>3, <3>1 DEF Shift
    <3>3. files \in [Indexes -> Content \cup {None}]
      BY DEF ExporterInv, Types
    <3>4. files' \in [Indexes -> Content \cup {None}]
      BY <3>1, <3>2, <3>3
    <3>5. files'[k] = None /\ files'[k + 1] = files[k]
      BY <3>1, <3>2, <3>3
    <3>6. \A i \in Indexes : i # k /\ i # k + 1 => files'[i] = files[i]
      BY <3>1, <3>2, <3>3
    <3> QED BY <1>1, <3>1, <3>4, <3>5, <3>6 DEF Indexes
  <2> QED BY <2>1, <2>2, <2>3
<1>3. Types'
  <2>1. step' \in [Procs -> Indexes]
    <3>1. step[p] > 0 => step[p] - 1 \in Indexes
      BY <1>1 DEF Indexes
    <3>2. step \in [Procs -> Indexes]
      BY DEF ExporterInv, Types
    <3> QED BY <3>1, <3>2
  <2>2. pc' \in [Procs -> {"idle", "lock"} \cup Holding]
    BY DEF ExporterInv, Types, Holding
  <2> QED BY <1>2, <2>1, <2>2 DEF ExporterInv, Types
<1>4. Knows(p)'
  <2>1. Size(None) = 0
    BY DEF Size, Pieces
  <2>2. CASE step[p] = 0
    BY <1>1, <1>2, <2>1, <2>2, ExporterAssumption DEF ExporterInv, Types, Knows, Payload
  <2>3. CASE step[p] > 0
    BY <1>1, <1>2, <2>3 DEF ExporterInv, Types, Knows
  <2> QED BY <1>1, <2>2, <2>3 DEF Indexes
<1>5. ASSUME NEW q \in Procs, q # p PROVE Knows(q)'
  BY <1>1, <1>5, OthersWait DEF ExporterInv, Types
<1>6. FilesBounded'
  <2>1. Size(None) <= MaxBytes
    BY ExporterAssumption DEF Size, Pieces
  <2> QED BY <1>2, <2>1 DEF ExporterInv, FilesBounded
<1> QED BY <1>3, <1>4, <1>5, <1>6 DEF ExporterInv

\* Opening the file keeps it.
LEMMA OpenStep ==
  ASSUME ExporterInv, NEW p \in Procs, OpenFile(p)
  PROVE  ExporterInv'
<1> USE DEF OpenFile, locals, history
<1>1. /\ 0 \in Indexes /\ lock = p /\ payload[p] \in Payload /\ offset[p] = 0
      /\ Size(files[0]) + payload[p].bytes <= MaxBytes
  BY ExporterAssumption DEF ExporterInv, Types, Knows, Holding, Indexes
<1>2. /\ files' \in [Indexes -> Content \cup {None}] /\ files'[0] # None
      /\ \A i \in Indexes : Size(files'[i]) = Size(files[i])
  <2>1. <<>> \in Content /\ <<>> # None
    BY NoFile
  <2>2. Size(<<>>) = 0 /\ Size(None) = 0
    BY DEF Size, Pieces
  <2> QED BY <1>1, <2>1, <2>2 DEF ExporterInv, Types
<1>3. Types'
  BY <1>2 DEF ExporterInv, Types, Holding
<1>4. Knows(p)'
  BY <1>1, <1>2 DEF ExporterInv, Types, Knows, Payload
<1>5. ASSUME NEW q \in Procs, q # p PROVE Knows(q)'
  BY <1>1, <1>5, OthersWait DEF ExporterInv, Types
<1>6. FilesBounded'
  BY <1>2 DEF ExporterInv, FilesBounded
<1> QED BY <1>3, <1>4, <1>5, <1>6 DEF ExporterInv

\* Writing some bytes keeps it: the bound was checked under the lock.
LEMMA WriteStep ==
  ASSUME ExporterInv, NEW p \in Procs, NEW n \in 1..MaxRecordBytes, WriteBytes(p, n)
  PROVE  ExporterInv'
<1> USE DEF WriteBytes, history
<1>1. /\ 0 \in Indexes /\ lock = p /\ payload[p] \in Payload /\ offset[p] \in Nat
      /\ offset[p] < payload[p].bytes /\ n \in Nat \ {0} /\ Size(files[0]) \in Nat
      /\ Size(files[0]) + (payload[p].bytes - offset[p]) <= MaxBytes
  BY Sized, ExporterAssumption DEF ExporterInv, Types, Knows, Holding, Indexes
<1>2. PICK content : content = Appended(files[0], p, n)
  OBVIOUS
<1>3. /\ content \in Content /\ content # <<>> /\ content # None
      /\ Size(content) = Size(files[0]) + n
      /\ Last(content).record = payload[p].record
      /\ Last(content).ended = (offset[p] + n = payload[p].bytes)
  BY <1>2, AppendedFile
<1>4. files' = [files EXCEPT ![0] = content] /\ files' \in [Indexes -> Content \cup {None}]
  BY <1>1, <1>2, <1>3 DEF ExporterInv, Types
<1>5. /\ offset'[p] = offset[p] + n /\ offset'[p] \in Nat \ {0}
      /\ offset'[p] <= payload[p].bytes
      /\ pc'[p] = IF offset[p] + n = payload[p].bytes THEN "done" ELSE "write"
      /\ payload' = payload /\ files'[0] = content
  BY <1>1, <1>4 DEF ExporterInv, Types, Payload
<1>6. Types'
  BY <1>4, <1>5 DEF ExporterInv, Types, Holding
<1>7. Begun(p)'
  BY <1>3, <1>5 DEF Begun, Pieces
<1>8. Knows(p)'
  <2>1. (Size(files[0]))' = Size(files[0]) + n
    BY <1>3, <1>5
  <2>2. CASE offset[p] + n = payload[p].bytes
    <3>1. Last(content).ended
      BY <1>3, <2>2
    <3> QED BY <1>1, <1>5, <1>7, <2>2, <3>1 DEF Knows
  <2>3. CASE offset[p] + n # payload[p].bytes
    BY <1>1, <1>3, <1>5, <1>7, <2>1, <2>3 DEF Knows, Payload
  <2> QED BY <2>2, <2>3
<1>9. ASSUME NEW q \in Procs, q # p PROVE Knows(q)'
  BY <1>1, <1>9, OthersWait DEF ExporterInv, Types
<1>10. FilesBounded'
  <2>1. Size(content) <= MaxBytes
    BY <1>1, <1>3, ExporterAssumption DEF Payload
  <2> QED BY <1>4, <2>1 DEF ExporterInv, Types, FilesBounded
<1> QED BY <1>6, <1>8, <1>9, <1>10 DEF ExporterInv
(* The remaining steps, Return to Crash, leave the files alone.             *)
LEMMA QuietStep ==
  ASSUME ExporterInv, NEW p \in Procs, UNCHANGED <<files, records>>,
         \/ Return(p) \/ ReadHealth(p) \/ WriteHealth(p)
         \/ MisreadHealth(p) \/ LoseHealth(p) \/ LockFails(p) \/ SystemCallFails(p) \/ Crash(p)
  PROVE  ExporterInv'
<1> USE DEF Forget, Unlock, locals, history, Holding
<1>1. Types'
  <2> USE DEF ExporterInv, Types
  <2>1. ASSUME Forget(p) PROVE /\ pc' \in [Procs -> {"idle", "lock"} \cup Holding]
                              /\ payload' \in [Procs -> Payload \cup {None}]
                              /\ step' \in [Procs -> Indexes] /\ offset' \in [Procs -> Nat]
                              /\ seen' \in [Procs -> Nat]
    BY <2>1, NoFile
  <2>2. CASE Return(p)
    <3>1. pc[p] = "done" => payload[p].record \in Nat
      BY DEF Knows, Payload
    <3>2. acked' \in Seq(Nat) /\ raised' \in Nat
      <4>1. CASE pc[p] = "done"
        <5>1. acked' = Append(acked, payload[p].record) /\ raised' = raised
          BY <2>2, <4>1 DEF Return
        <5>2. acked \in Seq(Nat) /\ raised \in Nat
          OBVIOUS
        <5> QED BY <3>1, <4>1, <5>1, <5>2
      <4>2. CASE pc[p] # "done"
        BY <2>2, <4>2 DEF Return
      <4> QED BY <4>1, <4>2
    <3> QED BY <2>1, <2>2, <3>2 DEF Return
  <2>3. CASE ReadHealth(p)
    BY <2>3 DEF ReadHealth
  <2>4. CASE WriteHealth(p)
    BY <2>4 DEF WriteHealth
  <2>5. CASE LoseHealth(p)
    BY <2>5 DEF LoseHealth
  <2>6. CASE LockFails(p)
    BY <2>1, <2>6 DEF LockFails
  <2>7. CASE SystemCallFails(p)
    BY <2>7 DEF SystemCallFails
  <2>8. CASE Crash(p)
    BY <2>1, <2>8 DEF Crash
  <2>9. CASE MisreadHealth(p)
    BY <2>9 DEF MisreadHealth
  <2> QED BY <2>2, <2>3, <2>4, <2>5, <2>6, <2>7, <2>8, <2>9
<1>2. Knows(p)'
  <2> USE DEF ExporterInv, Types, Knows
  <2>1. CASE pc'[p] = "idle"
    BY <2>1
  <2>2. CASE ReadHealth(p)
    BY <2>2 DEF ReadHealth
  <2>3. CASE WriteHealth(p)
    BY <2>3 DEF WriteHealth
  <2>4. CASE LoseHealth(p)
    BY <2>4 DEF LoseHealth
  <2>5. CASE SystemCallFails(p)
    BY <2>5 DEF SystemCallFails
  <2>6. Return(p) \/ LockFails(p) \/ Crash(p) => pc'[p] = "idle"
    BY DEF Return, LockFails, Crash
  <2>7. CASE MisreadHealth(p)
    BY <2>7 DEF MisreadHealth
  <2> QED BY <2>1, <2>2, <2>3, <2>4, <2>5, <2>6, <2>7
<1>3. ASSUME NEW q \in Procs, q # p PROVE Knows(q)'
  <2>1. pc'[q] = pc[q] /\ payload'[q] = payload[q] /\ offset'[q] = offset[q] /\ seen'[q] = seen[q]
    BY <1>3 DEF Return, ReadHealth, WriteHealth, MisreadHealth, LoseHealth, LockFails,
                SystemCallFails, Crash,
                ExporterInv, Types
  <2>2. CASE lock = p
    BY <1>3, <2>1, <2>2, OthersWait
  <2>3. CASE lock # p
    <3>1. pc[p] \notin Holding
      BY <2>3 DEF ExporterInv, Knows
    <3>2. UNCHANGED <<files, lock, count, raised, swallowed, forgotten>>
      BY <2>3, <3>1 DEF Return, ReadHealth, WriteHealth, MisreadHealth, LoseHealth, LockFails,
                SystemCallFails, Crash
    <3> QED BY <2>1, <3>2, OthersStay
  <2> QED BY <2>2, <2>3
<1>4. (count + swallowed + forgotten >= raised)'
  <2>1. pc[p] = "write_health" => seen[p] = count
    BY DEF ExporterInv, Knows
  <2>2. pc[p] = "failed" => count + swallowed + forgotten >= raised + 1
    BY DEF ExporterInv, Knows
  <2> USE DEF ExporterInv, Types
  <2>3. CASE Return(p)
    BY <2>2, <2>3 DEF Return
  <2>4. CASE WriteHealth(p)
    BY <2>1, <2>4 DEF WriteHealth
  <2>5. CASE LoseHealth(p)
    BY <2>5 DEF LoseHealth
  <2>6. CASE \/ ReadHealth(p) \/ MisreadHealth(p)
            \/ LockFails(p) \/ SystemCallFails(p) \/ Crash(p)
    BY <2>6 DEF ReadHealth, MisreadHealth, LockFails, SystemCallFails, Crash
  <2> QED BY <2>3, <2>4, <2>5, <2>6
<1>5. FilesBounded'
  BY DEF ExporterInv, FilesBounded, Size, Pieces
<1> QED BY <1>1, <1>2, <1>3, <1>4, <1>5 DEF ExporterInv

(* Who leaves the files alone.                                              *)
LEMMA QuietFiles ==
  ASSUME NEW p \in Procs,
         \/ Return(p) \/ ReadHealth(p) \/ WriteHealth(p)
         \/ MisreadHealth(p) \/ LoseHealth(p) \/ LockFails(p) \/ SystemCallFails(p) \/ Crash(p)
  PROVE  UNCHANGED <<files, records>>
BY DEF Return, ReadHealth, WriteHealth, MisreadHealth, LoseHealth, LockFails,
                SystemCallFails, Crash,
       history, locals

\* The invariant is inductive.
LEMMA NextExporter == ExporterInv /\ [Next]_vars => ExporterInv'
<1> SUFFICES ASSUME ExporterInv, [Next]_vars PROVE ExporterInv'
  OBVIOUS
<1>1. CASE UNCHANGED vars
  BY <1>1 DEF vars, locals, history, ExporterInv, Types, Knows, Begun, FilesBounded, Size, Pieces
<1>2. ASSUME NEW p \in Procs, NEW bytes \in Sizes, Export(p, bytes) PROVE ExporterInv'
  BY <1>2, ExportStep
<1>3. ASSUME NEW p \in Procs, Step(p) PROVE ExporterInv'
  BY <1>3, LockStep, RotateStep, OpenStep, WriteStep, QuietStep, QuietFiles DEF Step
<1>4. ASSUME NEW p \in Procs,
             \/ MisreadHealth(p) \/ LoseHealth(p) \/ LockFails(p)
             \/ SystemCallFails(p) \/ Crash(p)
      PROVE  ExporterInv'
  BY <1>4, QuietStep, QuietFiles
<1> QED BY <1>1, <1>2, <1>3, <1>4 DEF Next

\* Files, lock and program counters are in order in every behaviour: only the
\* holder of the lock is past taking it, and it knows the size of the file.
THEOREM ExporterInvariant == Spec => []ExporterInv
<1> QED BY InitExporter, NextExporter, PTL DEF Spec
(* No file grows beyond MaxBytes, whatever is torn and whoever crashes in   *)
(* the middle of a rotation.                                                *)
THEOREM FilesStayBounded == Spec => []FilesBounded
<1>1. ExporterInv => FilesBounded
  BY DEF ExporterInv
<1> QED BY <1>1, ExporterInvariant, PTL

-----------------------------------------------------------------------------
(* Failures and acknowledgements                                            *)

\* At most the holder of the lock has a failure yet to count.
LEMMA OneFails ==
  ASSUME ExporterInv
  PROVE  FailuresCounted
<1> DEFINE failed == {p \in Procs : pc[p] = "failed"}
<1>1. /\ count \in Nat /\ swallowed \in Nat /\ forgotten \in Nat /\ raised \in Nat
      /\ count + swallowed + forgotten >= raised
  BY DEF ExporterInv, Types
<1>2. CASE failed = {}
  <2>1. Cardinality(failed) = 0
    BY <1>2, FS_EmptySet
  <2> QED BY <1>1, <2>1 DEF FailuresCounted
<1>3. CASE failed # {}
  <2>1. failed = {lock} /\ count + swallowed + forgotten >= raised + 1
    BY <1>3 DEF ExporterInv, Knows, Holding
  <2>2. Cardinality(failed) = 1
    BY <2>1, FS_Singleton
  <2> QED BY <1>1, <2>1, <2>2 DEF FailuresCounted
<1> QED BY <1>2, <1>3

(* Failures are counted one at a time under the lock: however many          *)
(* processes fail, a count is overwritten only by one that could not read   *)
(* the health file, and by no more than that file had counted.              *)
THEOREM EveryFailureCounts == Spec => []FailuresCounted
<1> QED BY OneFails, ExporterInvariant, PTL

(* An export that returns left its record in the current file whole: the    *)
(* lock kept every other process out since its first byte.                  *)
THEOREM AcknowledgedIsWhole == Spec => AcknowledgedIsComplete
<1> DEFINE Finished == acked' # acked =>
                      \E piece \in Range(Pieces(files'[0])) :
                        piece.ended /\ piece.record = Last(acked')
<1>1. ASSUME ExporterInv, [Next]_vars PROVE [Finished]_vars
  <2> SUFFICES ASSUME acked' # acked
               PROVE  \E piece \in Range(Pieces(files'[0])) :
                        piece.ended /\ piece.record = Last(acked')
    OBVIOUS
  <2>1. PICK p \in Procs : Return(p) /\ pc[p] = "done"
    BY <1>1 DEF Next, Step, Export, Lock, Rotate, OpenFile, WriteBytes, Return, ReadHealth,
                WriteHealth, MisreadHealth, LoseHealth, LockFails,
                SystemCallFails, Crash, vars, history
  <2>2. /\ files' = files /\ Begun(p) /\ Last(files[0]).ended
        /\ acked' = Append(acked, payload[p].record) /\ acked \in Seq(Nat)
        /\ payload[p].record \in Nat
    BY <1>1, <2>1 DEF Return, ExporterInv, Types, Knows, Payload
  <2>3. Last(acked') = payload[p].record
    BY <2>2 DEF Last
  <2>4. /\ Pieces(files[0]) \in Content /\ Pieces(files[0]) # <<>>
        /\ Pieces(files[0]) = files[0]
    BY <1>1, <2>2, NoFile, Sized DEF ExporterInv, Types, Begun
  <2>5. Last(files[0]) \in Range(Pieces(files[0]))
    BY <2>4 DEF Range, Last, Content
  <2> QED BY <2>2, <2>3, <2>5 DEF Begun
<1> QED BY <1>1, ExporterInvariant, PTL DEF Spec, AcknowledgedIsComplete

-----------------------------------------------------------------------------
(* The newest record                                                        *)

(* Every set of numbers has a smallest one.                                 *)
LEMMA SmallestOf ==
  ASSUME NEW S, S \subseteq Nat, S # {}
  PROVE  \E i \in S : \A j \in S : i <= j
<1> DEFINE R == StrictSubsetOrdering(Nat)
           T == {0..i : i \in S}
<1>1. T \subseteq FiniteSubsetsOf(Nat) /\ T # {}
  <2>1. ASSUME NEW i \in S PROVE 0..i \in SUBSET Nat /\ IsFiniteSet(0..i)
    BY FS_Interval
  <2>2. \A t \in T : t \in SUBSET Nat /\ IsFiniteSet(t)
    BY <2>1
  <2> HIDE DEF T
  <2>3. T \subseteq FiniteSubsetsOf(Nat)
    BY <2>2 DEF FiniteSubsetsOf
  <2>4. T # {}
    BY DEF T
  <2> QED BY <2>3, <2>4
<1>2. PICK t \in T : \A u \in T : ~(<<u, t>> \in R)
  <2>1. IsWellFoundedOn(R, FiniteSubsetsOf(Nat))
    BY FS_StrictSubsetOrderingWellFounded
  <2> HIDE DEF R, T
  <2> QED BY <1>1, <2>1, WFMin
<1>3. PICK i \in S : t = 0..i
  OBVIOUS
<1>4. ASSUME NEW j \in S, j < i PROVE FALSE
  <2>1. /\ 0..j \in T /\ 0..j \in SUBSET Nat /\ 0..i \in SUBSET Nat
        /\ 0..j \subseteq 0..i /\ i \in 0..i /\ i \notin 0..j
    BY <1>4
  <2> QED BY <1>2, <1>3, <2>1 DEF StrictSubsetOrdering
<1> QED BY <1>4

(* The most recent file with anything in it exists when any file has it.    *)
LEMMA NewestFile ==
  ASSUME ExporterInv, Filled # {}
  PROVE  /\ Min(Filled) \in Filled
         /\ \A i \in Filled : Min(Filled) <= i
         /\ Pieces(files[Min(Filled)]) = files[Min(Filled)]
         /\ Last(files[Min(Filled)]) \in Range(files[Min(Filled)])
<1>1. Filled \subseteq Nat
  BY ExporterAssumption DEF Filled, Indexes
<1>2. PICK i \in Filled : \A j \in Filled : i <= j
  BY <1>1, SmallestOf
<1>3. Min(Filled) \in Filled /\ \A j \in Filled : Min(Filled) <= j
  BY <1>2 DEF Min
<1>4. PICK k \in Indexes : k = Min(Filled) /\ Pieces(files[k]) # <<>>
  BY <1>3 DEF Filled
<1>5. files[k] \in Content \cup {None}
  BY DEF ExporterInv, Types
<1>6. files[k] \in Content /\ Pieces(files[k]) = files[k] /\ files[k] # <<>>
  BY <1>4, <1>5, Sized
<1>7. Last(files[k]) \in Range(files[k])
  BY <1>6 DEF Range, Last, Content
<1> QED BY <1>3, <1>4, <1>6, <1>7
(* A rotation with somewhere to move the current file to, an opening and a  *)
(* write keep a piece of the newest record; nobody else touches a file.     *)
LEMMA NewestStays ==
  ASSUME BackupCount >= 1, ExporterInv, [Next]_vars, Filled # {}
  PROVE  \E i \in Indexes : \E piece \in Range(Pieces(files'[i])) : piece.record = Newest
<1> DEFINE m == Min(Filled)
<1>1. /\ m \in Indexes /\ m \in Nat /\ Pieces(files[m]) = files[m] /\ files[m] # <<>>
      /\ Last(files[m]) \in Range(files[m]) /\ Last(files[m]).record = Newest
      /\ Pieces(files[0]) # <<>> => m = 0
  BY NewestFile, NoFile, ExporterAssumption DEF Filled, Newest, Indexes
<1> HIDE DEF m
<1>2. ASSUME NEW i \in Indexes, files'[i] = files[m]
      PROVE  \E k \in Indexes : \E piece \in Range(Pieces(files'[k])) : piece.record = Newest
  BY <1>1, <1>2
<1>3. CASE UNCHANGED files
  BY <1>1, <1>2, <1>3
<1>4. ASSUME NEW p \in Procs, Rotate(p) PROVE \E i \in Indexes : files'[i] = files[m]
  <2>1. /\ m = 0 /\ step[p] \in Indexes /\ files \in [Indexes -> Content \cup {None}]
        /\ 0 \in Indexes /\ 1 \in Indexes /\ BackupCount \in Nat
    BY <1>1, <1>4, NoFile DEF Rotate, ExporterInv, Types, Knows, Indexes
  <2>2. CASE step[p] = BackupCount
    BY <1>4, <2>1, <2>2 DEF Rotate
  <2>3. CASE step[p] # BackupCount /\ step[p] > 0
    <3>1. PICK k \in Indexes : k = step[p] /\ k + 1 \in Indexes /\ k # 0 /\ k + 1 # 0
      BY <2>1, <2>3 DEF Indexes
    <3> QED BY <1>4, <2>1, <2>3, <3>1 DEF Rotate, Shift
  <2>4. CASE step[p] = 0
    BY <1>1, <1>4, <2>1, <2>4 DEF Rotate, Shift, Pieces
  <2> QED BY <2>1, <2>2, <2>3, <2>4 DEF Indexes
<1>5. ASSUME NEW p \in Procs, OpenFile(p) PROVE files'[m] = files[m]
  BY <1>1, <1>5, NoFile DEF OpenFile, ExporterInv, Types, Pieces
<1>6. ASSUME NEW p \in Procs, NEW n \in 1..MaxRecordBytes, WriteBytes(p, n)
      PROVE  \E i \in Indexes : \E piece \in Range(Pieces(files'[i])) : piece.record = Newest
  <2>1. /\ files \in [Indexes -> Content \cup {None}] /\ 0 \in Indexes /\ pc[p] = "write"
        /\ files' = [files EXCEPT ![0] = Appended(files[0], p, n)]
        /\ n <= payload[p].bytes - offset[p]
    BY <1>6, NoFile DEF WriteBytes, ExporterInv, Types
  <2>2. CASE m # 0
    BY <1>1, <1>2, <2>1, <2>2
  <2>3. CASE m = 0
    <3>1. PICK content : content = Appended(files[0], p, n)
      OBVIOUS
    <3>2. /\ content # None
          /\ \A j \in DOMAIN files[0] :
               \E k \in DOMAIN content : content[k].record = files[0][j].record
      BY <2>1, <3>1, AppendedFile
    <3>3. PICK j \in DOMAIN files[0] : files[0][j].record = Newest
      BY <1>1, <2>3 DEF Range
    <3>4. PICK k \in DOMAIN content : content[k].record = Newest
      BY <3>2, <3>3
    <3>5. files'[0] = content
      BY <2>1, <3>1
    <3>6. content[k] \in Range(Pieces(files'[0]))
      BY <3>2, <3>4, <3>5 DEF Range, Pieces
    <3> QED BY <2>1, <3>4, <3>6
  <2> QED BY <2>2, <2>3
<1>7. ASSUME NEW p \in Procs,
             \/ \E bytes \in Sizes : Export(p, bytes)
             \/ Lock(p) \/ Return(p) \/ ReadHealth(p) \/ WriteHealth(p)
             \/ MisreadHealth(p) \/ LoseHealth(p) \/ LockFails(p) \/ SystemCallFails(p) \/ Crash(p)
      PROVE  UNCHANGED files
  BY <1>7, QuietFiles DEF Export, Lock
<1>8. CASE UNCHANGED vars
  BY <1>3, <1>8 DEF vars
<1> QED BY <1>2, <1>3, <1>4, <1>5, <1>6, <1>7, <1>8, <1>1 DEF Next, Step

(* With a backup, nothing costs the newest record: the rotation moves the   *)
(* current file last, onto a name whose file has already moved on.          *)
THEOREM NewestIsKept ==
  ASSUME BackupCount >= 1
  PROVE  Spec => NewestKept
<1>1. ASSUME ExporterInv, [Next]_vars
      PROVE  [Filled # {} =>
                \E i \in Indexes : \E piece \in Range(Pieces(files'[i])) :
                  piece.record = Newest]_vars
  BY <1>1, NewestStays
<1> QED BY <1>1, ExporterInvariant, PTL DEF Spec, NewestKept

-----------------------------------------------------------------------------
(* The readable lines                                                       *)

PieceAt(i, k, r) == i \in Indexes /\ k \in DOMAIN Stored(i) /\ Stored(i)[k].record = r

LineAt(i, k, r) == i \in Indexes /\ k \in Whole(i) /\ Stored(i)[k].record = r

\* No file has a piece of p's record yet.
Unwritten(p) == \A i, k : ~PieceAt(i, k, payload[p].record)

\* Every record has one piece at most and every process a record of its own;
\* what a rotation is about to fill is free, and what a write continues is torn.
RecordsInv ==
  /\ \A i, k, j, l, r : PieceAt(i, k, r) /\ PieceAt(j, l, r) => i = j /\ k = l
  /\ \A i, k, r : PieceAt(i, k, r) => r <= records
  /\ \A p \in Procs : pc[p] # "idle" => payload[p].record <= records
  /\ \A p, q \in Procs :
       pc[p] # "idle" /\ pc[q] # "idle" /\ payload[p].record = payload[q].record => p = q
  /\ \A p \in Procs :
       /\ pc[p] \in {"lock", "rotate", "open"} => Unwritten(p)
       /\ pc[p] = "write" /\ offset[p] = 0 => Unwritten(p)
       /\ pc[p] = "write" /\ offset[p] > 0 => ~Last(files[0]).ended
       /\ pc[p] = "rotate" /\ step[p] < BackupCount => files[step[p] + 1] = None

\* What OldestLostFirst says of a step.
EndsOnly ==
  LET before == Readable
      after == Readable'
  IN  /\ before \subseteq after \/ after \subseteq before
      /\ \A r \in before \cap after, s \in before : Precedes(r, s) => s \in after
      /\ \A r, s \in before \cap after : Precedes(r, s)' <=> Precedes(r, s)
      /\ \A r \in after \ before : \A s \in after :
           ~Precedes(r, s)' /\ (s # r => Precedes(s, r)')

\* What is read and in which order, line by line.
ByLine ==
  /\ \A r : r \in Readable <=> \E i, k : LineAt(i, k, r)
  /\ \A r, s : Precedes(r, s) <=> \E i, k, j, l :
       LineAt(i, k, r) /\ LineAt(j, l, s) /\ (i > j \/ (i = j /\ k < l))
  /\ \A i, k, r : LineAt(i, k, r) => PieceAt(i, k, r)

LEMMA ReadLines == ByLine
<1>1. ASSUME NEW i \in Indexes, NEW j
      PROVE  j \in 0..i <=> j \in Indexes /\ (i > j \/ i = j)
  BY ExporterAssumption DEF Indexes
<1>2. ASSUME NEW r, NEW s
      PROVE  Precedes(r, s) <=> \E i, k, j, l :
               LineAt(i, k, r) /\ LineAt(j, l, s) /\ (i > j \/ (i = j /\ k < l))
  <2>1. ASSUME Precedes(r, s)
        PROVE  \E i, k, j, l :
                 LineAt(i, k, r) /\ LineAt(j, l, s) /\ (i > j \/ (i = j /\ k < l))
    <3>1. PICK i \in Indexes : \E k \in Whole(i) :
            /\ Stored(i)[k].record = r
            /\ \E j \in 0..i : \E l \in Whole(j) :
                 Stored(j)[l].record = s /\ (i = j => k < l)
      BY <2>1 DEF Precedes
    <3>2. PICK k \in Whole(i), j \in 0..i : \E l \in Whole(j) :
            Stored(i)[k].record = r /\ Stored(j)[l].record = s /\ (i = j => k < l)
      BY <3>1
    <3>3. PICK l \in Whole(j) :
            Stored(i)[k].record = r /\ Stored(j)[l].record = s /\ (i = j => k < l)
      BY <3>2
    <3>4. LineAt(i, k, r) /\ LineAt(j, l, s)
      BY <1>1, <3>3 DEF LineAt, PieceAt, Whole
    <3> QED BY <1>1, <3>3, <3>4
  <2>2. ASSUME NEW i, NEW k, NEW j, NEW l, LineAt(i, k, r), LineAt(j, l, s),
               i > j \/ (i = j /\ k < l)
        PROVE  Precedes(r, s)
    <3>1. /\ i \in Indexes /\ k \in Whole(i) /\ Stored(i)[k].record = r
          /\ j \in Indexes /\ l \in Whole(j) /\ Stored(j)[l].record = s
      BY <2>2 DEF LineAt, PieceAt, Whole
    <3>2. j \in 0..i /\ (i = j => k < l)
      BY <1>1, <2>2, <3>1 DEF Indexes
    <3> QED BY <3>1, <3>2 DEF Precedes
  <2> QED BY <2>1, <2>2
<1> QED BY <1>2 DEF ByLine, Readable, LineAt, PieceAt, Whole

\* The same after a step.
LEMMA ReadNext ==
  ASSUME NEW r, NEW s
  PROVE  Precedes(r, s)' <=> \E i, k, j, l :
           LineAt(i, k, r)' /\ LineAt(j, l, s)' /\ (i > j \/ (i = j /\ k < l))
<1>1. ByLine'
  BY ReadLines, PTL
<1> QED BY <1>1 DEF ByLine

(* If the pieces of the files D move to other files in the same order, and  *)
(* those of all older files go, then only the oldest lines are lost.        *)
LEMMA FilesMoved ==
  ASSUME RecordsInv, NEW D \in SUBSET Indexes, NEW g \in [D -> Indexes],
         \A i, j \in D : i < j => g[i] < g[j],
         \A i \in D : Stored(g[i])' = Stored(i),
         \A j \in Indexes : Stored(j)' # <<>> => \E i \in D : j = g[i],
         \A i \in Indexes \ D : Stored(i) = <<>> \/ \A j \in D : j < i
  PROVE  /\ EndsOnly
         /\ \A j, k, r : PieceAt(j, k, r)' => \E i \in D : j = g[i] /\ PieceAt(i, k, r)
<1>0. Indexes \subseteq Nat
  BY ExporterAssumption DEF Indexes
<1>1. \A i \in D : Whole(g[i])' = Whole(i)
  BY DEF Whole
<1>2. \A j, k, r : PieceAt(j, k, r)' => \E i \in D : j = g[i] /\ PieceAt(i, k, r)
  BY DEF PieceAt
<1>3. \A i, k, r : i \in D /\ LineAt(i, k, r) => LineAt(g[i], k, r)'
  BY <1>1 DEF LineAt
<1>4. \A j, k, r : LineAt(j, k, r)' => \E i \in D : j = g[i] /\ LineAt(i, k, r)
  BY <1>1 DEF LineAt, Whole
<1>5. \A i, k, j, l, r : LineAt(i, k, r) /\ LineAt(j, l, r) => i = j /\ k = l
  BY ReadLines DEF ByLine, RecordsInv
<1>6. /\ \A r : r \in Readable <=> \E i, k : LineAt(i, k, r)
      /\ \A r, s : Precedes(r, s) <=> \E i, k, j, l :
           LineAt(i, k, r) /\ LineAt(j, l, s) /\ (i > j \/ (i = j /\ k < l))
      /\ \A i, k, r : LineAt(i, k, r) => i \in Indexes /\ Stored(i) # <<>>
  BY ReadLines DEF ByLine, LineAt, Whole
<1>7. /\ \A r : r \in Readable' <=> \E i, k : LineAt(i, k, r)'
      /\ \A r, s : Precedes(r, s)' <=> \E i, k, j, l :
           LineAt(i, k, r)' /\ LineAt(j, l, s)' /\ (i > j \/ (i = j /\ k < l))
  <2>1. ByLine'
    BY ReadLines, PTL
  <2> QED BY <2>1 DEF ByLine
<1>8. Readable' \subseteq Readable
  BY <1>4, <1>6, <1>7
<1>9. ASSUME NEW r, NEW i, NEW k, LineAt(i, k, r), r \in Readable'
      PROVE  i \in D
  BY <1>4, <1>5, <1>7, <1>9
<1>10. ASSUME NEW r \in Readable', NEW s, Precedes(r, s) PROVE s \in Readable'
  <2>1. PICK i, k, j, l : LineAt(i, k, r) /\ LineAt(j, l, s) /\ (i > j \/ (i = j /\ k < l))
    BY <1>6, <1>10
  <2>2. i \in D /\ i \in Indexes /\ j \in Indexes /\ Stored(j) # <<>>
    BY <1>6, <1>9, <2>1
  <2>3. j \in D
    BY <1>0, <2>1, <2>2
  <2> QED BY <1>3, <1>7, <2>1, <2>3
<1>11. ASSUME NEW r \in Readable', NEW s \in Readable', Precedes(r, s) PROVE Precedes(r, s)'
  <2>1. PICK i, k, j, l : LineAt(i, k, r) /\ LineAt(j, l, s) /\ (i > j \/ (i = j /\ k < l))
    BY <1>6, <1>11
  <2>2. i \in D /\ j \in D
    BY <1>9, <2>1
  <2>3. LineAt(g[i], k, r)' /\ LineAt(g[j], l, s)'
    BY <1>3, <2>1, <2>2
  <2>4. g[i] > g[j] \/ (g[i] = g[j] /\ k < l)
    BY <1>0, <2>1, <2>2
  <2> QED BY <1>7, <2>3, <2>4
<1>12. ASSUME NEW r, NEW s, Precedes(r, s)' PROVE Precedes(r, s)
  <2>1. PICK a, k, b, l : LineAt(a, k, r)' /\ LineAt(b, l, s)' /\ (a > b \/ (a = b /\ k < l))
    BY <1>7, <1>12
  <2>2. PICK i \in D : a = g[i] /\ LineAt(i, k, r)
    BY <1>4, <2>1
  <2>3. PICK j \in D : b = g[j] /\ LineAt(j, l, s)
    BY <1>4, <2>1
  <2>4. i > j \/ (i = j /\ k < l)
    <3>1. i \in Nat /\ j \in Nat /\ g[i] \in Nat /\ g[j] \in Nat
      BY <1>0
    <3>2. (i < j => g[i] < g[j]) /\ (i = j => g[i] = g[j])
      OBVIOUS
    <3>3. (j < i => g[j] < g[i])
      OBVIOUS
    <3> QED BY <2>1, <2>2, <2>3, <3>1, <3>2, <3>3
  <2> QED BY <1>6, <2>2, <2>3, <2>4
<1> QED BY <1>2, <1>8, <1>10, <1>11, <1>12 DEF EndsOnly

(* If one step puts a piece of a record that was not readable behind all    *)
(* others of the current file, then at most that record becomes readable,   *)
(* as the newest.                                                           *)
LEMMA LineAdded ==
  ASSUME RecordsInv, NEW n \in Nat \ {0}, NEW new,
         \A i, k, r : LineAt(i, k, r) => LineAt(i, k, r)' /\ r # new,
         \A i, k, r : LineAt(i, k, r)' =>
           \/ LineAt(i, k, r)
           \/ i = 0 /\ k = n /\ r = new,
         \A k, r : LineAt(0, k, r) => k \in 1..(n - 1)
  PROVE  EndsOnly
<1>0. Indexes \subseteq Nat
  BY ExporterAssumption DEF Indexes
<1>1. /\ \A r : r \in Readable <=> \E i, k : LineAt(i, k, r)
      /\ \A r, s : Precedes(r, s) <=> \E i, k, j, l :
           LineAt(i, k, r) /\ LineAt(j, l, s) /\ (i > j \/ (i = j /\ k < l))
      /\ \A i, k, r : LineAt(i, k, r) => i \in Indexes
  BY ReadLines DEF ByLine, LineAt
<1>2. /\ \A r : r \in Readable' <=> \E i, k : LineAt(i, k, r)'
      /\ \A r, s : Precedes(r, s)' <=> \E i, k, j, l :
           LineAt(i, k, r)' /\ LineAt(j, l, s)' /\ (i > j \/ (i = j /\ k < l))
  <2>1. ByLine'
    BY ReadLines, PTL
  <2> QED BY <2>1 DEF ByLine
<1>3. Readable \subseteq Readable'
  BY <1>1, <1>2
<1>4. ASSUME NEW r \in Readable, NEW s \in Readable PROVE Precedes(r, s)' <=> Precedes(r, s)
  <2>1. r # new /\ s # new
    BY <1>1
  <2>2. /\ \A i, k : LineAt(i, k, r)' <=> LineAt(i, k, r)
        /\ \A i, k : LineAt(i, k, s)' <=> LineAt(i, k, s)
    BY <2>1
  <2>3. ASSUME Precedes(r, s)' PROVE Precedes(r, s)
    <3>1. PICK i, k, j, l : /\ LineAt(i, k, r)' /\ LineAt(j, l, s)'
                            /\ i > j \/ (i = j /\ k < l)
      BY <2>3, ReadNext
    <3>2. LineAt(i, k, r) /\ LineAt(j, l, s)
      BY <2>2, <3>1
    <3> QED BY <1>1, <3>1, <3>2
  <2>4. ASSUME Precedes(r, s) PROVE Precedes(r, s)'
    <3>1. PICK i, k, j, l : /\ LineAt(i, k, r) /\ LineAt(j, l, s)
                            /\ i > j \/ (i = j /\ k < l)
      BY <1>1, <2>4
    <3>2. LineAt(i, k, r)' /\ LineAt(j, l, s)'
      BY <2>2, <3>1
    <3> QED BY <1>2, <3>1, <3>2
  <2> QED BY <2>3, <2>4
<1>5. ASSUME NEW r \in Readable' \ Readable, NEW s \in Readable'
      PROVE  ~Precedes(r, s)' /\ (s # r => Precedes(s, r)')
  <2>1. \A i, k : LineAt(i, k, r)' => i = 0 /\ k = n /\ r = new
    BY <1>1
  <2>2. LineAt(0, n, r)' /\ r = new
    BY <1>2, <2>1
  <2>3. PICK a, b : LineAt(a, b, s)'
    BY <1>2
  <2>4. \A i, k : LineAt(i, k, s)' => i \in Nat /\ (i = 0 => k \in 1..n)
    BY <1>0, <1>1
  <2>5. ~Precedes(r, s)'
    <3> SUFFICES ASSUME NEW i, NEW k, LineAt(i, k, s)', 0 > i \/ (0 = i /\ n < k) PROVE FALSE
      BY <1>2, <2>1
    <3> QED BY <2>4
  <2>6. ASSUME s # r PROVE Precedes(s, r)'
    <3>1. LineAt(a, b, s)
      BY <2>2, <2>3, <2>6
    <3>2. a > 0 \/ (a = 0 /\ b < n)
      <4>1. a \in Nat
        BY <1>0, <1>1, <3>1
      <4>2. a = 0 => b \in 1..(n - 1)
        BY <3>1
      <4> QED BY <4>1, <4>2
    <3>3. \E i, k, j, l : LineAt(i, k, s)' /\ LineAt(j, l, r)' /\ (i > j \/ (i = j /\ k < l))
      BY <2>2, <2>3, <3>2
    <3> QED BY <3>3, ReadNext
  <2> QED BY <2>5, <2>6
<1> QED BY <1>3, <1>4, <1>5 DEF EndsOnly

(* Moving pieces duplicates none and adds none.                             *)
LEMMA PiecesMoved ==
  ASSUME RecordsInv, NEW D \in SUBSET Indexes, NEW g \in [D -> Indexes], records' \in Nat,
         records \in Nat, records <= records',
         \A i, k, r : PieceAt(i, k, r) => r \in Nat,
         \A j, k, r : PieceAt(j, k, r)' => \E i \in D : j = g[i] /\ PieceAt(i, k, r)
  PROVE  /\ \A i, k, j, l, r : PieceAt(i, k, r)' /\ PieceAt(j, l, r)' => i = j /\ k = l
         /\ \A i, k, r : PieceAt(i, k, r)' => r <= records'
         /\ \A p \in Procs : Unwritten(p) /\ payload'[p] = payload[p] => Unwritten(p)'
<1>1. \A i, k, j, l, r : PieceAt(i, k, r)' /\ PieceAt(j, l, r)' => i = j /\ k = l
  BY DEF RecordsInv
<1>2. ASSUME NEW i, NEW k, NEW r, PieceAt(i, k, r)' PROVE r <= records'
  <2>1. PICK j \in D : PieceAt(j, k, r)
    BY <1>2
  <2>2. r \in Nat /\ r <= records
    BY <2>1 DEF RecordsInv
  <2> QED BY <2>2
<1>3. \A p \in Procs : Unwritten(p) /\ payload'[p] = payload[p] => Unwritten(p)'
  BY DEF Unwritten
<1> QED BY <1>1, <1>2, <1>3

\* What is in a file, and that records are numbers.
LEMMA StoredTypes ==
  ASSUME ExporterInv
  PROVE  /\ \A i \in Indexes : Stored(i) \in Content
         /\ \A i, k, r : PieceAt(i, k, r) => r \in Nat /\ k \in 1..Len(Stored(i))
         /\ records \in Nat
         /\ \A p \in Procs : pc[p] # "idle" => payload[p].record \in Nat
<1>1. \A i \in Indexes : Stored(i) \in Content
  BY Sized DEF ExporterInv, Types, Stored
<1>2. ASSUME NEW i, NEW k, NEW r, PieceAt(i, k, r)
      PROVE  r \in Nat /\ k \in 1..Len(Stored(i))
  <2>1. PICK content \in Seq(Piece) : content = Stored(i)
    BY <1>1, <1>2 DEF PieceAt, Content
  <2>2. k \in 1..Len(content) /\ content[k].record = r
    BY <1>2, <2>1 DEF PieceAt
  <2>3. content[k] \in Piece
    BY <2>2
  <2> QED BY <2>1, <2>2, <2>3 DEF Piece
<1> QED BY <1>1, <1>2 DEF ExporterInv, Types, Knows, Payload

(* A step that leaves the contents of all files alone loses no line and     *)
(* adds none.                                                               *)
LEMMA FilesStay ==
  ASSUME ExporterInv, RecordsInv, \A i \in Indexes : Stored(i)' = Stored(i),
         records' \in Nat, records <= records'
  PROVE  /\ EndsOnly
         /\ \A i, k, r : PieceAt(i, k, r)' => PieceAt(i, k, r)
         /\ \A i, k, j, l, r : PieceAt(i, k, r)' /\ PieceAt(j, l, r)' => i = j /\ k = l
         /\ \A i, k, r : PieceAt(i, k, r)' => r <= records'
         /\ \A p \in Procs : Unwritten(p) /\ payload'[p] = payload[p] => Unwritten(p)'
<1>1. PICK g : g = [i \in Indexes |-> i]
  OBVIOUS
<1>2. /\ Indexes \in SUBSET Indexes /\ g \in [Indexes -> Indexes]
      /\ \A i, j \in Indexes : i < j => g[i] < g[j]
      /\ \A i \in Indexes : Stored(g[i])' = Stored(i)
      /\ \A j \in Indexes : Stored(j)' # <<>> => \E i \in Indexes : j = g[i]
  BY <1>1
<1>3. /\ EndsOnly
      /\ \A j, k, r : PieceAt(j, k, r)' => \E i \in Indexes : j = g[i] /\ PieceAt(i, k, r)
  BY <1>2, FilesMoved
<1>4. \A i, k, r : PieceAt(i, k, r)' => PieceAt(i, k, r)
  BY <1>1, <1>3
<1>5. records \in Nat /\ \A i, k, r : PieceAt(i, k, r) => r \in Nat
  BY StoredTypes
<1> QED BY <1>2, <1>3, <1>4, <1>5, PiecesMoved

\* Two processes are not both past the lock.
LEMMA OnlyHolder ==
  ASSUME ExporterInv, NEW p \in Procs, NEW q \in Procs, q # p, pc[p] \in Holding
  PROVE  pc[q] \in {"idle", "lock"}
BY DEF ExporterInv, Types, Knows

(* An export begins with a record nobody else has.                          *)
LEMMA ExportRecords ==
  ASSUME ExporterInv, RecordsInv, NEW p \in Procs, NEW bytes \in Sizes, Export(p, bytes)
  PROVE  EndsOnly /\ RecordsInv'
<1>1. /\ files' = files /\ records' = records + 1 /\ pc[p] = "idle" /\ pc'[p] = "lock"
      /\ payload'[p].record = records + 1 /\ step' = step /\ offset' = offset
      /\ \A q \in Procs : q # p => pc'[q] = pc[q] /\ payload'[q] = payload[q]
  BY DEF Export, ExporterInv, Types
<1>2. records \in Nat /\ \A q \in Procs : pc[q] # "idle" => payload[q].record \in Nat
  BY StoredTypes
<1>3. \A i \in Indexes : Stored(i)' = Stored(i)
  BY <1>1 DEF Stored
<1>4. /\ EndsOnly
      /\ \A i, k, r : PieceAt(i, k, r)' => PieceAt(i, k, r)
      /\ \A i, k, j, l, r : PieceAt(i, k, r)' /\ PieceAt(j, l, r)' => i = j /\ k = l
      /\ \A i, k, r : PieceAt(i, k, r)' => r <= records'
      /\ \A q \in Procs : Unwritten(q) /\ payload'[q] = payload[q] => Unwritten(q)'
  BY <1>1, <1>2, <1>3, FilesStay
<1>5. Unwritten(p)'
  <2>1. PICK r : r = payload'[p].record /\ r = records + 1
    BY <1>1
  <2>2. ASSUME NEW i, NEW k, PieceAt(i, k, r)' PROVE FALSE
    <3>1. r <= records
      BY <1>4, <2>2 DEF RecordsInv
    <3> QED BY <1>2, <2>1, <3>1
  <2> QED BY <2>1, <2>2 DEF Unwritten
<1>6. ASSUME NEW q \in Procs, pc'[q] # "idle" PROVE payload'[q].record <= records'
  BY <1>1, <1>2, <1>6 DEF RecordsInv
<1>7. ASSUME NEW q \in Procs, NEW o \in Procs, pc'[q] # "idle", pc'[o] # "idle",
             payload'[q].record = payload'[o].record
      PROVE  q = o
  <2>1. \A x \in Procs : x # p /\ pc'[x] # "idle" => payload'[x].record # records + 1
    BY <1>1, <1>2 DEF RecordsInv
  <2> QED BY <1>1, <1>7, <2>1 DEF RecordsInv
<1>8. ASSUME NEW q \in Procs
      PROVE  /\ pc'[q] \in {"lock", "rotate", "open"} => Unwritten(q)'
             /\ pc'[q] = "write" /\ offset'[q] = 0 => Unwritten(q)'
             /\ pc'[q] = "write" /\ offset'[q] > 0 => ~Last(files'[0]).ended
             /\ pc'[q] = "rotate" /\ step'[q] < BackupCount => files'[step'[q] + 1] = None
  <2>1. CASE q = p
    BY <1>1, <1>5, <2>1
  <2>2. CASE q # p
    BY <1>1, <1>4, <2>2 DEF RecordsInv
  <2> QED BY <2>1, <2>2
<1> QED BY <1>4, <1>6, <1>7, <1>8 DEF RecordsInv

(* What does not touch a file either keeps its record or is done with it.   *)
LEMMA QuietRecords ==
  ASSUME ExporterInv, RecordsInv, NEW p \in Procs,
         \/ Lock(p) \/ Return(p) \/ ReadHealth(p) \/ WriteHealth(p)
         \/ MisreadHealth(p) \/ LoseHealth(p) \/ LockFails(p) \/ SystemCallFails(p) \/ Crash(p)
  PROVE  EndsOnly /\ RecordsInv'
<1>1. files' = files /\ records' = records
  BY QuietFiles DEF Lock
<1>2. /\ \A q \in Procs : q # p => /\ pc'[q] = pc[q] /\ payload'[q] = payload[q]
                                   /\ step'[q] = step[q] /\ offset'[q] = offset[q]
      /\ \/ pc'[p] \in {"idle", "failed", "read_health", "write_health",
                      "restart_health"}
         \/ pc[p] = "lock" /\ pc'[p] \in {"rotate", "open"} /\ step'[p] = BackupCount
      /\ pc'[p] # "idle" => payload'[p] = payload[p] /\ pc[p] # "idle"
  BY DEF Lock, Return, ReadHealth, WriteHealth, MisreadHealth, LoseHealth, LockFails,
                SystemCallFails, Crash,
         Forget, locals, ExporterInv, Types
<1>3. records \in Nat
  BY StoredTypes
<1>4. \A i \in Indexes : Stored(i)' = Stored(i)
  BY <1>1 DEF Stored
<1>5. /\ EndsOnly
      /\ \A i, k, j, l, r : PieceAt(i, k, r)' /\ PieceAt(j, l, r)' => i = j /\ k = l
      /\ \A i, k, r : PieceAt(i, k, r)' => r <= records'
      /\ \A q \in Procs : Unwritten(q) /\ payload'[q] = payload[q] => Unwritten(q)'
  BY <1>1, <1>3, <1>4, FilesStay
<1>6. /\ \A q \in Procs : pc'[q] # "idle" => payload'[q].record <= records'
      /\ \A q, o \in Procs : pc'[q] # "idle" /\ pc'[o] # "idle"
                              /\ payload'[q].record = payload'[o].record => q = o
  BY <1>1, <1>2 DEF RecordsInv
<1>7. ASSUME NEW q \in Procs
      PROVE  /\ pc'[q] \in {"lock", "rotate", "open"} => Unwritten(q)'
             /\ pc'[q] = "write" /\ offset'[q] = 0 => Unwritten(q)'
             /\ pc'[q] = "write" /\ offset'[q] > 0 => ~Last(files'[0]).ended
             /\ pc'[q] = "rotate" /\ step'[q] < BackupCount => files'[step'[q] + 1] = None
  <2>1. CASE q = p
    <3>1. BackupCount \in Nat
      BY ExporterAssumption
    <3> QED BY <1>2, <1>5, <2>1, <3>1 DEF RecordsInv
  <2>2. CASE q # p
    BY <1>1, <1>2, <1>5, <2>2 DEF RecordsInv
  <2> QED BY <2>1, <2>2
<1> QED BY <1>5, <1>6, <1>7 DEF RecordsInv

(* Opening the file changes no content.                                     *)
LEMMA OpenRecords ==
  ASSUME ExporterInv, RecordsInv, NEW p \in Procs, OpenFile(p)
  PROVE  EndsOnly /\ RecordsInv'
<1>1. /\ records' = records /\ payload' = payload /\ offset' = offset /\ step' = step
      /\ pc[p] = "open" /\ pc' = [pc EXCEPT ![p] = "write"] /\ offset[p] = 0
  BY DEF OpenFile, locals, ExporterInv, Types, Knows
<1>2. /\ files' = [files EXCEPT ![0] = IF files[0] = None THEN <<>> ELSE files[0]]
      /\ files \in [Indexes -> Content \cup {None}] /\ pc \in [Procs -> {"idle", "lock"} \cup Holding]
      /\ 0 \in Indexes
  BY NoFile DEF OpenFile, ExporterInv, Types
<1>3. ASSUME NEW i \in Indexes PROVE Stored(i)' = Stored(i)
  <2>1. Pieces(<<>>) = <<>> /\ Pieces(None) = <<>>
    BY DEF Pieces
  <2> QED BY <1>2, <2>1 DEF Stored
<1>4. records \in Nat
  BY StoredTypes
<1>5. /\ EndsOnly
      /\ \A i, k, j, l, r : PieceAt(i, k, r)' /\ PieceAt(j, l, r)' => i = j /\ k = l
      /\ \A i, k, r : PieceAt(i, k, r)' => r <= records'
      /\ \A q \in Procs : Unwritten(q) /\ payload'[q] = payload[q] => Unwritten(q)'
  BY <1>1, <1>3, <1>4, FilesStay
<1>6. /\ pc'[p] = "write" /\ pc[p] # "idle" /\ pc[p] \in Holding
      /\ \A q \in Procs : q # p => pc'[q] = pc[q]
  BY <1>1, <1>2 DEF Holding
<1>7. /\ \A q \in Procs : pc'[q] # "idle" => payload'[q].record <= records'
      /\ \A q, o \in Procs : pc'[q] # "idle" /\ pc'[o] # "idle"
                              /\ payload'[q].record = payload'[o].record => q = o
  BY <1>1, <1>6 DEF RecordsInv
<1>8. ASSUME NEW q \in Procs
      PROVE  /\ pc'[q] \in {"lock", "rotate", "open"} => Unwritten(q)'
             /\ pc'[q] = "write" /\ offset'[q] = 0 => Unwritten(q)'
             /\ pc'[q] = "write" /\ offset'[q] > 0 => ~Last(files'[0]).ended
             /\ pc'[q] = "rotate" /\ step'[q] < BackupCount => files'[step'[q] + 1] = None
  <2>1. CASE q = p
    BY <1>1, <1>5, <1>6, <2>1 DEF RecordsInv
  <2>2. CASE q # p
    <3>1. pc'[q] \in {"idle", "lock"} /\ pc'[q] = pc[q]
      BY <1>6, <2>2, OnlyHolder
    <3> QED BY <1>1, <1>5, <3>1 DEF RecordsInv
  <2> QED BY <2>1, <2>2
<1> QED BY <1>5, <1>7, <1>8 DEF RecordsInv

(* While a rotation moves the files up one by one, the place it moves the   *)
(* next one to is free: only the oldest file goes.                          *)
LEMMA RotateRecords ==
  ASSUME ExporterInv, RecordsInv, NEW p \in Procs, Rotate(p)
  PROVE  EndsOnly /\ RecordsInv'
<1>1. /\ records' = records /\ payload' = payload /\ offset' = offset
      /\ pc[p] = "rotate" /\ pc[p] \in Holding /\ step \in [Procs -> Indexes]
      /\ files \in [Indexes -> Content \cup {None}] /\ pc \in [Procs -> {"idle", "lock"} \cup Holding]
      /\ \/ pc' = [pc EXCEPT ![p] = "open"]
         \/ step[p] > 0 /\ step' = [step EXCEPT ![p] = step[p] - 1] /\ pc' = pc
  BY DEF Rotate, ExporterInv, Types, Holding
<1>2. PICK k \in Indexes : k = step[p]
  BY <1>1
<1>3. /\ Indexes = 0..BackupCount /\ BackupCount \in Nat /\ k \in Nat
      /\ BackupCount \in Indexes /\ k < BackupCount => files[k + 1] = None /\ k + 1 \in Indexes
  BY <1>1, <1>2, ExporterAssumption DEF Indexes, RecordsInv
<1>4. \E D \in SUBSET Indexes : \E g \in [D -> Indexes] :
        /\ \A i, j \in D : i < j => g[i] < g[j]
        /\ \A i \in D : Stored(g[i])' = Stored(i)
        /\ \A j \in Indexes : Stored(j)' # <<>> => \E i \in D : j = g[i]
        /\ \A i \in Indexes \ D : Stored(i) = <<>> \/ \A j \in D : j < i
  <2>0. Pieces(None) = <<>>
    BY DEF Pieces
  <2>1. CASE k = BackupCount
    <3>1. files' = [files EXCEPT ![BackupCount] = None]
      BY <1>2, <2>1 DEF Rotate
    <3>2. Stored(BackupCount)' = <<>>
      BY <1>1, <1>3, <2>0, <3>1 DEF Stored
    <3>3. PICK D \in SUBSET Indexes : D = Indexes \ {BackupCount}
      OBVIOUS
    <3>4. PICK g \in [D -> Indexes] : \A i \in D : g[i] = i
      <4>1. [i \in D |-> i] \in [D -> Indexes]
        OBVIOUS
      <4> QED BY <4>1
    <3>5. \A i \in D : Stored(i)' = Stored(i) /\ i < BackupCount
      BY <1>1, <1>3, <3>1, <3>3 DEF Stored
    <3>6. \A j \in Indexes : Stored(j)' # <<>> => \E i \in D : j = g[i]
      BY <3>2, <3>3, <3>4
    <3> QED BY <3>3, <3>4, <3>5, <3>6
  <2>2. CASE k # BackupCount /\ files[k] = None
    <3>1. files' = files
      BY <1>2, <2>2 DEF Rotate, Shift
    <3>2. PICK g \in [Indexes -> Indexes] : \A i \in Indexes : g[i] = i
      <4>1. [i \in Indexes |-> i] \in [Indexes -> Indexes]
        OBVIOUS
      <4> QED BY <4>1
    <3> QED BY <3>1, <3>2 DEF Stored
  <2>3. CASE k # BackupCount /\ files[k] # None
    <3>1. files' = [files EXCEPT ![k] = None, ![k + 1] = files[k]]
      BY <1>2, <2>3 DEF Rotate, Shift
    <3>2. k + 1 \in Indexes /\ k + 1 # k /\ files[k + 1] = None
      BY <1>3, <2>3
    <3>3. Stored(k)' = <<>> /\ Stored(k + 1)' = Stored(k) /\ Stored(k + 1) = <<>>
      BY <1>1, <2>0, <3>1, <3>2 DEF Stored
    <3>4. PICK D \in SUBSET Indexes : D = Indexes \ {k + 1}
      OBVIOUS
    <3>5. PICK g \in [D -> Indexes] : \A i \in D : g[i] = IF i = k THEN k + 1 ELSE i
      <4>1. [i \in D |-> IF i = k THEN k + 1 ELSE i] \in [D -> Indexes]
        BY <3>2
      <4> QED BY <4>1
    <3>6. ASSUME NEW i \in D, i # k PROVE Stored(i)' = Stored(i)
      BY <1>1, <3>1, <3>2, <3>4, <3>6 DEF Stored
    <3>7. \A i \in D : Stored(g[i])' = Stored(i)
      BY <3>3, <3>5, <3>6
    <3>8. \A j \in Indexes : Stored(j)' # <<>> => \E i \in D : j = g[i]
      BY <3>2, <3>3, <3>4, <3>5
    <3>9. \A i, j \in D : i < j => g[i] < g[j]
      BY <1>3, <3>4, <3>5
    <3> QED BY <3>3, <3>4, <3>7, <3>8, <3>9
  <2> QED BY <2>1, <2>2, <2>3
<1>5. PICK D \in SUBSET Indexes : \E g \in [D -> Indexes] :
        /\ \A i, j \in D : i < j => g[i] < g[j]
        /\ \A i \in D : Stored(g[i])' = Stored(i)
        /\ \A j \in Indexes : Stored(j)' # <<>> => \E i \in D : j = g[i]
        /\ \A i \in Indexes \ D : Stored(i) = <<>> \/ \A j \in D : j < i
  BY <1>4
<1>6. PICK g \in [D -> Indexes] :
        /\ EndsOnly
        /\ \A j, l, r : PieceAt(j, l, r)' => \E i \in D : j = g[i] /\ PieceAt(i, l, r)
  BY <1>5, FilesMoved
<1>7. records \in Nat /\ records' \in Nat /\ records <= records'
      /\ \A i, l, r : PieceAt(i, l, r) => r \in Nat
  BY <1>1, StoredTypes
<1>8. /\ \A i, l, j, m, r : PieceAt(i, l, r)' /\ PieceAt(j, m, r)' => i = j /\ l = m
      /\ \A i, l, r : PieceAt(i, l, r)' => r <= records'
      /\ \A q \in Procs : Unwritten(q) /\ payload'[q] = payload[q] => Unwritten(q)'
  BY <1>6, <1>7, PiecesMoved
<1>9. /\ pc'[p] \in {"rotate", "open"} /\ pc[p] # "idle"
      /\ \A q \in Procs : q # p => pc'[q] = pc[q]
  BY <1>1
<1>10. /\ \A q \in Procs : pc'[q] # "idle" => payload'[q].record <= records'
       /\ \A q, o \in Procs : pc'[q] # "idle" /\ pc'[o] # "idle"
                               /\ payload'[q].record = payload'[o].record => q = o
  BY <1>1, <1>9 DEF RecordsInv
<1>11. pc'[p] = "rotate" => files'[step'[p] + 1] = None
  <2> SUFFICES ASSUME pc'[p] = "rotate" PROVE files'[step'[p] + 1] = None
    OBVIOUS
  <2>1. step'[p] = k - 1 /\ k > 0
    BY <1>1, <1>2
  <2>2. files'[k] = None
    <3>1. CASE k = BackupCount
      BY <1>1, <1>2, <1>3, <3>1 DEF Rotate
    <3>2. CASE k # BackupCount
      BY <1>1, <1>2, <1>3, <3>2 DEF Rotate, Shift
    <3> QED BY <3>1, <3>2
  <2> QED BY <1>3, <2>1, <2>2
<1>12. ASSUME NEW q \in Procs
       PROVE  /\ pc'[q] \in {"lock", "rotate", "open"} => Unwritten(q)'
              /\ pc'[q] = "write" /\ offset'[q] = 0 => Unwritten(q)'
              /\ pc'[q] = "write" /\ offset'[q] > 0 => ~Last(files'[0]).ended
              /\ pc'[q] = "rotate" /\ step'[q] < BackupCount => files'[step'[q] + 1] = None
  <2>1. CASE q = p
    BY <1>1, <1>8, <1>9, <1>11, <2>1 DEF RecordsInv
  <2>2. CASE q # p
    <3>1. pc'[q] \in {"idle", "lock"} /\ pc'[q] = pc[q]
      BY <1>1, <1>9, <2>2, OnlyHolder
    <3> QED BY <1>1, <1>8, <3>1 DEF RecordsInv
  <2> QED BY <2>1, <2>2
<1> QED BY <1>6, <1>8, <1>10, <1>12 DEF RecordsInv

(* A write ends the current file with a piece of the writer's record, a new *)
(* piece or the longer form of the torn one it began.                       *)
LEMMA AppendedPieces ==
  ASSUME ExporterInv, RecordsInv, NEW p \in Procs, pc[p] = "write",
         NEW n \in 1..MaxRecordBytes, n <= payload[p].bytes - offset[p],
         NEW content, content = Appended(files[0], p, n)
  PROVE  \E m \in Nat \ {0} :
           /\ DOMAIN content = 1..m /\ content[m].record = payload[p].record
           /\ content[m].ended = (offset[p] + n = payload[p].bytes)
           /\ Last(content).ended = content[m].ended
           /\ \A j \in 1..(m - 1) : content[j] = files[0][j]
           /\ \/ DOMAIN files[0] = 1..(m - 1) /\ Unwritten(p)
              \/ /\ DOMAIN files[0] = 1..m /\ files[0][m].record = payload[p].record
                 /\ ~files[0][m].ended
<1> DEFINE piece == [record |-> payload[p].record, end |-> Size(files[0]) + n,
                     ended |-> offset[p] + n = payload[p].bytes]
<1>1. /\ files[0] \in Content /\ offset[p] \in Nat /\ payload[p] \in Payload
      /\ Size(files[0]) \in Nat /\ n \in Nat
      /\ offset[p] > 0 => /\ files[0] # <<>> /\ Last(files[0]).record = payload[p].record
                          /\ ~Last(files[0]).ended
      /\ offset[p] = 0 => Unwritten(p)
  <2>1. 0 \in Indexes /\ files[0] \in Content \cup {None}
    BY ExporterAssumption DEF Indexes, ExporterInv, Types
  <2> QED BY <2>1, Sized, ExporterAssumption
          DEF ExporterInv, Types, Knows, Begun, Pieces, RecordsInv
<1>2. piece \in Piece /\ piece.record = payload[p].record
      /\ piece.ended = (offset[p] + n = payload[p].bytes)
  BY <1>1 DEF Piece, Payload
<1>3. content = IF offset[p] = 0 THEN Append(files[0], piece) ELSE Append(Front(files[0]), piece)
  BY DEF Appended
<1>4. CASE offset[p] = 0
  <2>1. PICK m \in Nat \ {0} : m = Len(files[0]) + 1
    BY <1>1 DEF Content
  <2> HIDE DEF piece
  <2>2. /\ DOMAIN content = 1..m /\ content[m] = piece /\ DOMAIN files[0] = 1..(m - 1)
        /\ Len(content) = m /\ \A j \in 1..(m - 1) : content[j] = files[0][j]
    BY <1>1, <1>2, <1>3, <1>4, <2>1 DEF Content
  <2>3. Last(content) = content[m]
    BY <2>2 DEF Last
  <2> QED BY <1>1, <1>2, <1>4, <2>2, <2>3
<1>5. CASE offset[p] > 0
  <2>1. PICK m \in Nat \ {0} : m = Len(files[0])
    BY <1>1, <1>5 DEF Content
  <2> HIDE DEF piece
  <2>2. PICK base \in Content : /\ base = Front(files[0]) /\ Len(base) = m - 1
                               /\ \A j \in 1..(m - 1) : base[j] = files[0][j]
    <3>1. PICK h \in Seq(Piece) : h = files[0] /\ Len(h) = m
      BY <1>1, <2>1 DEF Content
    <3>2. PICK last \in Nat : last = m - 1 /\ last <= Len(h)
      BY <3>1
    <3>3. SubSeq(h, 1, last) \in Seq(Piece) /\ Len(SubSeq(h, 1, last)) = last
          /\ \A j \in 1..last : SubSeq(h, 1, last)[j] = h[j]
      BY <3>1, <3>2
    <3>4. Front(files[0]) = SubSeq(h, 1, last)
      BY <3>1, <3>2 DEF Front
    <3> QED BY <3>1, <3>2, <3>3, <3>4 DEF Content
  <2>3. content = Append(base, piece)
    BY <1>3, <1>5, <2>2
  <2>4. /\ DOMAIN content = 1..m /\ content[m] = piece /\ DOMAIN files[0] = 1..m
        /\ Len(content) = m /\ \A j \in 1..(m - 1) : content[j] = files[0][j]
    BY <1>1, <1>2, <2>1, <2>2, <2>3 DEF Content
  <2>5. Last(content) = content[m] /\ Last(files[0]) = files[0][m]
    BY <2>1, <2>4 DEF Last
  <2> QED BY <1>1, <1>2, <1>5, <2>4, <2>5
<1> QED BY <1>1, <1>4, <1>5

(* A write makes at most the writer's record readable.                      *)
LEMMA WriteRecords ==
  ASSUME ExporterInv, RecordsInv, NEW p \in Procs, NEW n \in 1..MaxRecordBytes,
         WriteBytes(p, n)
  PROVE  EndsOnly /\ RecordsInv'
<1>1. /\ records' = records /\ payload' = payload /\ step' = step
      /\ pc[p] = "write" /\ pc[p] \in Holding /\ pc[p] # "idle" /\ 0 \in Indexes
      /\ files \in [Indexes -> Content \cup {None}] /\ files[0] # None
      /\ n <= payload[p].bytes - offset[p] /\ n \in Nat \ {0}
      /\ files' = [files EXCEPT ![0] = Appended(files[0], p, n)]
      /\ offset'[p] = offset[p] + n /\ offset[p] \in Nat
      /\ pc'[p] = IF offset[p] + n = payload[p].bytes THEN "done" ELSE "write"
      /\ \A q \in Procs : q # p => pc'[q] = pc[q]
  BY NoFile, ExporterAssumption DEF WriteBytes, ExporterInv, Types, Knows, Holding
<1>2. PICK content, new : content = Appended(files[0], p, n) /\ new = payload[p].record
  OBVIOUS
<1>3. PICK m \in Nat \ {0} :
        /\ DOMAIN content = 1..m /\ content[m].record = new
        /\ content[m].ended = (offset[p] + n = payload[p].bytes)
        /\ Last(content).ended = content[m].ended
        /\ \A j \in 1..(m - 1) : content[j] = files[0][j]
        /\ \/ DOMAIN files[0] = 1..(m - 1) /\ Unwritten(p)
           \/ /\ DOMAIN files[0] = 1..m /\ files[0][m].record = new
              /\ ~files[0][m].ended
  <2>1. n \in 1..MaxRecordBytes /\ n <= payload[p].bytes - offset[p] /\ pc[p] = "write"
    BY <1>1
  <2> QED BY <1>2, <2>1, AppendedPieces
<1>4. content # None
  BY <1>1, <1>2, AppendedFile
<1>5. /\ Stored(0)' = content /\ Stored(0) = files[0] /\ files'[0] = content
      /\ \A i \in Indexes : i # 0 => Stored(i)' = Stored(i)
  BY <1>1, <1>2, <1>4 DEF Stored, Pieces
<1>6. \A i, k : PieceAt(i, k, new) => i = 0 /\ k = m /\ ~files[0][m].ended
  <2>1. CASE DOMAIN files[0] = 1..(m - 1) /\ Unwritten(p)
    BY <1>2, <2>1 DEF Unwritten
  <2>2. CASE DOMAIN files[0] = 1..m /\ files[0][m].record = new /\ ~files[0][m].ended
    <3>1. PieceAt(0, m, new)
      BY <1>1, <1>5, <2>2 DEF PieceAt
    <3> QED BY <2>2, <3>1 DEF RecordsInv
  <2> QED BY <1>3, <2>1, <2>2
<1>7. \A i, k, r : PieceAt(i, k, r)' => PieceAt(i, k, r) \/ (i = 0 /\ k = m /\ r = new)
  <2> SUFFICES ASSUME NEW i, NEW k, NEW r, PieceAt(i, k, r)'
               PROVE  PieceAt(i, k, r) \/ (i = 0 /\ k = m /\ r = new)
    OBVIOUS
  <2>1. CASE i = 0
    <3>1. k \in 1..m /\ content[k].record = r
      BY <1>3, <1>5, <2>1 DEF PieceAt
    <3>2. CASE k = m
      BY <1>3, <2>1, <3>1, <3>2
    <3>3. CASE k # m
      <4>1. k \in 1..(m - 1) /\ k \in DOMAIN files[0] /\ content[k] = files[0][k]
        BY <1>3, <3>1, <3>3
      <4> QED BY <1>1, <1>5, <2>1, <3>1, <4>1 DEF PieceAt
    <3> QED BY <3>2, <3>3
  <2>2. CASE i # 0
    BY <1>5, <2>2 DEF PieceAt
  <2> QED BY <2>1, <2>2
<1>8. ASSUME NEW k \in 1..(m - 1) PROVE k \in Whole(0)' <=> k \in Whole(0)
  <2>1. content[k] = files[0][k] /\ k \in DOMAIN content /\ k \in DOMAIN files[0]
    BY <1>3
  <2>2. k # 1 => content[k - 1] = files[0][k - 1]
    BY <1>3
  <2> QED BY <1>5, <2>1, <2>2 DEF Whole
<1>9. /\ \A k \in Whole(0)' : k \in 1..m
      /\ \A k \in Whole(0) : k \in 1..(m - 1)
  <2>1. \A k \in Whole(0)' : k \in 1..m
    BY <1>3, <1>5 DEF Whole
  <2>2. \A k \in Whole(0) : k \in DOMAIN files[0] /\ files[0][k].ended
    BY <1>5 DEF Whole
  <2> QED BY <1>3, <2>1, <2>2
<1>10. \A i, k, r : LineAt(i, k, r) => LineAt(i, k, r)' /\ r # new
  <2> SUFFICES ASSUME NEW i, NEW k, NEW r, LineAt(i, k, r)
               PROVE  LineAt(i, k, r)' /\ r # new
    OBVIOUS
  <2>1. CASE i = 0
    <3>1. k \in 1..(m - 1) /\ k \in Whole(0) /\ k \in Whole(0)' /\ content[k] = files[0][k]
      BY <1>3, <1>8, <1>9, <2>1 DEF LineAt
    <3>2. LineAt(i, k, r)'
      BY <1>1, <1>5, <2>1, <3>1 DEF LineAt
    <3>3. PieceAt(i, k, r)
      BY ReadLines DEF ByLine
    <3> QED BY <1>6, <3>1, <3>2, <3>3
  <2>2. CASE i # 0
    <3>1. PieceAt(i, k, r)
      BY ReadLines DEF ByLine
    <3>2. LineAt(i, k, r)'
      BY <1>5, <2>2 DEF LineAt, Whole
    <3> QED BY <1>6, <2>2, <3>1, <3>2
  <2> QED BY <2>1, <2>2
<1>11. \A i, k, r : LineAt(i, k, r)' => LineAt(i, k, r) \/ (i = 0 /\ k = m /\ r = new)
  <2> SUFFICES ASSUME NEW i, NEW k, NEW r, LineAt(i, k, r)'
               PROVE  LineAt(i, k, r) \/ (i = 0 /\ k = m /\ r = new)
    OBVIOUS
  <2>1. CASE i = 0
    <3>1. k \in 1..m /\ k \in Whole(0)' /\ content[k].record = r
      BY <1>5, <1>9, <2>1 DEF LineAt
    <3>2. CASE k = m
      BY <1>3, <2>1, <3>1, <3>2
    <3>3. CASE k # m
      <4>1. k \in 1..(m - 1) /\ k \in Whole(0) /\ content[k] = files[0][k]
        BY <1>3, <1>8, <3>1, <3>3
      <4> QED BY <1>1, <1>5, <2>1, <3>1, <4>1 DEF LineAt
    <3> QED BY <3>2, <3>3
  <2>2. CASE i # 0
    BY <1>5, <2>2 DEF LineAt, Whole
  <2> QED BY <2>1, <2>2
<1>12. EndsOnly
  <2>1. \A k, r : LineAt(0, k, r) => k \in 1..(m - 1)
    BY <1>9 DEF LineAt
  <2> QED BY <1>10, <1>11, <2>1, LineAdded
<1>13. \A i, k, j, l, r : PieceAt(i, k, r)' /\ PieceAt(j, l, r)' => i = j /\ k = l
  <2> SUFFICES ASSUME NEW i, NEW k, NEW j, NEW l, NEW r, PieceAt(i, k, r)', PieceAt(j, l, r)'
               PROVE  i = j /\ k = l
    OBVIOUS
  <2>1. CASE r = new
    BY <1>6, <1>7, <2>1
  <2>2. CASE r # new
    BY <1>7, <2>2 DEF RecordsInv
  <2> QED BY <2>1, <2>2
<1>14. \A i, k, r : PieceAt(i, k, r)' => r <= records'
  <2>1. new <= records
    BY <1>1, <1>2 DEF RecordsInv
  <2> QED BY <1>1, <1>7, <2>1 DEF RecordsInv
<1>15. ASSUME NEW q \in Procs, q # p, Unwritten(q), pc[q] # "idle" PROVE Unwritten(q)'
  <2>1. PICK r : r = payload[q].record /\ r = payload'[q].record
    BY <1>1
  <2>2. r # new
    BY <1>1, <1>2, <1>15, <2>1 DEF RecordsInv
  <2>3. \A i, k : ~PieceAt(i, k, r)'
    BY <1>7, <1>15, <2>1, <2>2 DEF Unwritten
  <2> QED BY <2>1, <2>3 DEF Unwritten
<1>16. /\ \A q \in Procs : pc'[q] # "idle" => payload'[q].record <= records'
       /\ \A q, o \in Procs : pc'[q] # "idle" /\ pc'[o] # "idle"
                               /\ payload'[q].record = payload'[o].record => q = o
  BY <1>1 DEF RecordsInv
<1>17. ASSUME NEW q \in Procs
       PROVE  /\ pc'[q] \in {"lock", "rotate", "open"} => Unwritten(q)'
              /\ pc'[q] = "write" /\ offset'[q] = 0 => Unwritten(q)'
              /\ pc'[q] = "write" /\ offset'[q] > 0 => ~Last(files'[0]).ended
              /\ pc'[q] = "rotate" /\ step'[q] < BackupCount => files'[step'[q] + 1] = None
  <2>1. CASE q = p
    <3>1. offset'[p] # 0
      BY <1>1
    <3>2. pc'[p] = "write" => ~Last(content).ended
      BY <1>1, <1>3
    <3> QED BY <1>1, <1>5, <2>1, <3>1, <3>2
  <2>2. CASE q # p
    <3>1. pc'[q] \in {"idle", "lock"} /\ pc'[q] = pc[q]
      BY <1>1, <2>2, OnlyHolder
    <3> QED BY <1>15, <2>2, <3>1 DEF RecordsInv
  <2> QED BY <2>1, <2>2
<1> QED BY <1>12, <1>13, <1>14, <1>16, <1>17 DEF RecordsInv

\* At first there is no record.
LEMMA InitRecords == Init => RecordsInv
BY DEF Init, RecordsInv, PieceAt, Stored, Pieces

\* The invariant of the records is inductive, and its steps lose oldest lines only.
LEMMA NextRecords ==
  ASSUME ExporterInv, RecordsInv, [Next]_vars
  PROVE  RecordsInv' /\ [EndsOnly]_vars
<1>1. ASSUME UNCHANGED vars PROVE RecordsInv'
  BY <1>1 DEF vars, locals, RecordsInv, PieceAt, Unwritten, Stored
<1>2. ASSUME NEW p \in Procs, NEW bytes \in Sizes, Export(p, bytes)
      PROVE  EndsOnly /\ RecordsInv'
  BY <1>2, ExportRecords
<1>3. ASSUME NEW p \in Procs, Step(p) PROVE EndsOnly /\ RecordsInv'
  BY <1>3, QuietRecords, RotateRecords, OpenRecords, WriteRecords DEF Step
<1>4. ASSUME NEW p \in Procs,
             \/ MisreadHealth(p) \/ LoseHealth(p) \/ LockFails(p)
             \/ SystemCallFails(p) \/ Crash(p)
      PROVE  EndsOnly /\ RecordsInv'
  BY <1>4, QuietRecords
<1> QED BY <1>1, <1>2, <1>3, <1>4 DEF Next

(* What a reader finds changes at its two ends only: a record in the middle *)
(* is never lost, moved or doubled, whatever is torn, interrupted in a      *)
(* rotation or killed, however many processes and backups there are.        *)
THEOREM OldestGoFirst == Spec => OldestLostFirst
<1>1. Init => ExporterInv /\ RecordsInv
  BY InitExporter, InitRecords
<1>2. ExporterInv /\ RecordsInv /\ [Next]_vars
        => (ExporterInv /\ RecordsInv)' /\ [EndsOnly]_vars
  BY NextExporter, NextRecords
<1>3. [EndsOnly]_vars =>
        [LET before == Readable
             after == Readable'
         IN  /\ before \subseteq after \/ after \subseteq before
             /\ \A r \in before \cap after, s \in before : Precedes(r, s) => s \in after
             /\ \A r, s \in before \cap after : Precedes(r, s)' <=> Precedes(r, s)
             /\ \A r \in after \ before : \A s \in after :
                  ~Precedes(r, s)' /\ (s # r => Precedes(s, r)')]_files
  BY DEF EndsOnly, vars
<1> QED BY <1>1, <1>2, <1>3, PTL DEF Spec, OldestLostFirst
=============================================================================
