---------------------------- MODULE SubmissionLog ----------------------------
(***************************************************************************)
(* submissions.jsonl under crashes: repair_jsonl_tail at the start of an   *)
(* epoch, append_jsonl_fsync for every row, and the reader that replay     *)
(* uses.  Ticks hold the tick lock, so one process at a time is inside     *)
(* run_epoch; a kill or a loss of power may come between any two system    *)
(* calls.                                                                  *)
(*                                                                         *)
(* A file is a sequence of cells.  A row is written as three of them: the  *)
(* beginning of its JSON object, the rest of it, and the newline.  A prefix *)
(* of an object is not JSON, nor is anything after a complete object on    *)
(* its line.  A loss of power keeps at least what was fsynced of a file,   *)
(* and at least the last fsynced state of the directory.                   *)
(***************************************************************************)
EXTENDS Naturals, Sequences, FiniteSetsExt

CONSTANTS
  Proc,
  NoProc,      \* the lock is free
  MaxRows,     \* bound: rows whose append is begun
  MaxRepairs,  \* bound: repairs that replace the file
  MaxCrashes   \* bound: kills and losses of power

ASSUME LogAssumption ==
  /\ NoProc \notin Proc
  /\ {MaxRows, MaxRepairs, MaxCrashes} \subseteq Nat

Inode == 1 .. MaxRepairs + 1
Row == 1..MaxRows

VARIABLES
  content,   \* cells of each inode, as running processes see them
  synced,    \* how many of them an fsync has made durable
  dir,       \* the inode the path names
  durable,   \* ... as of the last fsync of the directory
  inodes,    \* inodes in use
  lock,      \* owner of the tick lock
  pc, raw,   \* step of each process; the bytes repair_jsonl_tail read
  fd, sent,  \* the inode an append has open, cells of the row written
  row,       \* the row being appended
  rows,      \* rows begun so far
  acked,     \* rows whose append has returned (history)
  crashes

disk == <<content, synced, dir, durable, inodes>>
procs == <<pc, raw, fd, sent, row>>
logVars == <<disk, lock, procs, rows, acked, crashes>>

Begin == 1
Rest == 2
Newline == 3

Cell(r, part) == [row |-> r, part |-> part]
Data(r) == <<Cell(r, Begin), Cell(r, Rest), Cell(r, Newline)>>

LogInit ==
  /\ content = [i \in Inode |-> <<>>]
  /\ synced = [i \in Inode |-> 0]
  /\ dir = 1 /\ durable = 1 /\ inodes = 1
  /\ lock = NoProc
  /\ pc = [p \in Proc |-> "idle"]
  /\ raw = [p \in Proc |-> <<>>]
  /\ fd = [p \in Proc |-> 1]
  /\ sent = [p \in Proc |-> 0]
  /\ row = [p \in Proc |-> 0]
  /\ rows = 0
  /\ acked = {}
  /\ crashes = 0

-----------------------------------------------------------------------------
\* Lines

Newlines(f) == {i \in DOMAIN f : f[i].part = Newline}
LastNewline(f) == Max(Newlines(f) \cup {0})
Prefix(f) == SubSeq(f, 1, LastNewline(f))

\* The line that ends before i: at a newline, or at the end of the file.
Line(f, i) == SubSeq(f, Max({j \in Newlines(f) : j < i} \cup {0}) + 1, i - 1)

LastLine(f) == Line(f, Len(f) + 1)

\* json.loads succeeds: the two parts of one object and nothing else.
Decodes(line) ==
  /\ Len(line) = 2
  /\ line[1].part = Begin
  /\ line[2] = Cell(line[1].row, Rest)

\* A terminated line that is neither blank nor JSON: the reader and the repair
\* raise ValueError.
Corrupt(f) == \E i \in Newlines(f) : Line(f, i) # <<>> /\ ~Decodes(Line(f, i))

\* The ends of the lines that the reader keeps: the terminated ones that are
\* not blank, and an unterminated last one if it is complete.
LineEnds(f) == {i \in Newlines(f) : Line(f, i) # <<>>}
                 \cup IF Decodes(LastLine(f)) THEN {Len(f) + 1} ELSE {}

\* read_jsonl_tolerating_torn_final, when it does not raise: the row of each
\* line, at the place where the line ends.
Reading(f) == [i \in LineEnds(f) |-> Line(f, i)[1].row]

\* mutants: nothing is ever torn; an unterminated last line is always dropped.
NothingTorn(f) == FALSE
DropTail(f) == Prefix(f)

\* The last line has no newline.
Torn(f) == LastLine(f) # <<>>

\* repair_jsonl_tail: a complete last object gets its newline, a partial one
\* is cut off.
Repaired(f) ==
  IF Decodes(LastLine(f)) THEN Append(f, Cell(LastLine(f)[1].row, Newline)) ELSE Prefix(f)

-----------------------------------------------------------------------------
\* repair_jsonl_tail, at the start of run_epoch

StartEpoch(p) ==
  /\ pc[p] = "idle" /\ lock = NoProc
  /\ lock' = p
  /\ pc' = [pc EXCEPT ![p] = "repair"]
  /\ UNCHANGED <<disk, raw, fd, sent, row, rows, acked, crashes>>

\* The file is read; without a torn tail there is nothing to replace.  Damage
\* before the tail raises ValueError and ends the epoch before it writes.
ReadForRepair(p) ==
  /\ pc[p] = "repair"
  /\ ~Corrupt(content[dir])
  /\ raw' = [raw EXCEPT ![p] = IF Torn(content[dir]) THEN content[dir] ELSE <<>>]
  /\ pc' = [pc EXCEPT ![p] = IF Torn(content[dir]) THEN "replace" ELSE "append"]
  /\ UNCHANGED <<disk, lock, fd, sent, row, rows, acked, crashes>>

\* atomic_write_bytes up to os.replace: a new file, written and fsynced, takes
\* over the name.
ReplaceFile(p) ==
  LET new == inodes + 1
      data == Repaired(raw[p])
  IN  /\ pc[p] = "replace"
      /\ new \in Inode
      /\ inodes' = new
      /\ content' = [content EXCEPT ![new] = data]
      /\ synced' = [synced EXCEPT ![new] = Len(data)]
      /\ dir' = new
      /\ raw' = [raw EXCEPT ![p] = <<>>]
      /\ pc' = [pc EXCEPT ![p] = "replaced"]
      /\ UNCHANGED <<durable, lock, fd, sent, row, rows, acked, crashes>>

\* ... and _fsync_directory.
SyncReplaced(p) ==
  /\ pc[p] = "replaced"
  /\ durable' = dir
  /\ pc' = [pc EXCEPT ![p] = "append"]
  /\ UNCHANGED <<content, synced, dir, inodes, lock, raw, fd, sent, row, rows, acked, crashes>>

-----------------------------------------------------------------------------
\* append_jsonl_fsync

OpenLog(p) ==
  /\ pc[p] = "append"
  /\ rows < MaxRows
  /\ rows' = rows + 1
  /\ row' = [row EXCEPT ![p] = rows + 1]
  /\ fd' = [fd EXCEPT ![p] = dir]
  /\ sent' = [sent EXCEPT ![p] = 0]
  /\ pc' = [pc EXCEPT ![p] = "write"]
  /\ UNCHANGED <<disk, lock, raw, acked, crashes>>

\* _write_all: os.write appends some of what is left.
WriteSome(p, n) ==
  /\ pc[p] = "write"
  /\ sent[p] + n <= Len(Data(row[p]))
  /\ content' = [content EXCEPT ![fd[p]] = @ \o SubSeq(Data(row[p]), sent[p] + 1, sent[p] + n)]
  /\ sent' = [sent EXCEPT ![p] = @ + n]
  /\ pc' = [pc EXCEPT ![p] = IF sent[p] + n = Len(Data(row[p])) THEN "fsync" ELSE "write"]
  /\ UNCHANGED <<synced, dir, durable, inodes, lock, raw, fd, row, rows, acked, crashes>>

\* os.write raises (the disk is full): the row is given up and the epoch fails.
WriteFails(p) ==
  /\ pc[p] = "write"
  /\ crashes < MaxCrashes
  /\ crashes' = crashes + 1
  /\ lock' = NoProc
  /\ pc' = [pc EXCEPT ![p] = "idle"]
  /\ UNCHANGED <<disk, raw, fd, sent, row, rows, acked>>

\* mutant: the data is not forced to disk.
NoSync(p) ==
  /\ pc[p] = "fsync"
  /\ pc' = [pc EXCEPT ![p] = "syncdir"]
  /\ UNCHANGED <<disk, lock, raw, fd, sent, row, rows, acked, crashes>>

SyncLog(p) ==
  /\ pc[p] = "fsync"
  /\ synced' = [synced EXCEPT ![fd[p]] = Len(content[fd[p]])]
  /\ pc' = [pc EXCEPT ![p] = "syncdir"]
  /\ UNCHANGED <<content, dir, durable, inodes, lock, raw, fd, sent, row, rows, acked, crashes>>

\* _fsync_directory; append_submission returns.
SyncDirectory(p) ==
  /\ pc[p] = "syncdir"
  /\ durable' = dir
  /\ acked' = acked \cup {row[p]}
  /\ pc' = [pc EXCEPT ![p] = "append"]
  /\ UNCHANGED <<content, synced, dir, inodes, lock, raw, fd, sent, row, rows, crashes>>

EndEpoch(p) ==
  /\ pc[p] = "append"
  /\ lock' = NoProc
  /\ pc' = [pc EXCEPT ![p] = "idle"]
  /\ UNCHANGED <<disk, raw, fd, sent, row, rows, acked, crashes>>

-----------------------------------------------------------------------------
\* Crashes

\* The kernel releases a killed process's locks; the files keep what it wrote.
Kill(p) ==
  /\ pc[p] # "idle"
  /\ crashes < MaxCrashes
  /\ crashes' = crashes + 1
  /\ lock' = NoProc
  /\ pc' = [pc EXCEPT ![p] = "idle"]
  /\ raw' = [raw EXCEPT ![p] = <<>>]
  /\ UNCHANGED <<disk, fd, sent, row, rows, acked>>

\* Every process ends, the file keeps n of its cells, and a replacement that
\* was not forced to disk may be undone.
PowerLoss(d, n) ==
  /\ crashes < MaxCrashes
  /\ crashes' = crashes + 1
  /\ dir' = d /\ durable' = d
  /\ content' = [content EXCEPT ![d] = SubSeq(@, 1, n)]
  /\ synced' = [synced EXCEPT ![d] = n]
  /\ lock' = NoProc
  /\ pc' = [p \in Proc |-> "idle"]
  /\ raw' = [p \in Proc |-> <<>>]
  /\ UNCHANGED <<inodes, fd, sent, row, rows, acked>>

LogStep(p) ==
  \/ StartEpoch(p) \/ ReadForRepair(p) \/ ReplaceFile(p) \/ SyncReplaced(p)
  \/ OpenLog(p) \/ (\E n \in 1..3 : WriteSome(p, n)) \/ WriteFails(p)
  \/ SyncLog(p) \/ SyncDirectory(p) \/ EndEpoch(p) \/ Kill(p)

LogNext ==
  \/ \E p \in Proc : LogStep(p)
  \/ \E d \in {dir, durable} : \E n \in synced[d] .. Len(content[d]) : PowerLoss(d, n)

LogSpec == LogInit /\ [][LogNext]_logVars

-----------------------------------------------------------------------------
\* Properties

\* Files, descriptors and rows stay in their domains.
LogTypeOK ==
  /\ \A i \in Inode : \A k \in DOMAIN content[i] :
       content[i][k] \in [row : Row, part : {Begin, Rest, Newline}]
  /\ \A i \in Inode : synced[i] \in 0 .. Len(content[i])
  /\ {dir, durable, inodes} \subseteq Inode
  /\ lock \in Proc \cup {NoProc}
  /\ \A p \in Proc : pc[p] # "idle" => lock = p
  /\ acked \subseteq 1..rows /\ rows <= MaxRows

\* A torn tail is never buried under a later row: at every moment, also between
\* two writes of an append and after any crash, the reader finds no damage.
LogReadable == ~Corrupt(content[dir])

\* A row whose append returned is read once and in the order of the appends,
\* whatever crashes, power losses and repairs follow.
AckedRowsSurvive ==
  LET read == Reading(content[dir])
  IN  /\ \A r \in acked : \E k \in DOMAIN read : read[k] = r
      /\ \A j, k \in DOMAIN read : j < k => read[j] < read[k]

\* The repair changes no reading: replay finds in the repaired file exactly the
\* rows it found in the torn one.
RepairKeepsReading ==
  [][\A p \in Proc : pc[p] = "replace" /\ pc'[p] = "replaced"
                       => Reading(content'[dir']) = Reading(content[dir])]_logVars

=============================================================================
