------------------------------ MODULE Records ------------------------------
(***************************************************************************)
(* What the program keeps of what happened: the event store and the       *)
(* clients that watch it, the failure journal that outlives the daemon,    *)
(* and the log of a service with the archives its restarts leave and the   *)
(* clients that follow or tail it.                                         *)
(*                                                                         *)
(* An event is the number of its making.  A line of the journal has the    *)
(* number of the entry it decodes to, 0 for none, and says whether it has  *)
(* its newline.  A log is a sequence of cells: k counts what the service   *)
(* wrote, nl says that the cell ends a line, f is the file it went to.     *)
(***************************************************************************)
EXTENDS Integers, Sequences, SequencesExt, FiniteSets

CONSTANTS
  Operations,    \* goroutines that end in an audit record
  EventLimit,    \* DefaultEventLimit
  ChanCap,       \* capacity of a subscriber's channel
  JournalLimit,  \* DefaultJournalLimit
  Chunk,         \* chunkSize of readTailChunks, in cells
  MaxRead,       \* maxTailReadBytes, in cells
  DefaultLines,  \* defaultLogLines
  MaxTailLines,  \* audit.MaxTailLines
  MaxEvents,     \* bound on events
  MaxCells,      \* bound on what the service writes
  MaxFiles,      \* bound on the times the service is started
  MaxWork,       \* bound on events, writes, starts, removals and faults together
  Faults,        \* "crash", "full": the daemon dies, the disk is full
  NoFile         \* no service log

Cell == [k : Nat, nl : BOOLEAN, f : Nat]

ASSUME RecordsOK ==
  /\ \A n \in {EventLimit, ChanCap, JournalLimit, Chunk, MaxRead, DefaultLines, MaxTailLines} : n \in Nat \ {0}
  /\ \A n \in {MaxEvents, MaxCells, MaxFiles, MaxWork} : n \in Nat
  /\ NoFile \notin Seq(Cell)

VARIABLES
  work,      \* what has been done of MaxWork
  made,      \* events made
  events,    \* the event store
  watch,     \* a WatchEvents stream: its channel, what it still has of the backlog, what it sent
  rec,       \* each operation's way through the audit sinks
  journal,   \* the lines of failures.jsonl
  since,     \* failures appended since the last crash or failed write
  cells,     \* cells written
  file,      \* the service log, NoFile when there is none
  archives,  \* the archived logs
  starts,    \* log files opened
  attach,    \* where AttachLogs is
  follow,    \* a WatchLogs stream
  cleared    \* cells an operator's removals have deleted

recordVars == <<made, events, watch, rec, journal, since>>
logVars == <<cells, file, archives, starts, attach, follow, cleared>>
vars == <<work, recordVars, logVars>>

Line(id, nl) == [id |-> id, nl |-> nl]

NoWatch == [on |-> FALSE, queue |-> <<>>, backlog |-> <<>>, sent |-> <<>>, dropped |-> {}]
NoFollow == [on |-> FALSE, offset |-> 0, partial |-> <<>>, emitted |-> <<>>, f |-> 0, blind |-> FALSE]
Idle == [pc |-> "idle", id |-> 0, kept |-> <<>>]

Works == work < MaxWork /\ work' = work + 1
Newest(s, n) == IF Len(s) > n THEN SubSeq(s, Len(s) - n + 1, Len(s)) ELSE s

\* What a scan over n places finds of a set of them, in order.
Chosen(S, n) ==
  LET upto[i \in 0..n] == IF i = 0 THEN <<>> ELSE IF i \in S THEN Append(upto[i - 1], i) ELSE upto[i - 1]
  IN  upto[n]

-----------------------------------------------------------------------------
(* The event store                                                         *)

\* A full channel loses the event; the recorder never waits for a client.
Publish(w, id) ==
  IF ~w.on THEN w
  ELSE IF Len(w.queue) < ChanCap THEN [w EXCEPT !.queue = Append(@, id)]
  ELSE [w EXCEPT !.dropped = @ \cup {id}]

\* The mutex is held for the append and for all the sends.
EventRecord(id) ==
  /\ events' = Newest(Append(events, id), EventLimit)
  /\ watch' = Publish(watch, id)

\* An operation ends: the event store is the first sink, the journal takes failures only.
Audit(g, success) ==
  /\ rec[g].pc = "idle" /\ made < MaxEvents /\ Works
  /\ made' = made + 1
  /\ EventRecord(made + 1)
  /\ rec' = [rec EXCEPT ![g] = IF success THEN Idle ELSE [Idle EXCEPT !.pc = "append", !.id = made + 1]]
  /\ UNCHANGED <<journal, since, logVars>>

\* Mutant: the list clients page through, newest first.
BacklogReversed == Reverse(events)

\* The subscription and the backlog are taken under one hold of the mutex.
Backlog == events
SubscribeAndList ==
  /\ ~watch.on /\ Works
  /\ watch' = [NoWatch EXCEPT !.on = TRUE, !.backlog = Backlog]
  /\ UNCHANGED <<made, events, rec, journal, since, logVars>>

\* WatchEvents: the backlog first, then the channel.
WatchSend ==
  /\ watch.on
  /\ \/ /\ watch.backlog # <<>>
        /\ watch' = [watch EXCEPT !.backlog = Tail(@), !.sent = Append(@, Head(watch.backlog))]
     \/ /\ watch.backlog = <<>> /\ watch.queue # <<>>
        /\ watch' = [watch EXCEPT !.queue = Tail(@), !.sent = Append(@, Head(watch.queue))]
  /\ UNCHANGED <<work, made, events, rec, journal, since, logVars>>

\* The client goes: the deferred unsubscribe removes the channel and closes it.
Unsubscribe ==
  /\ watch.on /\ watch' = NoWatch
  /\ UNCHANGED <<work, made, events, rec, journal, since, logVars>>

-----------------------------------------------------------------------------
(* The failure journal                                                     *)

JournalFree == \A g \in Operations : rec[g].pc \in {"idle", "append"}
Terminated(lines) == lines = <<>> \/ lines[Len(lines)].nl

\* Mutant: reading ends at the first line that does not decode.
ReadLockedStops(lines) ==
  LET bad == {i \in DOMAIN lines : lines[i].id <= 0}
      end == IF bad = {} THEN Len(lines) ELSE (CHOOSE i \in bad : \A j \in bad : i <= j) - 1
  IN  [i \in 1..end |-> lines[i].id]

\* The lines that decode; the others are skipped.
ReadLocked(lines) ==
  LET decoded == Chosen({i \in DOMAIN lines : lines[i].id > 0}, Len(lines))
  IN  [n \in DOMAIN decoded |-> lines[decoded[n]].id]

Recent(lines, limit) == Newest(ReadLocked(lines), limit)

\* doctor's failures.recent
CheckRecentFailures(lines) == IF Recent(lines, JournalLimit) = <<>> THEN "none" ELSE "recorded"

\* A line written after one that was cut short continues it.
Appended(lines, line) ==
  IF Terminated(lines) THEN Append(lines, line)
  ELSE Append(Front(lines), Line(0, line.nl))

\* What a write that was interrupted leaves of an entry: nothing, a part, all but the newline.
Interrupted(lines, id) == {lines} \cup {Appended(lines, l) : l \in {Line(0, FALSE), Line(id, FALSE)}}

\* compactLocked reads what is there; within the limit the journal is left as it is.
NeedsCompaction(lines) == Len(ReadLocked(lines)) > JournalLimit

JournalRecord(g) ==
  /\ rec[g].pc = "append" /\ JournalFree
  /\ journal' = Appended(journal, Line(rec[g].id, TRUE))
  /\ since' = Append(since, rec[g].id)
  /\ rec' = [rec EXCEPT ![g] = IF NeedsCompaction(journal') THEN [@ EXCEPT !.pc = "truncate"] ELSE Idle]
  /\ UNCHANGED <<work, made, events, watch, logVars>>

\* The write fails half way: the error is dropped with the record.
JournalFull(g) ==
  /\ "full" \in Faults /\ rec[g].pc = "append" /\ JournalFree /\ Works
  /\ journal' \in Interrupted(journal, rec[g].id)
  /\ since' = <<>>
  /\ rec' = [rec EXCEPT ![g] = Idle]
  /\ UNCHANGED <<made, events, watch, logVars>>

\* os.WriteFile truncates the journal ...
CompactTruncate(g) ==
  /\ rec[g].pc = "truncate"
  /\ rec' = [rec EXCEPT ![g].pc = "rewrite", ![g].kept = Recent(journal, JournalLimit)]
  /\ journal' = <<>>
  /\ UNCHANGED <<work, made, events, watch, since, logVars>>

Whole(ids) == [i \in DOMAIN ids |-> Line(ids[i], TRUE)]

\* ... and then writes the newest of the entries it had read.
CompactRewrite(g) ==
  /\ rec[g].pc = "rewrite"
  /\ journal' = Whole(rec[g].kept)
  /\ rec' = [rec EXCEPT ![g] = Idle]
  /\ UNCHANGED <<work, made, events, watch, since, logVars>>

\* What an interrupted rewrite leaves.
Rewritten(kept) == UNION {Interrupted(Whole(SubSeq(kept, 1, i)), kept[i + 1]) : i \in 0..(Len(kept) - 1)}

CompactFull(g) ==
  /\ "full" \in Faults /\ rec[g].pc = "rewrite" /\ Works
  /\ journal' \in Rewritten(rec[g].kept)
  /\ since' = <<>>
  /\ rec' = [rec EXCEPT ![g] = Idle]
  /\ UNCHANGED <<made, events, watch, logVars>>

\* The daemon dies.  Its memory goes, the streams it served end, the journal stays as the
\* write in progress left it.
Crash ==
  /\ "crash" \in Faults /\ Works
  /\ journal' \in {journal}
       \cup (UNION {Interrupted(journal, rec[g].id) : g \in {h \in Operations : rec[h].pc = "append" /\ JournalFree}})
       \cup (UNION {Rewritten(rec[g].kept) : g \in {h \in Operations : rec[h].pc = "rewrite"}})
  /\ events' = <<>> /\ watch' = NoWatch /\ since' = <<>>
  /\ rec' = [g \in Operations |-> Idle]
  /\ follow' = NoFollow
  /\ attach' = IF attach = "running" THEN "running" ELSE "idle"
  /\ UNCHANGED <<made, cells, file, archives, starts, cleared>>

-----------------------------------------------------------------------------
(* The service log                                                         *)

\* The service writes; it may end a line or not.
Write(nl) ==
  /\ attach = "running" /\ cells < MaxCells /\ Works
  /\ cells' = cells + 1
  /\ file' = Append(file, [k |-> cells + 1, nl |-> nl, f |-> starts])
  /\ UNCHANGED <<recordVars, archives, starts, attach, follow, cleared>>

\* The service ends, in the middle of a line perhaps.
ServiceExits ==
  /\ attach = "running" /\ attach' = "idle"
  /\ UNCHANGED <<work, recordVars, cells, file, archives, starts, follow, cleared>>

\* ArchiveLog, the first half of AttachLogs.  No log is no work, an empty one is removed; a
\* rename moves the rest, and on another device a copy that is followed by a removal.  What
\* fails is ignored and leaves the log to be appended to.
Moved(log, copied) == IF copied THEN Append(archives, log) ELSE archives
\* Mutant: the source is removed whatever became of the copy.
CopyAndDeleteAnyway(ok) ==
  archives' = Moved(file, ok) /\ attach' = "copied" /\ file' = file

CopyAndDelete(ok) ==
  IF ok THEN archives' = Moved(file, TRUE) /\ attach' = "copied" /\ file' = file
  ELSE archives' = Moved(file, FALSE) /\ attach' = "archived" /\ file' = file
ArchiveLog ==
  /\ attach = "idle" /\ starts < MaxFiles /\ Works
  /\ \/ file \in {NoFile, <<>>} /\ file' = NoFile /\ archives' = archives /\ attach' = "archived"
     \/ file \notin {NoFile, <<>>} /\ file' = NoFile /\ archives' = Moved(file, TRUE) /\ attach' = "archived"
     \/ file \notin {NoFile, <<>>} /\ \E ok \in BOOLEAN : CopyAndDelete(ok)
  /\ UNCHANGED <<recordVars, cells, starts, follow, cleared>>

\* copyAndDelete removes its source; a removal that fails leaves the lines in both.
RemoveSource ==
  /\ attach = "copied" /\ attach' = "archived"
  /\ file' \in {NoFile, file}
  /\ UNCHANGED <<work, recordVars, cells, archives, starts, follow, cleared>>

\* initLogFile opens for appending, and the process is started on it.
InitLogFile ==
  /\ attach = "archived" /\ attach' = "running"
  /\ file' = IF file = NoFile THEN <<>> ELSE file
  /\ starts' = IF file = NoFile THEN starts + 1 ELSE starts
  /\ UNCHANGED <<work, recordVars, cells, archives, follow, cleared>>

\* The archives of the directory, and whether an id names one.  A removed one is empty here.
ListArchives == {i \in DOMAIN archives : archives[i] # <<>>}
ArchivePath(i) == i \in ListArchives

\* DeleteLogArchive, and ClearLogArchives, which goes on after a removal that failed.
RemoveArchives(ids) ==
  /\ ids # {} /\ Works
  /\ cleared' = cleared \cup UNION {{archives[i][j].k : j \in DOMAIN archives[i]} : i \in ids}
  /\ archives' = [i \in DOMAIN archives |-> IF i \in ids THEN <<>> ELSE archives[i]]
  /\ UNCHANGED <<recordVars, cells, file, starts, attach, follow>>
DeleteLogArchive == \E i \in DOMAIN archives : ArchivePath(i) /\ RemoveArchives({i})
ClearLogArchives == \E ids \in SUBSET ListArchives : RemoveArchives(ids)

-----------------------------------------------------------------------------
(* Following a log                                                         *)

\* WatchLogs: not found without a log; FollowLog starts at its end.
LogEnd == Len(file)
WatchLogs ==
  /\ ~follow.on /\ file # NoFile /\ Works
  /\ follow' = [NoFollow EXCEPT !.on = TRUE, !.offset = LogEnd, !.f = starts]
  /\ UNCHANGED <<recordVars, cells, file, archives, starts, attach, cleared>>

\* Complete lines of data, and what is left over.
Ends(data) == Chosen({i \in DOMAIN data : data[i].nl}, Len(data))
Lines(data) ==
  LET e == Ends(data)
  IN  [i \in DOMAIN e |-> SubSeq(data, (IF i = 1 THEN 0 ELSE e[i - 1]) + 1, e[i])]
Rest(data) == LET e == Ends(data) IN IF e = <<>> THEN data ELSE SubSeq(data, e[Len(e)] + 1, Len(data))

\* Mutant: the partial line of the old file is kept.
PositionKeepsPartial(offset, partial) ==
  LET from == IF Len(file) < offset THEN 0 ELSE offset
      burst == Len(file) - from > MaxRead
  IN  [offset |-> IF burst THEN Len(file) - MaxRead ELSE from, partial |-> IF burst THEN <<>> ELSE partial]

\* Where readNewLines reads on: a log that has shrunk is a replacement, and of a burst only
\* the end is read.
Position(offset, partial) ==
  LET restart == Len(file) < offset
      from == IF restart THEN 0 ELSE offset
      burst == Len(file) - from > MaxRead
  IN  [offset |-> IF burst THEN Len(file) - MaxRead ELSE from,
       partial |-> IF restart \/ burst THEN <<>> ELSE partial]

ReadNewLines(offset, partial) ==
  IF file = NoFile THEN [lines |-> <<>>, offset |-> 0, partial |-> <<>>]
  ELSE LET p == Position(offset, partial)
           data == p.partial \o SubSeq(file, p.offset + 1, Len(file))
       IN  [lines |-> Lines(data), offset |-> Len(file), partial |-> Rest(data)]

\* A replacement that is as long as what was read of its predecessor is not noticed.
Unnoticed == file # NoFile /\ starts # follow.f /\ follow.offset > 0 /\ Len(file) >= follow.offset

FollowPoll ==
  /\ follow.on
  /\ LET r == ReadNewLines(follow.offset, follow.partial)
     IN  follow' = [follow EXCEPT !.offset = r.offset, !.partial = r.partial,
                                  !.emitted = @ \o r.lines, !.f = starts,
                                  !.blind = @ \/ Unnoticed]
  /\ UNCHANGED <<work, recordVars, cells, file, archives, starts, attach, cleared>>

\* The client goes, or a send fails.
FollowEnds ==
  /\ follow.on /\ follow' = NoFollow
  /\ UNCHANGED <<work, recordVars, cells, file, archives, starts, attach, cleared>>

-----------------------------------------------------------------------------
(* Tailing a log                                                           *)

Newlines(data) == Len(Ends(data))

\* How many chunks readTailChunks reads from the end: it stops at the start of the file, at
\* maxTailReadBytes, and once it has as many newlines as lines are wanted.
TailStart(log, n) == IF Len(log) > n THEN Len(log) - n ELSE 0
\* Mutant: one newline too few.
EnoughEarly(log, read, lines) ==
  read >= Len(log) \/ read >= MaxRead \/ Newlines(SubSeq(log, TailStart(log, read) + 1, Len(log))) >= lines - 1

Enough(log, read, lines) ==
  read >= Len(log) \/ read >= MaxRead \/ Newlines(SubSeq(log, TailStart(log, read) + 1, Len(log))) >= lines
ReadTailChunks(log, lines) ==
  LET sizes == {IF c * Chunk > MaxRead THEN MaxRead ELSE c * Chunk : c \in 0..Len(log)}
      read == CHOOSE r \in sizes : Enough(log, r, lines) /\ \A q \in sizes : q < r => ~Enough(log, q, lines)
  IN  SubSeq(log, TailStart(log, read) + 1, Len(log))

\* The last lines of data; what follows the last newline counts as one.
FormatTail(data, lines) ==
  LET parts == Newlines(data) + (IF Rest(data) = <<>> THEN 0 ELSE 1)
  IN  IF parts > lines THEN SubSeq(data, Ends(data)[parts - lines] + 1, Len(data)) ELSE data

\* tailFile, for a log and for an archive
TailFile(log, lines) == FormatTail(ReadTailChunks(log, lines), lines)

\* The handlers bring the number of lines asked for into the range tailFileLines accepts.
TailLines(lines) == IF lines = 0 THEN DefaultLines ELSE IF lines > MaxTailLines THEN MaxTailLines ELSE lines

GetLogs(lines) == IF file = NoFile THEN <<>> ELSE TailFile(file, TailLines(lines))
GetLogArchive(i, lines) == IF ArchivePath(i) THEN TailFile(archives[i], TailLines(lines)) ELSE <<>>

-----------------------------------------------------------------------------
Init ==
  /\ work = 0 /\ made = 0 /\ events = <<>> /\ watch = NoWatch
  /\ rec = [g \in Operations |-> Idle] /\ journal = <<>> /\ since = <<>>
  /\ cells = 0 /\ file = NoFile /\ archives = <<>> /\ starts = 0 /\ attach = "idle"
  /\ follow = NoFollow /\ cleared = {}

Next ==
  \/ \E g \in Operations, success \in BOOLEAN : Audit(g, success)
  \/ SubscribeAndList \/ WatchSend \/ Unsubscribe
  \/ \E g \in Operations :
       JournalRecord(g) \/ JournalFull(g) \/ CompactTruncate(g) \/ CompactRewrite(g) \/ CompactFull(g)
  \/ Crash
  \/ \E nl \in BOOLEAN : Write(nl)
  \/ ServiceExits \/ ArchiveLog \/ RemoveSource \/ InitLogFile \/ DeleteLogArchive \/ ClearLogArchives
  \/ WatchLogs \/ FollowPoll \/ FollowEnds

Spec == Init /\ [][Next]_vars

-----------------------------------------------------------------------------
(* Properties                                                              *)

\* A client of WatchEvents gets every event from the first of its backlog on, once and in
\* order, but for those that found its channel full: the list and the subscription are one
\* step for every recorder.
WatcherMissesNothing ==
  watch.on =>
    LET got == watch.sent \o watch.backlog \o watch.queue
    IN  /\ \A i \in 1..(Len(got) - 1) : got[i] < got[i + 1]
        /\ got # <<>> => (got[1])..made \subseteq ToSet(got) \cup watch.dropped

\* Whatever an earlier crash or a full disk did to the journal, it costs at most the first
\* failure recorded afterwards: the newest of the others can be read whenever no write is in
\* progress, and doctor does not report a clean record.
JournalKeepsNewest ==
  (JournalFree /\ Len(since) > 1) =>
    /\ ToSet(Newest(Tail(since), JournalLimit)) \subseteq ToSet(ReadLocked(journal))
    /\ CheckRecentFailures(journal) = "recorded"

\* No output of a service is lost by a restart of it, by a failure to archive or by a death
\* in the middle of archiving: it is in the log or in an archive until an operator removes it.
NothingLost ==
  \A k \in 1..cells :
    \/ k \in cleared
    \/ file # NoFile /\ \E i \in DOMAIN file : file[i].k = k
    \/ \E a \in DOMAIN archives : \E i \in DOMAIN archives[a] : archives[a][i].k = k

\* A client that follows a log gets no output twice nor out of order, and, unless a
\* replacement grew past its predecessor between two polls, no line joined from two files.
Precedes(x, y) == \A i \in DOMAIN x, j \in DOMAIN y : x[i].k < y[j].k
InOrder(x) == \A i \in 1..(Len(x) - 1) : x[i].k < x[i + 1].k
FromOneFile(x) == \A i \in 1..(Len(x) - 1) : x[i + 1].k = x[i].k + 1 /\ x[i + 1].f = x[i].f
FollowedWhole ==
  /\ InOrder(follow.partial)
  /\ \A n \in DOMAIN follow.emitted :
       /\ InOrder(follow.emitted[n]) /\ Precedes(follow.emitted[n], follow.partial)
       /\ \A m \in 1..(n - 1) : Precedes(follow.emitted[m], follow.emitted[n])
       /\ ~follow.blind => FromOneFile(follow.emitted[n])

\* The tail of a log or of an archive is the end of it and has as many lines as were asked
\* for, or as there are; only its first line may be cut, where a chunk begins.
EndOf(got, log, lines) ==
  LET want == FormatTail(log, TailLines(lines))
  IN  IsSuffix(got, want) /\ (Len(log) <= MaxRead => Newlines(got) = Newlines(want))
TailShowsLatest ==
  \A lines \in 0..(MaxTailLines + 1) :
    /\ file # NoFile => EndOf(GetLogs(lines), file, lines)
    /\ \A i \in ListArchives : EndOf(GetLogArchive(i, lines), archives[i], lines)

-----------------------------------------------------------------------------
(* Said by the code's comments or expected of it, and not so: see "Known   *)
(* disagreements" in README.md.  No run of the project checks these.       *)

\* Stronger, and not so: a tail begins with a whole line.
TailIsWhole == file # NoFile => \A n \in 1..MaxTailLines : GetLogs(n) = FormatTail(file, n)

=============================================================================
