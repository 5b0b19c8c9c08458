----------------------------- MODULE AuditTrail -----------------------------
(***************************************************************************)
(* An audit trail on the local filesystem: the FileAuditSink of pic-x-std  *)
(* (src/crates/pic-x-std/src/audit/file.rs).                               *)
(*                                                                         *)
(* One file of records per UTC day and one seal per closed day.  A record  *)
(* carries its place in the trail and the digest of the one before it.     *)
(* `record` reads the clock, then takes the lock, and under it seals the   *)
(* day that closes, opens the file of its own day, drops what is past its  *)
(* retention, appends a line and flushes it.  Any of these may fail or be  *)
(* cut short by a crash.                                                   *)
(*                                                                         *)
(* The digest of a record is abstracted to its identity: SHA-256 tells     *)
(* every two bodies apart.  What an event says, and who signs a seal, is   *)
(* left out: nothing here depends on them.                                 *)
(***************************************************************************)
EXTENDS Integers, Sequences, SequencesExt, FiniteSets

CONSTANTS
    Caller,         \* threads that call `record`
    Retention,      \* whole days of `retention`
    MaxDay,         \* bound: the last day the clock reaches
    MaxRecords,     \* bound: how many lines are ever written
    MaxCrashes,     \* bound: how often the process dies inside a call
    MaxErrors,      \* bound: how many I/O errors there are
    Nobody          \* the lock is free

ASSUME AuditTrailAssumption ==
    /\ Retention \in Nat /\ MaxDay \in Nat \ {0}
    /\ MaxRecords \in Nat /\ MaxCrashes \in Nat /\ MaxErrors \in Nat
    /\ Nobody \notin Caller

VARIABLES
    files,      \* audit-<day>.jsonl
    seals,      \* audit-<day>.seal
    today,      \* the clock, in days
    step,       \* what the process does; "free" when nobody holds the lock
    holder,     \* the caller that holds the lock
    dated,      \* the day each caller of `record` read, before it took the lock
    open,       \* FileAuditSink.open
    written,    \* how many lines were ever begun; gives each one its identity
    acked,      \* history: the records `record` answered Ok for
    dropped,    \* history: `expire` removed a day
    cut,        \* history: a line was left without its end
    crashes,
    errors

diskVars == <<files, seals>>
histVars == <<acked, dropped, cut>>
vars == <<files, seals, today, step, holder, dated, open, written, acked,
          dropped, cut, crashes, errors>>

----------------------------------------------------------------------------
(* Files, lines and seals *)

Day == 1..MaxDay

\* The digest the first record names as its predecessor.
Genesis == 0

\* A line that no longer parses; a parsed line has a positive number.
Garbage == [id |-> 0, seq |-> 0, prev |-> 0]

Parses(line) == line.seq > 0

\* `ended` is false when the last line lacks its newline.
Absent == [exists |-> FALSE, lines |-> <<>>, ended |-> TRUE]
Created(f) == [f EXCEPT !.exists = TRUE]

NoSeal   == [kind |-> "none", records |-> 0, head |-> 0]
TornSeal == [kind |-> "torn", records |-> 0, head |-> 0]

Closed == [day |-> 0, seq |-> 0, previous |-> Genesis]

\* A file is opened for appending, so bytes go after whatever is there: behind
\* a line without its end they become part of that line.
Appended(f, line, ended) ==
    [f EXCEPT !.lines = IF f.ended THEN Append(@, line)
                                   ELSE [@ EXCEPT ![Len(@)] = Garbage],
              !.ended = ended]

\* What a write that does not run to its end leaves.  `writeln!` writes the
\* line and then its newline, and the first may be partial.
CutShort(f, line) == {f, Appended(f, line, FALSE), Appended(f, Garbage, FALSE)}

\* The line `record` writes.
NewLine == [id |-> written + 1, seq |-> open.seq + 1, prev |-> open.previous]

Days == {d \in Day : files[d].exists}

\* tail: the last line of the latest day on disk, wherever earlier days end.
TailOfTrail == LET latest == CHOOSE d \in Days : \A e \in Days : e <= d
        IN  IF Days = {} \/ files[latest].lines = <<>>
            THEN <<>>
            ELSE <<Last(files[latest].lines)>>

\* Mutant: the day on which the retention ends goes too.
PastItsEnd(day) == {d \in Days : d <= day - Retention}

\* The days `expire` removes on a given day.
Past(day) == {d \in Days : d < day - Retention}

----------------------------------------------------------------------------
(* verify *)

\* Where the lines are, and the order they are read in: by day, then by line.
Places == UNION {{d} \X DOMAIN files[d].lines : d \in Days}
LineAt(p) == files[p[1]].lines[p[2]]
Before(p, q) == p[1] < q[1] \/ (p[1] = q[1] /\ p[2] < q[2])

\* What is read when a line is reached: `expected_seq` is one more than that many
\* lines, and `expected_previous` is the last of them.
ReadBefore(p) == {q \in Places : Before(q, p)}
ExpectedSeq(p) == Cardinality(ReadBefore(p)) + 1
ExpectedPrevious(p) ==
    IF ReadBefore(p) = {} THEN Genesis
    ELSE LineAt(CHOOSE q \in ReadBefore(p) : \A r \in ReadBefore(p) : ~Before(q, r)).id

\* Every line parses, follows the one before it and is numbered one more.
ChainHolds ==
    \A p \in Places :
        /\ Parses(LineAt(p))
        /\ LineAt(p).prev = ExpectedPrevious(p)
        /\ LineAt(p).seq = ExpectedSeq(p)

\* The seals of the days on disk, one for each point they attest to: of two
\* that name the same point the later day's replaces the other.
SealsRead ==
    {seals[d] : d \in {e \in Days :
        /\ seals[e].kind # "none"
        /\ \A later \in Days : later > e /\ seals[later].kind # "none"
               => seals[later].records # seals[e].records}}

SealsHold ==
    /\ \A d \in Days : seals[d].kind # "torn"
    /\ \A s \in SealsRead :
           /\ s.records <= Cardinality(Places)
           /\ \A p \in Places : ExpectedSeq(p) = s.records => LineAt(p).id = s.head

Verifies == ChainHolds /\ SealsHold

----------------------------------------------------------------------------
(* The initial state: an empty volume and no process *)

Init ==
    /\ files = [d \in Day |-> Absent]
    /\ seals = [d \in Day |-> NoSeal]
    /\ today = 1
    /\ step = "down"
    /\ holder = Nobody
    /\ dated = [c \in Caller |-> 0]
    /\ open = Closed
    /\ written = 0
    /\ acked = {}
    /\ dropped = FALSE
    /\ cut = FALSE
    /\ crashes = 0
    /\ errors = 0

\* `record` returns and the lock is free again.
Release ==
    /\ step' = "free"
    /\ holder' = Nobody
    /\ dated' = [dated EXCEPT ![holder] = 0]

Fails ==
    /\ errors < MaxErrors
    /\ errors' = errors + 1
    /\ UNCHANGED crashes

NoFault == UNCHANGED <<crashes, errors>>

----------------------------------------------------------------------------
(* The process and its clock *)

Tick ==
    /\ today < MaxDay
    /\ today' = today + 1
    /\ UNCHANGED <<diskVars, step, holder, dated, open, written, histVars,
                   crashes, errors>>

\* The binary builds the sink and prepares it before the server starts.
Start ==
    /\ step = "down"
    /\ step' = "prepare"
    /\ UNCHANGED <<diskVars, today, holder, dated, open, written, histVars,
                   crashes, errors>>

\* The process ends while nobody is in a call: after `shutdown`, or without it.
Exit ==
    /\ step = "free"
    /\ step' = "down"
    /\ dated' = [c \in Caller |-> 0]
    /\ open' = Closed
    /\ UNCHANGED <<diskVars, today, holder, written, histVars, crashes, errors>>

\* The process dies inside a call.  A line that was not flushed is lost, cut
\* or whole; a seal that was being replaced is lost or cut.
Crash ==
    /\ step \notin {"down", "free"}
    /\ crashes < MaxCrashes
    /\ crashes' = crashes + 1
    /\ IF step = "appending" /\ written < MaxRecords
       THEN /\ \E f \in CutShort(files[open.day], NewLine) :
                   /\ files' = [files EXCEPT ![open.day] = f]
                   /\ cut' = (cut \/ ~f.ended)
            /\ written' = written + 1
       ELSE UNCHANGED <<files, cut, written>>
    /\ IF step \in {"sealing", "closing"}
       THEN \E s \in {seals[open.day], TornSeal} : seals' = [seals EXCEPT ![open.day] = s]
       ELSE UNCHANGED seals
    /\ step' = "down"
    /\ holder' = Nobody
    /\ dated' = [c \in Caller |-> 0]
    /\ open' = Closed
    /\ UNCHANGED <<today, acked, dropped, errors>>

----------------------------------------------------------------------------
(* expire, in `prepare` and in `record` *)

ExpiryDay == IF step = "prepare" THEN today ELSE dated[holder]

\* One day goes: its records, then its seal.  That the seal could not be removed
\* is nobody's concern, and a death between the two leaves the same disk.
ExpireDay(d) ==
    /\ step \in {"prepare", "expiring"}
    /\ d \in Past(ExpiryDay)
    /\ files' = [files EXCEPT ![d] = Absent]
    /\ \/ seals' = [seals EXCEPT ![d] = NoSeal] /\ NoFault
       \/ UNCHANGED seals /\ Fails
    /\ dropped' = TRUE
    /\ UNCHANGED <<today, step, holder, dated, open, written, acked, cut>>

Prepared ==
    /\ step = "prepare"
    /\ Past(ExpiryDay) = {}
    /\ step' = "free"
    /\ NoFault
    /\ UNCHANGED <<diskVars, today, holder, dated, open, written, histVars>>

\* A file that cannot be removed stops the start.
PrepareFails ==
    /\ step = "prepare"
    /\ Fails
    /\ step' = "down"
    /\ UNCHANGED <<diskVars, today, holder, dated, open, written, histVars>>

ExpireDone ==
    /\ step = "expiring"
    /\ Past(ExpiryDay) = {}
    /\ step' = "appending"
    /\ NoFault
    /\ UNCHANGED <<diskVars, today, holder, dated, open, written, histVars>>

\* The record is lost, and nothing tries again before the next day opens.
ExpireFails ==
    /\ step = "expiring"
    /\ Fails
    /\ Release
    /\ UNCHANGED <<diskVars, today, open, written, histVars>>

----------------------------------------------------------------------------
(* record *)

\* The day is read before the lock is taken.
Begin(c) ==
    /\ step \notin {"down", "prepare"}
    /\ dated[c] = 0
    /\ dated' = [dated EXCEPT ![c] = today]
    /\ NoFault
    /\ UNCHANGED <<diskVars, today, step, holder, open, written, histVars>>

\* Mutant: a file that is open is taken for the right one.
EnterUnrolled(c) ==
    /\ step = "free"
    /\ dated[c] # 0
    /\ holder' = c
    /\ step' = IF open.day # 0 THEN "appending" ELSE "opening"
    /\ NoFault
    /\ UNCHANGED <<diskVars, today, dated, open, written, histVars>>

\* Rolled over: another day is open, or none is.
Enter(c) ==
    /\ step = "free"
    /\ dated[c] # 0
    /\ holder' = c
    /\ step' = IF open.day = dated[c] THEN "appending"
               ELSE IF open.day # 0 THEN "sealing"
               ELSE "opening"
    /\ NoFault
    /\ UNCHANGED <<diskVars, today, dated, open, written, histVars>>

\* `seal`: where the chain stood when the day that is open was closed.
WriteSeal == seals' = [seals EXCEPT ![open.day] =
                 [kind |-> "whole", records |-> open.seq, head |-> open.previous]]

\* `seal` fails: nothing is written, or only part of it.
CutSeal == \E s \in {seals[open.day], TornSeal} : seals' = [seals EXCEPT ![open.day] = s]

SealClosing ==
    /\ step = "sealing"
    /\ step' = "opening"
    /\ \/ WriteSeal /\ NoFault
       \/ CutSeal /\ Fails
    /\ UNCHANGED <<files, today, holder, dated, open, written, histVars>>

\* Mutant: the file is created anew.
OpenForAnew ==
    /\ step = "opening"
    /\ LET day  == dated[holder]
           tail == IF open.day # 0 THEN <<[id |-> open.previous, seq |-> open.seq]>> ELSE TailOfTrail
       IN  /\ tail # <<Garbage>>
           /\ files' = [files EXCEPT ![day] = Created(Absent)]
           /\ open' = IF tail = <<>> THEN [Closed EXCEPT !.day = day]
                      ELSE [day |-> day, seq |-> tail[1].seq, previous |-> tail[1].id]
    /\ step' = "expiring"
    /\ NoFault
    /\ UNCHANGED <<seals, today, holder, dated, written, histVars>>

\* Mutant: the chain starts anew with every file that a process opens first.
OpenForUnchained ==
    /\ step = "opening"
    /\ LET day == dated[holder]
       IN  /\ files' = [files EXCEPT ![day] = Created(@)]
           /\ open' = IF open.day # 0 THEN [open EXCEPT !.day = day]
                                      ELSE [Closed EXCEPT !.day = day]
    /\ step' = "expiring"
    /\ NoFault
    /\ UNCHANGED <<seals, today, holder, dated, written, histVars>>

\* open_for: the chain continues from what was open, or from the disk.
OpenFor ==
    /\ step = "opening"
    /\ LET day  == dated[holder]
           tail == IF open.day # 0 THEN <<[id |-> open.previous, seq |-> open.seq]>> ELSE TailOfTrail
       IN  /\ tail # <<Garbage>>
           /\ files' = [files EXCEPT ![day] = Created(@)]
           /\ open' = IF tail = <<>> THEN [Closed EXCEPT !.day = day]
                      ELSE [day |-> day, seq |-> tail[1].seq, previous |-> tail[1].id]
    /\ step' = "expiring"
    /\ NoFault
    /\ UNCHANGED <<seals, today, holder, dated, written, histVars>>

\* The last line on disk does not parse: the trail cannot be continued.
OpenRefused ==
    /\ step = "opening"
    /\ open.day = 0
    /\ TailOfTrail = <<Garbage>>
    /\ Release
    /\ NoFault
    /\ UNCHANGED <<diskVars, today, open, written, histVars>>

\* The file cannot be created, or its mode cannot be set once it is.
OpenFails ==
    /\ step = "opening"
    /\ Fails
    /\ \E f \in {files[dated[holder]], Created(files[dated[holder]])} :
           files' = [files EXCEPT ![dated[holder]] = f]
    /\ Release
    /\ UNCHANGED <<seals, today, open, written, histVars>>

\* Mutant: the head moves as the line is written, before it is flushed.
AppendAhead ==
    /\ step = "appending"
    /\ written < MaxRecords
    /\ files' = [files EXCEPT ![open.day] = Appended(@, NewLine, TRUE)]
    /\ written' = written + 1
    /\ open' = [open EXCEPT !.seq = @ + 1]
    /\ step' = "syncing"
    /\ NoFault
    /\ UNCHANGED <<seals, today, holder, dated, histVars>>

AppendLine ==
    /\ step = "appending"
    /\ written < MaxRecords
    /\ files' = [files EXCEPT ![open.day] = Appended(@, NewLine, TRUE)]
    /\ written' = written + 1
    /\ step' = "syncing"
    /\ NoFault
    /\ UNCHANGED <<seals, today, holder, dated, open, histVars>>

AppendFails ==
    /\ step = "appending"
    /\ written < MaxRecords
    /\ Fails
    /\ \E f \in CutShort(files[open.day], NewLine) :
           /\ files' = [files EXCEPT ![open.day] = f]
           /\ cut' = (cut \/ ~f.ended)
    /\ written' = written + 1
    /\ Release
    /\ UNCHANGED <<seals, today, open, acked, dropped>>

\* The bound on lines: nothing more is recorded.
OutOfRecords ==
    /\ step = "appending"
    /\ written = MaxRecords
    /\ Release
    /\ NoFault
    /\ UNCHANGED <<diskVars, today, open, written, histVars>>

\* Flushed: the head moves and the caller is told.
Sync ==
    /\ step = "syncing"
    /\ open' = [open EXCEPT !.seq = @ + 1, !.previous = written]
    /\ acked' = acked \cup {[id |-> written, day |-> open.day]}
    /\ Release
    /\ NoFault
    /\ UNCHANGED <<diskVars, today, written, dropped, cut>>

\* The line stays in the file and the head stays where it was.
SyncFails ==
    /\ step = "syncing"
    /\ Fails
    /\ Release
    /\ UNCHANGED <<diskVars, today, open, written, histVars>>

----------------------------------------------------------------------------
(* shutdown *)

Shutdown ==
    /\ step = "free"
    /\ open.day # 0
    /\ step' = "closing"
    /\ NoFault
    /\ UNCHANGED <<diskVars, today, holder, dated, open, written, histVars>>

Close ==
    /\ step = "closing"
    /\ \/ WriteSeal /\ NoFault
       \/ CutSeal /\ Fails
    /\ step' = "free"
    /\ open' = Closed
    /\ UNCHANGED <<files, today, holder, dated, written, histVars>>

\* The last flush fails: no seal, and the file stays open.
CloseFails ==
    /\ step = "closing"
    /\ Fails
    /\ step' = "free"
    /\ UNCHANGED <<diskVars, today, holder, dated, open, written, histVars>>

----------------------------------------------------------------------------

Next ==
    \/ Tick \/ Start \/ Exit \/ Crash
    \/ Prepared \/ PrepareFails
    \/ \E d \in Day : ExpireDay(d)
    \/ ExpireDone \/ ExpireFails
    \/ \E c \in Caller : Begin(c) \/ Enter(c)
    \/ SealClosing
    \/ OpenFor \/ OpenRefused \/ OpenFails
    \/ AppendLine \/ AppendFails \/ OutOfRecords
    \/ Sync \/ SyncFails
    \/ Shutdown \/ Close \/ CloseFails

Spec == Init /\ [][Next]_vars

----------------------------------------------------------------------------
(* Properties *)

Line == [id : 0..MaxRecords, seq : 0..MaxRecords, prev : 0..MaxRecords]

\* The type invariant, and what the steps of a call share: only they hold the
\* lock, and the steps that write have their file open.
TypeOK ==
    /\ \A d \in Day : /\ files[d].exists \in BOOLEAN /\ files[d].ended \in BOOLEAN
                      /\ files[d].lines \in Seq(Line)
                      /\ ~files[d].ended => files[d].lines # <<>>
                      /\ ~files[d].exists => files[d] = Absent
    /\ \A d \in Day : /\ seals[d].kind \in {"none", "torn", "whole"}
                      /\ seals[d].records \in 0..MaxRecords
                      /\ seals[d].head \in 0..MaxRecords
    /\ today \in Day
    /\ step \in {"down", "prepare", "free", "sealing", "opening", "expiring",
                 "appending", "syncing", "closing"}
    /\ holder \in Caller \cup {Nobody}
    /\ step \in {"sealing", "opening", "expiring", "appending", "syncing"}
           <=> holder # Nobody
    /\ dated \in [Caller -> 0..today]
    /\ holder # Nobody => dated[holder] # 0
    /\ open.day \in 0..today /\ open.seq \in 0..MaxRecords /\ open.previous \in 0..MaxRecords
    /\ step \in {"expiring", "appending", "syncing"} => open.day = dated[holder]
    /\ step \in {"appending", "syncing", "sealing", "closing"} => files[open.day].exists
    /\ written \in 0..MaxRecords
    /\ acked \subseteq [id : 1..MaxRecords, day : Day]
    /\ dropped \in BOOLEAN /\ cut \in BOOLEAN
    /\ crashes \in 0..MaxCrashes /\ errors \in 0..MaxErrors

\* The lines are on disk in the order they were written in: no caller read the
\* day before midnight and wrote after another had written the next day's.
InOrder == \A p, q \in Places : Before(p, q) => LineAt(p).id < LineAt(q).id

\* A trail that only its own process ever wrote, that met no crash or failure,
\* is in order and is not old enough to have lost a day, verifies: through
\* restarts, days without records and midnights, in every state between two
\* calls (FileAuditSink::record, open_for, verify).
UndamagedTrailVerifies ==
    crashes + errors = 0 /\ ~dropped /\ InOrder /\ step \in {"down", "free"} => Verifies

HeldOn(d, id) == {i \in DOMAIN files[d].lines : files[d].lines[i].id = id}

\* What `record` answered Ok for is on disk, once and readable, for as long as
\* the retention promises: whatever crashed, failed to flush, or raced with
\* midnight since, unless a line was left without its end.
AckedStay ==
    ~cut => \A a \in acked : a.day >= today - Retention => Cardinality(HeldOn(a.day, a.id)) = 1

\* What a seal attests to happened: the record it names as the head has the
\* number it gives, in the trail or in a day that is past its retention.
SealsAreTrue ==
    ~cut => \A d \in Days : seals[d].kind = "whole" /\ seals[d].records > 0 =>
        \/ dropped
        \/ \E e \in Days : \E i \in DOMAIN files[e].lines :
               /\ files[e].lines[i].id = seals[d].head
               /\ files[e].lines[i].seq = seals[d].records

\* No step alters or removes a finished line, except by dropping a day that
\* is past its retention.
FinishedLinesStand ==
    [][\A d \in Day : files[d].exists =>
         \/ /\ ~files'[d].exists
            /\ d < today - Retention
         \/ IsPrefix(IF files[d].ended THEN files[d].lines ELSE Front(files[d].lines),
                     files'[d].lines)]_vars

\* What `verify` documents of a trail nothing has altered, when the oldest
\* days are gone because the sink itself dropped them at their retention.
RetainedTrailVerifies ==
    crashes + errors = 0 /\ step \in {"down", "free"} => Verifies

\* "Where this record sits in the trail, from 1 and never reused" (Body): no two
\* records on disk have one number, whoever wrote them and across restarts.
NumbersAreNotReused ==
    \A p, q \in Places : Parses(LineAt(p)) /\ LineAt(p).seq = LineAt(q).seq => p = q
=============================================================================
