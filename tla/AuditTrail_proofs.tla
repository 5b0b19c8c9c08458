-------------------------- MODULE AuditTrail_proofs --------------------------
(***************************************************************************)
(* Proofs about the file audit trail (AuditTrail), for every number of     *)
(* callers, days, records, crashes and I/O errors and every retention.     *)
(*                                                                         *)
(* A record that was acknowledged stays on disk, once, for as long as the  *)
(* retention promises; a seal names a record that was written with the     *)
(* number it gives; a finished line is never altered.  None of the three   *)
(* follows from itself.  What carries them is: where the steps of a call   *)
(* share the file that is open (CallOK); that every identity on disk was   *)
(* given out already, so a new line differs from all of them (NumbersOK,   *)
(* LinesOK); that the line a call has appended and not yet flushed is the  *)
(* one its head will move to (PendingOK); and that the head a process      *)
(* continues from is a line on disk (TruthOK).                             *)
(*                                                                         *)
(* A trail that nothing damaged verifies, by a second invariant on top of  *)
(* the first (UndamagedOK): its lines are numbered without a gap, and the  *)
(* head, which a restarted process reads off the latest file, is the last  *)
(* of them.  That file is never an empty one: a call that creates a file   *)
(* writes to it (FilledOK).                                                *)
(***************************************************************************)
EXTENDS AuditTrail, FiniteSetTheorems, WellFoundedInduction, TLAPS

File == [exists : BOOLEAN, lines : Seq(Line), ended : BOOLEAN]
Seal == [kind : {"none", "torn", "whole"}, records : 0..MaxRecords, head : 0..MaxRecords]
OpenFile == [day : 0..MaxDay, seq : 0..MaxRecords, previous : 0..MaxRecords]

Step == {"down", "prepare", "free", "sealing", "opening", "expiring", "appending",
         "syncing", "closing"}
Locked == {"sealing", "opening", "expiring", "appending", "syncing"}

\* A line without its end is a line; a file that is not there holds none.
FileOK(f) ==
    /\ f \in File
    /\ ~f.ended => f.lines # <<>>
    /\ ~f.exists => f = Absent

DiskOK ==
    /\ files \in [Day -> File] /\ seals \in [Day -> Seal]
    /\ \A d \in Day : FileOK(files[d])

\* Who holds the lock, which day it read, and which file is open.
CallOK ==
    /\ today \in Day /\ step \in Step /\ holder \in Caller \cup {Nobody}
    /\ step \in Locked <=> holder # Nobody
    /\ dated \in [Caller -> 0..MaxDay]
    /\ \A c \in Caller : dated[c] <= today
    /\ holder # Nobody => dated[holder] # 0
    /\ open \in OpenFile /\ open.day <= today
    /\ step \in {"down", "prepare"} => open = Closed
    /\ step \in {"sealing", "closing"} => open.day # 0
    /\ step \in {"expiring", "appending", "syncing"} => open.day = dated[holder]

\* The file that is open is on disk: `expire` never takes it.
OpenOK == open.day # 0 => files[open.day].exists

\* Every number and identity was given out before.
NumbersOK ==
    /\ written \in 0..MaxRecords
    /\ open.seq <= written /\ open.previous <= written
    /\ step = "syncing" => open.seq < written
    /\ \A d \in Day : \A i \in DOMAIN files[d].lines :
           files[d].lines[i].id <= written /\ files[d].lines[i].seq <= written

\* The history and the counters.
HistoryOK ==
    /\ acked \subseteq [id : 1..MaxRecords, day : Day]
    /\ dropped \in BOOLEAN /\ cut \in BOOLEAN
    /\ crashes \in 0..MaxCrashes /\ errors \in 0..MaxErrors

Shape == DiskOK /\ CallOK /\ OpenOK /\ NumbersOK /\ HistoryOK

\* Unless a line was cut, every file ends with a whole line and no identity is
\* in it twice.
LinesOK ==
    ~cut => \A d \in Day :
        /\ files[d].ended
        /\ \A i, j \in DOMAIN files[d].lines :
               files[d].lines[i].id = files[d].lines[j].id => i = j

\* The line that waits to be flushed.
PendingOK ==
    ~cut /\ step = "syncing" =>
        \E i \in DOMAIN files[open.day].lines :
            /\ files[open.day].lines[i].id = written
            /\ files[open.day].lines[i].seq = open.seq + 1

\* What was acknowledged is there until the retention ends.
AckedOK ==
    ~cut => \A a \in acked : a.day >= today - Retention =>
        \E i \in DOMAIN files[a.day].lines : files[a.day].lines[i].id = a.id

\* A line of this identity and number is in the files fs.
OnDisk(fs, id, seq) ==
    \E e \in Day : \E i \in DOMAIN fs[e].lines :
        fs[e].lines[i].id = id /\ fs[e].lines[i].seq = seq

\* The head a process continues from, and the ones the seals name, are lines.
TruthOK ==
    ~cut /\ ~dropped =>
        /\ open.seq > 0 => OnDisk(files, open.previous, open.seq)
        /\ \A d \in Day : seals[d].kind = "whole" /\ seals[d].records > 0 =>
               OnDisk(files, seals[d].head, seals[d].records)

\* The inductive invariant.
TrailInv == Shape /\ LinesOK /\ PendingOK /\ AckedOK /\ TruthOK

----------------------------------------------------------------------------
(* Days, sequences and lines *)

\* The bounds are numbers, and the first day is one of the days.
LEMMA Bounds ==
    /\ MaxDay \in Nat \ {0} /\ MaxRecords \in Nat /\ MaxCrashes \in Nat
    /\ MaxErrors \in Nat /\ Retention \in Nat
    /\ Day \subseteq Nat \ {0} /\ 1 \in Day
    /\ Garbage \in Line /\ Line # {}
<1>1. /\ MaxDay \in Nat \ {0} /\ MaxRecords \in Nat /\ MaxCrashes \in Nat
      /\ MaxErrors \in Nat /\ Retention \in Nat
  BY AuditTrailAssumption
<1>2. Day \subseteq Nat \ {0} /\ 1 \in Day
  BY <1>1 DEF Day
<1>3. Garbage \in Line
  BY <1>1 DEF Garbage, Line
<1>4. QED
  BY <1>1, <1>2, <1>3

\* Of every set of days that is not empty one is the latest: `tail` finds one.
LEMMA LatestDay ==
    ASSUME NEW S \in SUBSET Day, S # {}
    PROVE  \E d \in S : \A e \in S : e <= d
<1> DEFINE T == {MaxDay - d : d \in S}
<1>1. MaxDay \in Nat /\ S \subseteq 1..MaxDay
  BY AuditTrailAssumption DEF Day
<1>2. PICK s \in S : TRUE
  OBVIOUS
<1>3. MaxDay - s \in T
  OBVIOUS
<1>4. T \subseteq Nat
  BY <1>1
<1>5. \E x \in T : \A y \in T : ~(<<y, x>> \in OpToRel(<, Nat))
  <2> HIDE DEF T
  <2> QED
    BY <1>3, <1>4, NatLessThanWellFounded, WFMin
<1>6. PICK x \in T : \A y \in T : ~(y < x)
  <2> HIDE DEF T
  <2> QED
    BY <1>4, <1>5 DEF OpToRel
<1>7. PICK d \in S : x = MaxDay - d
  OBVIOUS
<1>8. ASSUME NEW e \in S
      PROVE  e <= d
  <2>1. ~(MaxDay - e < MaxDay - d)
    <3>1. MaxDay - e \in T
      OBVIOUS
    <3>2. QED
      BY <1>6, <1>7, <3>1
  <2>2. QED
    BY <1>1, <2>1
<1>9. QED
  BY <1>8

\* What putting a line in the place of the last one leaves.
LEMMA ReplaceLast ==
    ASSUME NEW S, NEW s \in Seq(S), NEW x \in S, s # <<>>
    PROVE  /\ [s EXCEPT ![Len(s)] = x] \in Seq(S)
           /\ Len([s EXCEPT ![Len(s)] = x]) = Len(s)
           /\ DOMAIN [s EXCEPT ![Len(s)] = x] = 1..Len(s)
           /\ [s EXCEPT ![Len(s)] = x][Len(s)] = x
           /\ \A i \in 1..(Len(s) - 1) : [s EXCEPT ![Len(s)] = x][i] = s[i]
<1> DEFINE t == [s EXCEPT ![Len(s)] = x]
<1>1. Len(s) \in Nat \ {0} /\ DOMAIN s = 1..Len(s) /\ \A i \in 1..Len(s) : s[i] \in S
  OBVIOUS
<1>2. t \in [1..Len(s) -> S] /\ DOMAIN t = 1..Len(s)
  BY <1>1
<1>3. t \in Seq(S) /\ Len(t) = Len(s)
  BY <1>1, <1>2
<1>4. t[Len(s)] = x /\ \A i \in 1..(Len(s) - 1) : t[i] = s[i]
  <2>1. Len(s) \in DOMAIN s
    BY <1>1
  <2>2. ASSUME NEW i \in 1..(Len(s) - 1)
        PROVE  i \in DOMAIN s /\ i # Len(s)
    <3>1. \A n \in Nat \ {0} : \A k \in 1..(n - 1) : k \in 1..n /\ k # n
      OBVIOUS
    <3>2. QED
      BY <1>1, <3>1
  <2>3. QED
    BY <2>1, <2>2
<1>5. QED
  BY <1>2, <1>3, <1>4

\* A sequence that agrees with a longer one is a prefix of it.
LEMMA AgreeingIsPrefix ==
    ASSUME NEW S, NEW s \in Seq(S), NEW t \in Seq(S),
           Len(s) <= Len(t), \A i \in 1..Len(s) : s[i] = t[i]
    PROVE  IsPrefix(s, t)
BY DEF IsPrefix

\* All lines but the last.
LEMMA FrontOfLines ==
    ASSUME NEW S, NEW s \in Seq(S), s # <<>>
    PROVE  /\ Front(s) \in Seq(S) /\ Len(Front(s)) = Len(s) - 1
           /\ \A i \in 1..(Len(s) - 1) : Front(s)[i] = s[i]
<1>1. Len(s) \in Nat \ {0} /\ \A i \in 1..Len(s) : s[i] \in S
  OBVIOUS
<1> DEFINE n == Len(s) - 1
<1>2. n \in Nat /\ 1 \in Nat /\ \A i \in 1..n : s[i] \in S
  BY <1>1
<1> HIDE DEF n
<1>3. SubSeq(s, 1, n) \in Seq(S) /\ Len(SubSeq(s, 1, n)) = n
  BY <1>2
<1>4. \A i \in 1..n : SubSeq(s, 1, n)[i] = s[i]
  BY <1>2
<1>5. QED
  BY <1>3, <1>4 DEF Front, n

\* What appending to a file leaves: behind a whole line a new one, behind a
\* line without its end that line spoiled and every other as it was.
LEMMA AppendedFile ==
    ASSUME NEW f, FileOK(f), NEW line \in Line, NEW ended \in BOOLEAN
    PROVE  LET g == Appended(f, line, ended) IN
           /\ FileOK(g) \/ ~f.exists
           /\ g \in File /\ g.exists = f.exists /\ g.ended = ended /\ g.lines # <<>>
           /\ f.ended => g.lines = Append(f.lines, line)
           /\ ~f.ended => g.lines = [f.lines EXCEPT ![Len(f.lines)] = Garbage]
<1> DEFINE L == IF f.ended THEN Append(f.lines, line)
                           ELSE [f.lines EXCEPT ![Len(f.lines)] = Garbage]
<1>1. f \in File /\ f.lines \in Seq(Line) /\ f.exists \in BOOLEAN /\ f.ended \in BOOLEAN
  BY DEF FileOK, File
<1>2. L \in Seq(Line) /\ L # <<>>
  <2>1. CASE f.ended
    BY <1>1, <2>1
  <2>2. CASE ~f.ended
    <3>1. f.lines # <<>>
      BY <2>2 DEF FileOK
    <3>2. [f.lines EXCEPT ![Len(f.lines)] = Garbage] \in Seq(Line)
      BY <1>1, <3>1, Bounds, ReplaceLast
    <3>3. Len([f.lines EXCEPT ![Len(f.lines)] = Garbage]) # 0
      BY <1>1, <3>1, Bounds, ReplaceLast
    <3>4. QED
      BY <2>2, <3>2, <3>3
  <2>3. QED
    BY <1>1, <2>1, <2>2
<1>3. Appended(f, line, ended) = [exists |-> f.exists, lines |-> L, ended |-> ended]
  <2>1. Appended(f, line, ended) = [f EXCEPT !.lines = L, !.ended = ended]
    BY DEF Appended
  <2> HIDE DEF L
  <2>2. QED
    BY <1>1, <2>1 DEF File
<1> HIDE DEF L
<1>4. [exists |-> f.exists, lines |-> L, ended |-> ended] \in File
  BY <1>1, <1>2 DEF File
<1>5. /\ f.ended => L = Append(f.lines, line)
      /\ ~f.ended => L = [f.lines EXCEPT ![Len(f.lines)] = Garbage]
  BY DEF L
<1>6. QED
  BY <1>2, <1>3, <1>4, <1>5 DEF FileOK

\* Line by line: a line of the new file is the one written, a spoiled one, or
\* one that was there; behind a whole line nothing changes and one is added;
\* and the finished lines are a prefix of the new file.
LEMMA AppendedLines ==
    ASSUME NEW f, FileOK(f), NEW line \in Line, NEW ended \in BOOLEAN
    PROVE  LET g == Appended(f, line, ended) IN
           /\ \A i \in DOMAIN g.lines :
                  \/ g.lines[i] \in {line, Garbage}
                  \/ i \in DOMAIN f.lines /\ g.lines[i] = f.lines[i]
           /\ f.ended =>
                  /\ \A i \in DOMAIN f.lines : i \in DOMAIN g.lines /\ g.lines[i] = f.lines[i]
                  /\ \E n \in DOMAIN g.lines :
                         /\ g.lines[n] = line /\ n \notin DOMAIN f.lines
                         /\ \A i \in DOMAIN g.lines : i = n \/ i \in DOMAIN f.lines
           /\ IsPrefix(IF f.ended THEN f.lines ELSE Front(f.lines), g.lines)
<1> DEFINE G == Appended(f, line, ended).lines
           F == f.lines
<1>1. F \in Seq(Line) /\ f.ended \in BOOLEAN
  BY DEF FileOK, File
<1>2. G \in Seq(Line)
  BY AppendedFile DEF File
<1>3. CASE f.ended
  <2>1. G = Append(F, line)
    BY <1>3, AppendedFile
  <2> HIDE DEF F, G
  <2>2. /\ Len(F) \in Nat /\ DOMAIN F = 1..Len(F) /\ DOMAIN G = 1..(Len(F) + 1)
        /\ G[Len(F) + 1] = line /\ \A i \in 1..Len(F) : G[i] = F[i]
    BY <1>1, <2>1
  <2>3. /\ Len(F) + 1 \in DOMAIN G /\ Len(F) + 1 \notin DOMAIN F
        /\ \A i \in DOMAIN G : i = Len(F) + 1 \/ i \in DOMAIN F
    BY <2>2
  <2>4. \A i \in DOMAIN F : i \in DOMAIN G /\ G[i] = F[i]
    BY <2>2
  <2>5. IsPrefix(F, G)
    <3>1. Len(G) = Len(F) + 1
      BY <1>1, <2>1
    <3>2. Len(F) <= Len(G)
      BY <2>2, <3>1
    <3>3. QED
      BY <1>1, <1>2, <2>2, <3>2, AgreeingIsPrefix
  <2>6. QED
    BY <1>3, <2>2, <2>3, <2>4, <2>5 DEF F, G
<1>4. CASE ~f.ended
  <2>1. G = [F EXCEPT ![Len(F)] = Garbage] /\ F # <<>>
    BY <1>4, AppendedFile DEF FileOK
  <2> HIDE DEF F, G
  <2>2. /\ Len(G) = Len(F) /\ DOMAIN G = 1..Len(F) /\ G[Len(F)] = Garbage
        /\ \A i \in 1..(Len(F) - 1) : G[i] = F[i]
    BY <1>1, <2>1, Bounds, ReplaceLast
  <2>3. Len(F) \in Nat \ {0} /\ DOMAIN F = 1..Len(F)
    BY <1>1, <2>1
  <2>4. ASSUME NEW i \in DOMAIN G
        PROVE  G[i] = Garbage \/ (i \in DOMAIN F /\ G[i] = F[i])
    <3>1. i = Len(F) \/ i \in 1..(Len(F) - 1)
      BY <2>2, <2>3
    <3>2. CASE i = Len(F)
      BY <2>2, <3>2
    <3>3. CASE i \in 1..(Len(F) - 1)
      <4>1. i \in 1..Len(F)
        BY <2>3, <3>3
      <4>2. QED
        BY <2>2, <2>3, <3>3, <4>1
    <3>4. QED
      BY <3>1, <3>2, <3>3
  <2>5. IsPrefix(Front(F), G)
    <3>1. /\ Front(F) \in Seq(Line) /\ Len(Front(F)) = Len(F) - 1
          /\ \A i \in 1..(Len(F) - 1) : Front(F)[i] = F[i]
      BY <1>1, <2>1, FrontOfLines
    <3>2. Len(Front(F)) <= Len(G) /\ \A i \in 1..Len(Front(F)) : Front(F)[i] = G[i]
      BY <2>2, <2>3, <3>1
    <3>3. QED
      BY <1>2, <3>1, <3>2, AgreeingIsPrefix
  <2>6. QED
    BY <1>4, <2>4, <2>5 DEF F, G
<1>5. QED
  BY <1>1, <1>3, <1>4

\* A file keeps its finished lines when nothing is written to it.
LEMMA KeptIsPrefix ==
    ASSUME NEW f, FileOK(f)
    PROVE  IsPrefix(IF f.ended THEN f.lines ELSE Front(f.lines), f.lines)
<1>1. f.lines \in Seq(Line) /\ f.ended \in BOOLEAN /\ Len(f.lines) \in Nat
  BY DEF FileOK, File
<1>2. CASE f.ended
  <2>1. Len(f.lines) <= Len(f.lines)
    BY <1>1
  <2>2. QED
    BY <1>1, <1>2, <2>1, AgreeingIsPrefix
<1>3. CASE ~f.ended
  <2>1. f.lines # <<>>
    BY <1>3 DEF FileOK
  <2>2. /\ Front(f.lines) \in Seq(Line) /\ Len(Front(f.lines)) = Len(f.lines) - 1
        /\ \A i \in 1..(Len(f.lines) - 1) : Front(f.lines)[i] = f.lines[i]
    BY <1>1, <2>1, FrontOfLines
  <2>3. Len(Front(f.lines)) <= Len(f.lines)
    BY <1>1, <2>2
  <2>4. QED
    BY <1>1, <1>3, <2>2, <2>3, AgreeingIsPrefix
<1>4. QED
  BY <1>1, <1>2, <1>3

\* Creating a file leaves what it holds.
LEMMA CreatedFile ==
    ASSUME NEW f, FileOK(f)
    PROVE  /\ FileOK(Created(f)) /\ Created(f).exists
           /\ Created(f).lines = f.lines /\ Created(f).ended = f.ended
<1>1. f \in File /\ f.lines \in Seq(Line) /\ f.ended \in BOOLEAN /\ (~f.ended => f.lines # <<>>)
  BY DEF FileOK, File
<1>2. Created(f) = [exists |-> TRUE, lines |-> f.lines, ended |-> f.ended]
  <2>1. ASSUME NEW b
        PROVE  [f EXCEPT !.exists = b] = [exists |-> b, lines |-> f.lines, ended |-> f.ended]
    BY <1>1 DEF File
  <2>2. QED
    BY <2>1 DEF Created
<1>3. QED
  BY <1>1, <1>2 DEF FileOK, File

\* What a write that was cut short leaves is a file still, and one that ends
\* with a whole line only if nothing was written.
LEMMA CutShortFile ==
    ASSUME NEW f, FileOK(f), f.exists, NEW line \in Line, NEW g \in CutShort(f, line)
    PROVE  /\ FileOK(g) /\ g.exists
           /\ g.ended => g = f
           /\ \A i \in DOMAIN g.lines :
                  \/ g.lines[i] \in {line, Garbage}
                  \/ i \in DOMAIN f.lines /\ g.lines[i] = f.lines[i]
           /\ IsPrefix(IF f.ended THEN f.lines ELSE Front(f.lines), g.lines)
<1>1. CASE g = f
  BY <1>1, KeptIsPrefix
<1>2. CASE g = Appended(f, line, FALSE)
  <2>1. line \in Line
    BY Bounds
  <2>2. (FileOK(g) \/ ~f.exists) /\ g.exists = f.exists /\ g.ended = FALSE
    BY <1>2, <2>1, AppendedFile
  <2>3. /\ \A i \in DOMAIN g.lines :
               \/ g.lines[i] \in {line, Garbage}
               \/ i \in DOMAIN f.lines /\ g.lines[i] = f.lines[i]
        /\ IsPrefix(IF f.ended THEN f.lines ELSE Front(f.lines), g.lines)
    <3>1. PICK e \in BOOLEAN : e = FALSE
      OBVIOUS
    <3>2. g = Appended(f, line, e)
      BY <1>2, <3>1
    <3>3. QED
      BY <2>1, <3>2, AppendedLines
  <2>4. QED
    BY <2>2, <2>3
<1>3. CASE g = Appended(f, Garbage, FALSE)
  <2>1. Garbage \in Line
    BY Bounds
  <2>2. (FileOK(g) \/ ~f.exists) /\ g.exists = f.exists /\ g.ended = FALSE
    BY <1>3, <2>1, AppendedFile
  <2>3. /\ \A i \in DOMAIN g.lines :
               \/ g.lines[i] \in {Garbage, Garbage}
               \/ i \in DOMAIN f.lines /\ g.lines[i] = f.lines[i]
        /\ IsPrefix(IF f.ended THEN f.lines ELSE Front(f.lines), g.lines)
    <3>1. PICK e \in BOOLEAN : e = FALSE
      OBVIOUS
    <3>2. g = Appended(f, Garbage, e)
      BY <1>3, <3>1
    <3>3. QED
      BY <2>1, <3>2, AppendedLines
  <2>4. QED
    BY <2>2, <2>3
<1>4. QED
  BY <1>1, <1>2, <1>3 DEF CutShort

----------------------------------------------------------------------------
(* What the steps do to the files *)

\* The day that is open, and the one the holder of the lock read, are days.
LEMMA DaysInUse ==
    ASSUME CallOK
    PROVE  /\ open.day \in Nat /\ today \in Nat
           /\ open.day # 0 => open.day \in Day
           /\ holder # Nobody => /\ holder \in Caller
                                 /\ dated[holder] \in Day /\ dated[holder] <= today
           /\ step \in {"sealing", "closing", "expiring", "appending", "syncing"} =>
                  open.day \in Day
<1>1. MaxDay \in Nat /\ Day = 1..MaxDay /\ Nobody \notin Caller
  BY AuditTrailAssumption DEF Day
<1>2. open.day \in 0..MaxDay /\ today \in 1..MaxDay
  BY <1>1 DEF CallOK, OpenFile
<1>3. open.day # 0 => open.day \in Day
  BY <1>1, <1>2
<1>4. ASSUME holder # Nobody
      PROVE  holder \in Caller /\ dated[holder] \in Day /\ dated[holder] <= today
  <2>1. holder \in Caller /\ dated[holder] # 0
    BY <1>4 DEF CallOK
  <2>2. dated[holder] \in 0..MaxDay /\ dated[holder] <= today
    BY <2>1 DEF CallOK
  <2>3. QED
    BY <1>1, <2>1, <2>2
<1>5. step \in {"expiring", "appending", "syncing"} => holder # Nobody /\ open.day = dated[holder]
  BY DEF CallOK, Locked
<1>6. QED
  BY <1>2, <1>3, <1>4, <1>5 DEF CallOK

\* The line `record` writes is a line as long as the bound on them allows.
LEMMA NewLineIsLine ==
    ASSUME CallOK, NumbersOK, written < MaxRecords
    PROVE  /\ NewLine \in Line
           /\ NewLine.id = written + 1 /\ NewLine.seq = open.seq + 1
           /\ NewLine.seq <= written + 1
<1>1. MaxRecords \in Nat /\ written \in 0..MaxRecords
  BY Bounds DEF NumbersOK
<1>2. open.seq \in 0..MaxRecords /\ open.previous \in 0..MaxRecords
  BY DEF CallOK, OpenFile
<1>3. open.seq <= written
  BY DEF NumbersOK
<1>4. written + 1 \in 0..MaxRecords /\ open.seq + 1 \in 0..MaxRecords /\ open.seq + 1 <= written + 1
  BY <1>1, <1>2, <1>3
<1>5. QED
  BY <1>2, <1>4 DEF NewLine, Line

\* `tail` reads nothing, or a line on disk.
LEMMA TailIsALine ==
    ASSUME DiskOK
    PROVE  \/ TailOfTrail = <<>>
           \/ \E e \in Day : \E i \in DOMAIN files[e].lines : TailOfTrail = <<files[e].lines[i]>>
<1> DEFINE latest == CHOOSE d \in Days : \A e \in Days : e <= d
<1>1. CASE Days = {}
  BY <1>1 DEF TailOfTrail
<1>2. CASE Days # {}
  <2>1. Days \in SUBSET Day
    BY DEF Days
  <2>2. latest \in Days
    BY <1>2, <2>1, LatestDay
  <2>3. TailOfTrail = IF files[latest].lines = <<>> THEN <<>> ELSE <<Last(files[latest].lines)>>
    BY <1>2 DEF TailOfTrail
  <2> HIDE DEF latest
  <2>4. latest \in Day /\ files[latest].lines \in Seq(Line)
    BY <2>1, <2>2 DEF DiskOK, File
  <2>5. files[latest].lines # <<>> => Len(files[latest].lines) \in DOMAIN files[latest].lines
    BY <2>4
  <2>6. QED
    BY <2>3, <2>4, <2>5 DEF Last
<1>3. QED
  BY <1>1, <1>2

\* open_for: the head it continues from is the one the process had, or a line
\* on disk, or there is none.
LEMMA OpenForHead ==
    ASSUME Shape, OpenFor
    PROVE  /\ open' \in OpenFile /\ open'.day = dated[holder]
           /\ open'.seq <= written /\ open'.previous <= written
           /\ \/ open'.seq = 0
              \/ open'.seq = open.seq /\ open'.previous = open.previous
              \/ OnDisk(files, open'.previous, open'.seq)
<1>1. dated[holder] \in 0..MaxDay
  <2>1. holder # Nobody
    BY DEF Shape, CallOK, OpenFor, Locked
  <2>2. QED
    BY <2>1, DaysInUse, Bounds DEF Shape, Day
<1>2. written \in Nat /\ MaxRecords \in Nat
  BY Bounds DEF Shape, NumbersOK
<1>3. CASE open.day # 0
  <2>1. open' = [day |-> dated[holder], seq |-> open.seq, previous |-> open.previous]
    BY <1>3 DEF OpenFor
  <2>2. open.seq \in 0..MaxRecords /\ open.previous \in 0..MaxRecords
    BY DEF Shape, CallOK, OpenFile
  <2>3. open.seq <= written /\ open.previous <= written
    BY DEF Shape, NumbersOK
  <2>4. QED
    BY <1>1, <2>1, <2>2, <2>3 DEF OpenFile
<1>4. CASE open.day = 0 /\ TailOfTrail = <<>>
  <2>1. open' = [Closed EXCEPT !.day = dated[holder]]
    BY <1>4 DEF OpenFor
  <2>2. open' = [day |-> dated[holder], seq |-> 0, previous |-> 0]
    BY <2>1 DEF Closed, Genesis
  <2>3. QED
    BY <1>1, <1>2, <2>2 DEF OpenFile
<1>5. ASSUME open.day = 0,
             NEW e \in Day, NEW i \in DOMAIN files[e].lines, TailOfTrail = <<files[e].lines[i]>>
      PROVE  /\ open' = [day |-> dated[holder], seq |-> files[e].lines[i].seq,
                         previous |-> files[e].lines[i].id]
             /\ files[e].lines[i] \in Line
             /\ files[e].lines[i].id <= written /\ files[e].lines[i].seq <= written
  <2>1. open' = [day |-> dated[holder], seq |-> files[e].lines[i].seq,
                 previous |-> files[e].lines[i].id]
    BY <1>5 DEF OpenFor
  <2>2. files[e].lines \in Seq(Line)
    BY DEF Shape, DiskOK, File
  <2>3. files[e].lines[i] \in Line
    BY <2>2
  <2>4. files[e].lines[i].id <= written /\ files[e].lines[i].seq <= written
    BY DEF Shape, NumbersOK
  <2>5. QED
    BY <2>1, <2>3, <2>4
<1>6. CASE open.day = 0 /\ TailOfTrail # <<>>
  <2>1. PICK e \in Day : \E i \in DOMAIN files[e].lines : TailOfTrail = <<files[e].lines[i]>>
    BY <1>6, TailIsALine DEF Shape
  <2>2. PICK i \in DOMAIN files[e].lines : TailOfTrail = <<files[e].lines[i]>>
    BY <2>1
  <2>3. /\ open' = [day |-> dated[holder], seq |-> files[e].lines[i].seq,
                    previous |-> files[e].lines[i].id]
        /\ files[e].lines[i] \in Line
        /\ files[e].lines[i].id <= written /\ files[e].lines[i].seq <= written
    BY <1>5, <1>6, <2>2
  <2>4. OnDisk(files, open'.previous, open'.seq)
    BY <2>3 DEF OnDisk
  <2>5. QED
    BY <1>1, <2>3, <2>4 DEF OpenFile, Line
<1>7. QED
  BY <1>3, <1>4, <1>6

\* The lines of a file that have their end.
Finished(f) == IF f.ended THEN f.lines ELSE Front(f.lines)

\* A step writes to the file of day d and leaves g: the finished lines stay,
\* and what is new is spoiled or the line of this call.  As long as no line is
\* left without its end every line stays and at most the new one is added.
Writes(d, g) ==
    /\ files' = [files EXCEPT ![d] = g]
    /\ FileOK(g) /\ g.exists
    /\ IsPrefix(Finished(files[d]), g.lines)
    /\ \A i \in DOMAIN g.lines :
           \/ i \in DOMAIN files[d].lines /\ g.lines[i] = files[d].lines[i]
           \/ g.lines[i] = Garbage
           \/ g.lines[i] = NewLine /\ written < MaxRecords /\ written' = written + 1
    /\ ~cut' =>
           /\ g.ended
           /\ \A i \in DOMAIN files[d].lines :
                  i \in DOMAIN g.lines /\ g.lines[i] = files[d].lines[i]
           /\ \A i \in DOMAIN g.lines \ DOMAIN files[d].lines : g.lines[i] = NewLine
           /\ \A i, j \in DOMAIN g.lines \ DOMAIN files[d].lines : i = j

\* A step drops day d, which is past its retention and not the one that is open.
Drops(d) ==
    /\ files' = [files EXCEPT ![d] = Absent]
    /\ d < today - Retention /\ d # open.day
    /\ dropped' = TRUE /\ UNCHANGED <<open, today>>

\* Writing to a file nothing, or only that it is there.
LEMMA WritesNothing ==
    ASSUME DiskOK, LinesOK, NEW d \in Day, NEW g, files[d].exists \/ g # files[d],
           g = files[d] \/ g = Created(files[d]),
           files' = [files EXCEPT ![d] = g], ~cut' => ~cut
    PROVE  Writes(d, g)
<1>1. FileOK(files[d])
  BY DEF DiskOK
<1>2. /\ FileOK(g) /\ g.exists
      /\ g.lines = files[d].lines /\ g.ended = files[d].ended
  BY <1>1, CreatedFile
<1>3. IsPrefix(Finished(files[d]), g.lines)
  BY <1>1, <1>2, KeptIsPrefix DEF Finished
<1>4. ~cut' => g.ended
  BY <1>2 DEF LinesOK
<1>5. QED
  BY <1>2, <1>3, <1>4 DEF Writes

\* A write that is cut short (AppendFails, and a crash while a line is written).
LEMMA WritesCutShort ==
    ASSUME DiskOK, CallOK, OpenOK, NumbersOK, LinesOK,
           step = "appending", written < MaxRecords, written' = written + 1,
           NEW g \in CutShort(files[open.day], NewLine),
           files' = [files EXCEPT ![open.day] = g], cut' = (cut \/ ~g.ended)
    PROVE  open.day \in Day /\ Writes(open.day, g)
<1>1. open.day \in Day
  BY DaysInUse
<1>2. FileOK(files[open.day]) /\ files[open.day].exists
  BY <1>1, Bounds DEF DiskOK, OpenOK
<1>3. NewLine \in Line
  BY NewLineIsLine
<1>4. /\ FileOK(g) /\ g.exists
      /\ g.ended => g = files[open.day]
      /\ \A i \in DOMAIN g.lines :
             \/ g.lines[i] \in {NewLine, Garbage}
             \/ i \in DOMAIN files[open.day].lines /\ g.lines[i] = files[open.day].lines[i]
      /\ IsPrefix(IF files[open.day].ended THEN files[open.day].lines
                  ELSE Front(files[open.day].lines), g.lines)
  BY <1>2, <1>3, CutShortFile
<1>5. ~cut' => g.ended /\ g = files[open.day]
  BY <1>4
<1>6. QED
  BY <1>1, <1>4, <1>5 DEF Writes, Finished

\* A line that is appended whole.
LEMMA WritesLine ==
    ASSUME DiskOK, CallOK, OpenOK, NumbersOK, LinesOK, AppendLine
    PROVE  /\ open.day \in Day
           /\ Writes(open.day, Appended(files[open.day], NewLine, TRUE))
           /\ ~cut' => \E n \in DOMAIN files'[open.day].lines : files'[open.day].lines[n] = NewLine
<1> DEFINE f == files[open.day]
           g == Appended(f, NewLine, TRUE)
<1>1. open.day \in Day
  BY DaysInUse DEF AppendLine
<1>2. FileOK(f) /\ f.exists
  BY <1>1, Bounds DEF DiskOK, OpenOK
<1>3. NewLine \in Line /\ written < MaxRecords /\ written' = written + 1
  BY NewLineIsLine DEF AppendLine
<1>4. files' = [files EXCEPT ![open.day] = g] /\ cut' = cut
  BY DEF AppendLine, histVars
<1>5. PICK e \in BOOLEAN : e = TRUE
  OBVIOUS
<1>6. g = Appended(f, NewLine, e)
  BY <1>5
<1> HIDE DEF f, g
<1>7. FileOK(g) /\ g.exists /\ g.ended
  BY <1>2, <1>3, <1>5, <1>6, AppendedFile
<1>8. /\ \A i \in DOMAIN g.lines :
             \/ g.lines[i] \in {NewLine, Garbage}
             \/ i \in DOMAIN f.lines /\ g.lines[i] = f.lines[i]
      /\ f.ended =>
             /\ \A i \in DOMAIN f.lines : i \in DOMAIN g.lines /\ g.lines[i] = f.lines[i]
             /\ \E n \in DOMAIN g.lines :
                    /\ g.lines[n] = NewLine /\ n \notin DOMAIN f.lines
                    /\ \A i \in DOMAIN g.lines : i = n \/ i \in DOMAIN f.lines
      /\ IsPrefix(IF f.ended THEN f.lines ELSE Front(f.lines), g.lines)
  BY <1>2, <1>3, <1>6, AppendedLines
<1>9. ~cut' => f.ended
  BY <1>1, <1>4 DEF LinesOK, f
<1>10. files'[open.day] = g
  BY <1>1, <1>4 DEF DiskOK
<1>11. ~cut' => /\ \A i \in DOMAIN f.lines : i \in DOMAIN g.lines /\ g.lines[i] = f.lines[i]
                /\ \A i \in DOMAIN g.lines \ DOMAIN f.lines : g.lines[i] = NewLine
                /\ \A i, j \in DOMAIN g.lines \ DOMAIN f.lines : i = j
                /\ \E n \in DOMAIN g.lines : g.lines[n] = NewLine
  BY <1>8, <1>9
<1>12. Writes(open.day, g)
  BY <1>3, <1>4, <1>7, <1>8, <1>11 DEF Writes, Finished, f
<1>13. QED
  BY <1>1, <1>10, <1>11, <1>12 DEF f, g

\* Every step leaves the files, drops one that is past its retention, or
\* writes to one.
LEMMA FileEffects ==
    ASSUME Shape, LinesOK, [Next]_vars
    PROVE  \/ UNCHANGED files
           \/ \E d \in Day : Drops(d)
           \/ \E d \in Day : \E g : Writes(d, g)
<1>1. DiskOK /\ CallOK /\ OpenOK /\ NumbersOK /\ HistoryOK
  BY DEF Shape
<1>2. ASSUME NEW d \in Day, ExpireDay(d)
      PROVE  Drops(d)
  <2>1. d \in Days /\ d < ExpiryDay - Retention /\ d \in Nat /\ Retention \in Nat
    BY <1>2, Bounds DEF ExpireDay, Past
  <2>2. ExpiryDay \in Nat /\ ExpiryDay <= today /\ today \in Nat
    BY <1>1, <1>2, DaysInUse, Bounds DEF ExpireDay, ExpiryDay, CallOK, Locked
  <2>3. d < today - Retention
    BY <2>1, <2>2
  <2>4. d # open.day
    <3>1. CASE step = "prepare"
      BY <1>1, <3>1, Bounds DEF CallOK, Closed
    <3>2. CASE step = "expiring"
      <4>1. ExpiryDay = open.day
        BY <1>1, <3>2 DEF ExpiryDay, CallOK
      <4>2. QED
        BY <2>1, <2>2, <4>1
    <3>3. QED
      BY <1>2, <3>1, <3>2 DEF ExpireDay
  <2>5. QED
    BY <1>2, <2>3, <2>4 DEF ExpireDay, Drops
<1>3. CASE Crash
  <2>1. CASE step = "appending" /\ written < MaxRecords
    <3>1. PICK f \in CutShort(files[open.day], NewLine) :
              files' = [files EXCEPT ![open.day] = f] /\ cut' = (cut \/ ~f.ended)
      BY <1>3, <2>1 DEF Crash
    <3>2. written' = written + 1
      BY <1>3, <2>1 DEF Crash
    <3>3. QED
      BY <1>1, <2>1, <3>1, <3>2, WritesCutShort
  <2>2. CASE ~(step = "appending" /\ written < MaxRecords)
    BY <1>3, <2>2 DEF Crash
  <2>3. QED
    BY <2>1, <2>2
<1>4. CASE OpenFor
  <2>1. dated[holder] \in Day
    BY <1>1, <1>4, DaysInUse DEF OpenFor, CallOK, Locked
  <2>2. FileOK(files[dated[holder]])
    BY <1>1, <2>1 DEF DiskOK
  <2>3. Created(files[dated[holder]]).exists
    BY <2>2, CreatedFile
  <2>4. files' = [files EXCEPT ![dated[holder]] = Created(files[dated[holder]])] /\ cut' = cut
    BY <1>4 DEF OpenFor, histVars
  <2>5. files[dated[holder]].exists \/ Created(files[dated[holder]]) # files[dated[holder]]
    BY <2>3
  <2>6. QED
    BY <1>1, <2>1, <2>4, <2>5, WritesNothing
<1>5. CASE OpenFails
  <2>1. dated[holder] \in Day /\ cut' = cut
    BY <1>1, <1>5, DaysInUse DEF OpenFails, CallOK, Locked, histVars
  <2>2. PICK f \in {files[dated[holder]], Created(files[dated[holder]])} :
            files' = [files EXCEPT ![dated[holder]] = f]
    BY <1>5 DEF OpenFails
  <2>3. CASE f = files[dated[holder]]
    BY <1>1, <2>1, <2>2, <2>3 DEF DiskOK
  <2>4. CASE f # files[dated[holder]]
    BY <1>1, <2>1, <2>2, <2>4, WritesNothing
  <2>5. QED
    BY <2>3, <2>4
<1>6. CASE AppendLine
  BY <1>1, <1>6, WritesLine
<1>7. CASE AppendFails
  <2>1. PICK f \in CutShort(files[open.day], NewLine) :
            files' = [files EXCEPT ![open.day] = f] /\ cut' = (cut \/ ~f.ended)
    BY <1>7 DEF AppendFails
  <2>2. step = "appending" /\ written < MaxRecords /\ written' = written + 1
    BY <1>7 DEF AppendFails
  <2>3. QED
    BY <1>1, <2>1, <2>2, WritesCutShort
<1>8. CASE Tick \/ Start \/ Exit \/ Prepared \/ PrepareFails \/ ExpireDone \/ ExpireFails
  BY <1>8 DEF Tick, Start, Exit, Prepared, PrepareFails, ExpireDone, ExpireFails, diskVars
<1>9. CASE (\E c \in Caller : Begin(c) \/ Enter(c)) \/ SealClosing \/ OpenRefused \/ OutOfRecords
  BY <1>9 DEF Begin, Enter, SealClosing, OpenRefused, OutOfRecords, diskVars
<1>10. CASE Sync \/ SyncFails \/ Shutdown \/ Close \/ CloseFails \/ UNCHANGED vars
  BY <1>10 DEF Sync, SyncFails, Shutdown, Close, CloseFails, vars, diskVars
<1>11. QED
  BY <1>2, <1>3, <1>4, <1>5, <1>6, <1>7, <1>8, <1>9, <1>10 DEF Next

\* The seals are left by every step but these.
LEMMA SealEffects ==
    ASSUME [Next]_vars
    PROVE  \/ UNCHANGED seals
           \/ Crash \/ SealClosing \/ Close
           \/ \E d \in Day : ExpireDay(d)
<1>1. CASE Tick \/ Start \/ Exit \/ Prepared \/ PrepareFails \/ ExpireDone \/ ExpireFails
  BY <1>1 DEF Tick, Start, Exit, Prepared, PrepareFails, ExpireDone, ExpireFails, diskVars
<1>2. CASE (\E c \in Caller : Begin(c) \/ Enter(c)) \/ OpenFor \/ OpenRefused \/ OpenFails
  BY <1>2 DEF Begin, Enter, OpenFor, OpenRefused, OpenFails, diskVars
<1>3. CASE AppendLine \/ AppendFails \/ OutOfRecords
  BY <1>3 DEF AppendLine, AppendFails, OutOfRecords, diskVars
<1>4. CASE Sync \/ SyncFails \/ Shutdown \/ CloseFails \/ UNCHANGED vars
  BY <1>4 DEF Sync, SyncFails, Shutdown, CloseFails, vars, diskVars
<1>5. QED
  BY <1>1, <1>2, <1>3, <1>4 DEF Next

----------------------------------------------------------------------------
(* The inductive invariant: its shape *)

\* An empty volume and no process satisfy the invariant.
LEMMA TrailInit == Init => TrailInv
<1> SUFFICES ASSUME Init
             PROVE  TrailInv
  OBVIOUS
<1>1. Absent \in File /\ NoSeal \in Seal /\ Closed \in OpenFile
  BY Bounds DEF Absent, File, NoSeal, Seal, Closed, OpenFile, Genesis
<1>2. DiskOK
  BY <1>1 DEF Init, DiskOK, FileOK, Absent
<1>3. CallOK
  BY <1>1, Bounds DEF Init, CallOK, Step, Locked, Closed
<1>4. OpenOK
  BY DEF Init, OpenOK, Closed
<1>5. NumbersOK
  BY Bounds DEF Init, NumbersOK, Closed, Absent, Genesis
<1>6. HistoryOK
  <2>1. dropped \in BOOLEAN /\ cut \in BOOLEAN
    BY DEF Init
  <2>2. crashes \in 0..MaxCrashes /\ errors \in 0..MaxErrors /\ acked = {}
    BY Bounds DEF Init
  <2>3. QED
    BY <2>1, <2>2 DEF HistoryOK
<1>7. LinesOK /\ PendingOK /\ AckedOK
  BY DEF Init, LinesOK, PendingOK, AckedOK, Absent
<1>8. TruthOK
  BY Bounds DEF Init, TruthOK, Closed, NoSeal
<1>9. QED
  BY <1>2, <1>3, <1>4, <1>5, <1>6, <1>7, <1>8 DEF TrailInv, Shape

\* Files stay files and seals stay seals, torn ones included.
LEMMA StepKeepsDisk ==
    ASSUME Shape, LinesOK, [Next]_vars
    PROVE  DiskOK'
<1>1. DiskOK /\ CallOK /\ OpenOK /\ NumbersOK
  BY DEF Shape
<1>2. files' \in [Day -> File] /\ \A d \in Day : FileOK(files'[d])
  <2>1. CASE UNCHANGED files
    BY <1>1, <2>1 DEF DiskOK
  <2>2. ASSUME NEW d \in Day, Drops(d)
        PROVE  files' \in [Day -> File] /\ \A e \in Day : FileOK(files'[e])
    <3>1. FileOK(Absent)
      BY DEF FileOK, Absent, File
    <3>2. QED
      BY <1>1, <2>2, <3>1 DEF DiskOK, Drops, FileOK
  <2>3. ASSUME NEW d \in Day, NEW g, Writes(d, g)
        PROVE  files' \in [Day -> File] /\ \A e \in Day : FileOK(files'[e])
    BY <1>1, <2>3 DEF DiskOK, Writes, FileOK
  <2>4. QED
    BY <2>1, <2>2, <2>3, FileEffects
<1>3. seals' \in [Day -> Seal]
  <2>1. NoSeal \in Seal /\ TornSeal \in Seal
    BY Bounds DEF NoSeal, TornSeal, Seal
  <2>2. seals \in [Day -> Seal]
    BY <1>1 DEF DiskOK
  <2>3. ASSUME NEW d \in Day, ExpireDay(d)
        PROVE  seals' \in [Day -> Seal]
    BY <2>1, <2>2, <2>3 DEF ExpireDay
  <2>4. ASSUME step \in {"sealing", "closing"}, WriteSeal \/ CutSeal
        PROVE  seals' \in [Day -> Seal]
    <3>1. open.day \in Day /\ open \in OpenFile
      BY <1>1, <2>4, DaysInUse DEF CallOK
    <3>2. [kind |-> "whole", records |-> open.seq, head |-> open.previous] \in Seal
      BY <3>1 DEF OpenFile, Seal
    <3>3. QED
      BY <2>1, <2>2, <2>4, <3>1, <3>2 DEF WriteSeal, CutSeal
  <2>5. CASE SealClosing \/ Close
    BY <2>4, <2>5 DEF SealClosing, Close
  <2>6. CASE Crash
    <3>1. CASE step \in {"sealing", "closing"}
      BY <2>4, <2>6, <3>1 DEF Crash, CutSeal
    <3>2. CASE step \notin {"sealing", "closing"}
      BY <2>2, <2>6, <3>2 DEF Crash
    <3>3. QED
      BY <3>1, <3>2
  <2>7. CASE UNCHANGED seals
    BY <2>2, <2>7
  <2>8. QED
    BY <2>3, <2>5, <2>6, <2>7, SealEffects
<1>4. QED
  BY <1>2, <1>3 DEF DiskOK


\* The lock, the days the callers read and the file that is open, through every
\* step of a call, a failure and a crash.
LEMMA StepKeepsCall ==
    ASSUME Shape, [Next]_vars
    PROVE  CallOK'
<1>1. CallOK
  BY DEF Shape
<1>2. Nobody \notin Caller /\ MaxDay \in Nat \ {0} /\ Day = 1..MaxDay /\ MaxRecords \in Nat
  BY AuditTrailAssumption DEF Day
<1>3. Closed \in OpenFile /\ Closed.day = 0
  BY <1>2 DEF Closed, OpenFile, Genesis
<1>4. /\ open.day \in Nat /\ today \in Nat
      /\ open.day # 0 => open.day \in Day
      /\ holder # Nobody => /\ holder \in Caller
                            /\ dated[holder] \in Day /\ dated[holder] <= today
  BY <1>1, DaysInUse
<1> USE DEF CallOK, Step, Locked
<1>5. CASE Tick
  BY <1>1, <1>2, <1>3, <1>4, <1>5 DEF Tick
<1>6. CASE Start
  BY <1>1, <1>2, <1>3, <1>4, <1>6 DEF Start
<1>7. CASE Exit
  BY <1>1, <1>2, <1>3, <1>4, <1>7 DEF Exit
<1>8. CASE Crash
  BY <1>1, <1>2, <1>3, <1>4, <1>8 DEF Crash
<1>9. CASE Prepared
  BY <1>1, <1>2, <1>3, <1>4, <1>9 DEF Prepared
<1>10. CASE PrepareFails
  BY <1>1, <1>2, <1>3, <1>4, <1>10 DEF PrepareFails
<1>11. CASE ExpireDone
  BY <1>1, <1>2, <1>3, <1>4, <1>11 DEF ExpireDone
<1>12. CASE ExpireFails
  BY <1>1, <1>2, <1>3, <1>4, <1>12 DEF ExpireFails, Release
<1>13. CASE SealClosing
  BY <1>1, <1>2, <1>3, <1>4, <1>13 DEF SealClosing
<1>14. CASE OpenFor
  <2>1. open' \in OpenFile /\ open'.day = dated[holder]
    BY <1>14, OpenForHead
  <2>2. QED
    BY <1>1, <1>2, <1>3, <1>4, <1>14, <2>1 DEF OpenFor
<1>15. CASE OpenRefused
  BY <1>1, <1>2, <1>3, <1>4, <1>15 DEF OpenRefused, Release
<1>16. CASE OpenFails
  BY <1>1, <1>2, <1>3, <1>4, <1>16 DEF OpenFails, Release
<1>17. CASE AppendLine
  BY <1>1, <1>2, <1>3, <1>4, <1>17 DEF AppendLine
<1>18. CASE AppendFails
  BY <1>1, <1>2, <1>3, <1>4, <1>18 DEF AppendFails, Release
<1>19. CASE OutOfRecords
  BY <1>1, <1>2, <1>3, <1>4, <1>19 DEF OutOfRecords, Release
<1>20. CASE Sync
  <2>1. open' = [day |-> open.day, seq |-> open.seq + 1, previous |-> written]
    BY <1>1, <1>20 DEF Sync, OpenFile
  <2>2. open.seq + 1 \in 0..MaxRecords /\ written \in 0..MaxRecords
    <3>1. open.seq \in 0..MaxRecords /\ open.seq < written /\ written \in 0..MaxRecords
      BY <1>1, <1>20 DEF Sync, Shape, NumbersOK, OpenFile
    <3>2. QED
      BY <1>2, <3>1
  <2>3. open' \in OpenFile /\ open'.day = open.day
    BY <1>1, <2>1, <2>2 DEF OpenFile
  <2>4. QED
    BY <1>1, <1>2, <1>3, <1>4, <1>20, <2>3 DEF Sync, Release
<1>21. CASE SyncFails
  BY <1>1, <1>2, <1>3, <1>4, <1>21 DEF SyncFails, Release
<1>22. CASE Shutdown
  BY <1>1, <1>2, <1>3, <1>4, <1>22 DEF Shutdown
<1>23. CASE Close
  BY <1>1, <1>2, <1>3, <1>4, <1>23 DEF Close
<1>24. CASE CloseFails
  BY <1>1, <1>2, <1>3, <1>4, <1>24 DEF CloseFails
<1>25. ASSUME NEW d \in Day, ExpireDay(d)
      PROVE  CallOK'
  BY <1>1, <1>2, <1>3, <1>4, <1>25 DEF ExpireDay
<1>26. ASSUME NEW c \in Caller, Begin(c)
      PROVE  CallOK'
  BY <1>1, <1>2, <1>3, <1>4, <1>26 DEF Begin
<1>27. ASSUME NEW c \in Caller, Enter(c)
      PROVE  CallOK'
  BY <1>1, <1>2, <1>3, <1>4, <1>27 DEF Enter
<1>28. CASE UNCHANGED vars
  BY <1>1, <1>28 DEF vars
<1>29. QED
  BY <1>5, <1>6, <1>7, <1>8, <1>9, <1>10, <1>11, <1>12, <1>13, <1>14, <1>15, <1>16, <1>17, <1>18, <1>19, <1>20, <1>21, <1>22, <1>23, <1>24, <1>25, <1>26, <1>27, <1>28 DEF Next

\* The file that is open changes only when a process opens one, ends, closes
\* it, or moves the head.
LEMMA OpenEffects ==
    ASSUME [Next]_vars
    PROVE  UNCHANGED open \/ open' = Closed \/ OpenFor \/ Sync
<1>1. CASE Tick \/ Start \/ Exit \/ Crash \/ Prepared \/ PrepareFails \/ ExpireDone \/ ExpireFails
  BY <1>1 DEF Tick, Start, Exit, Crash, Prepared, PrepareFails, ExpireDone, ExpireFails
<1>2. CASE \/ \E d \in Day : ExpireDay(d)
           \/ \E c \in Caller : Begin(c) \/ Enter(c)
  BY <1>2 DEF ExpireDay, Begin, Enter
<1>3. CASE SealClosing \/ OpenRefused \/ OpenFails \/ AppendLine \/ AppendFails \/ OutOfRecords
  BY <1>3 DEF SealClosing, OpenRefused, OpenFails, AppendLine, AppendFails, OutOfRecords
<1>4. CASE SyncFails \/ Shutdown \/ Close \/ CloseFails \/ UNCHANGED vars
  BY <1>4 DEF SyncFails, Shutdown, Close, CloseFails, vars
<1>5. QED
  BY <1>1, <1>2, <1>3, <1>4 DEF Next

\* A call is about to flush only after it appended its line, and nothing that
\* matters to it happens meanwhile.
LEMMA SyncingEffects ==
    ASSUME [Next]_vars, step' = "syncing"
    PROVE  AppendLine \/ (step = "syncing" /\ UNCHANGED <<files, open, written, cut>>)
<1>1. CASE Tick
  BY <1>1 DEF Tick, Release, diskVars, histVars
<1>2. CASE Start
  BY <1>2 DEF Start, Release, diskVars, histVars
<1>3. CASE Exit
  BY <1>3 DEF Exit, Release, diskVars, histVars
<1>4. CASE Crash
  BY <1>4 DEF Crash, Release, diskVars, histVars
<1>5. CASE Prepared
  BY <1>5 DEF Prepared, Release, diskVars, histVars
<1>6. CASE PrepareFails
  BY <1>6 DEF PrepareFails, Release, diskVars, histVars
<1>7. CASE ExpireDone
  BY <1>7 DEF ExpireDone, Release, diskVars, histVars
<1>8. CASE ExpireFails
  BY <1>8 DEF ExpireFails, Release, diskVars, histVars
<1>9. CASE SealClosing
  BY <1>9 DEF SealClosing, Release, diskVars, histVars
<1>10. CASE OpenFor
  BY <1>10 DEF OpenFor, Release, diskVars, histVars
<1>11. CASE OpenRefused
  BY <1>11 DEF OpenRefused, Release, diskVars, histVars
<1>12. CASE OpenFails
  BY <1>12 DEF OpenFails, Release, diskVars, histVars
<1>13. CASE AppendLine
  BY <1>13
<1>14. CASE AppendFails
  BY <1>14 DEF AppendFails, Release, diskVars, histVars
<1>15. CASE OutOfRecords
  BY <1>15 DEF OutOfRecords, Release, diskVars, histVars
<1>16. CASE Sync
  BY <1>16 DEF Sync, Release, diskVars, histVars
<1>17. CASE SyncFails
  BY <1>17 DEF SyncFails, Release, diskVars, histVars
<1>18. CASE Shutdown
  BY <1>18 DEF Shutdown, Release, diskVars, histVars
<1>19. CASE Close
  BY <1>19 DEF Close, Release, diskVars, histVars
<1>20. CASE CloseFails
  BY <1>20 DEF CloseFails, Release, diskVars, histVars
<1>21. ASSUME NEW d \in Day, ExpireDay(d)
      PROVE  AppendLine \/ (step = "syncing" /\ UNCHANGED <<files, open, written, cut>>)
  BY <1>21 DEF ExpireDay, Release, diskVars, histVars
<1>22. ASSUME NEW c \in Caller, Begin(c)
      PROVE  AppendLine \/ (step = "syncing" /\ UNCHANGED <<files, open, written, cut>>)
  BY <1>22 DEF Begin, Release, diskVars, histVars
<1>23. ASSUME NEW c \in Caller, Enter(c)
      PROVE  AppendLine \/ (step = "syncing" /\ UNCHANGED <<files, open, written, cut>>)
  BY <1>23 DEF Enter, Release, diskVars, histVars
<1>24. CASE UNCHANGED vars
  BY <1>24 DEF vars
<1>25. QED
  BY <1>1, <1>2, <1>3, <1>4, <1>5, <1>6, <1>7, <1>8, <1>9, <1>10, <1>11, <1>12, <1>13, <1>14, <1>15, <1>16, <1>17, <1>18, <1>19, <1>20, <1>21, <1>22, <1>23, <1>24 DEF Next

\* What was done is not forgotten, and only a flush is acknowledged.
LEMMA HistoryGrows ==
    ASSUME HistoryOK, [Next]_vars
    PROVE  /\ cut' \in BOOLEAN /\ dropped' \in BOOLEAN
           /\ cut => cut'
           /\ dropped => dropped'
           /\ acked' = acked \/ Sync
<1> USE DEF HistoryOK
<1>1. CASE Tick
  BY <1>1 DEF Tick, histVars
<1>2. CASE Start
  BY <1>2 DEF Start, histVars
<1>3. CASE Exit
  BY <1>3 DEF Exit, histVars
<1>4. CASE Crash
  BY <1>4 DEF Crash, histVars
<1>5. CASE Prepared
  BY <1>5 DEF Prepared, histVars
<1>6. CASE PrepareFails
  BY <1>6 DEF PrepareFails, histVars
<1>7. CASE ExpireDone
  BY <1>7 DEF ExpireDone, histVars
<1>8. CASE ExpireFails
  BY <1>8 DEF ExpireFails, histVars
<1>9. CASE SealClosing
  BY <1>9 DEF SealClosing, histVars
<1>10. CASE OpenFor
  BY <1>10 DEF OpenFor, histVars
<1>11. CASE OpenRefused
  BY <1>11 DEF OpenRefused, histVars
<1>12. CASE OpenFails
  BY <1>12 DEF OpenFails, histVars
<1>13. CASE AppendLine
  BY <1>13 DEF AppendLine, histVars
<1>14. CASE AppendFails
  BY <1>14 DEF AppendFails, histVars
<1>15. CASE OutOfRecords
  BY <1>15 DEF OutOfRecords, histVars
<1>16. CASE Sync
  BY <1>16 DEF Sync, histVars
<1>17. CASE SyncFails
  BY <1>17 DEF SyncFails, histVars
<1>18. CASE Shutdown
  BY <1>18 DEF Shutdown, histVars
<1>19. CASE Close
  BY <1>19 DEF Close, histVars
<1>20. CASE CloseFails
  BY <1>20 DEF CloseFails, histVars
<1>21. ASSUME NEW d \in Day, ExpireDay(d)
      PROVE  /\ cut' \in BOOLEAN /\ dropped' \in BOOLEAN
             /\ cut => cut'
             /\ dropped => dropped'
             /\ acked' = acked \/ Sync
  BY <1>21 DEF ExpireDay, histVars
<1>22. ASSUME NEW c \in Caller, Begin(c)
      PROVE  /\ cut' \in BOOLEAN /\ dropped' \in BOOLEAN
             /\ cut => cut'
             /\ dropped => dropped'
             /\ acked' = acked \/ Sync
  BY <1>22 DEF Begin, histVars
<1>23. ASSUME NEW c \in Caller, Enter(c)
      PROVE  /\ cut' \in BOOLEAN /\ dropped' \in BOOLEAN
             /\ cut => cut'
             /\ dropped => dropped'
             /\ acked' = acked \/ Sync
  BY <1>23 DEF Enter, histVars
<1>24. CASE UNCHANGED vars
  BY <1>24 DEF vars
<1>25. QED
  BY <1>1, <1>2, <1>3, <1>4, <1>5, <1>6, <1>7, <1>8, <1>9, <1>10, <1>11, <1>12, <1>13, <1>14, <1>15, <1>16, <1>17, <1>18, <1>19, <1>20, <1>21, <1>22, <1>23, <1>24 DEF Next

\* Time does not go back, and faults are counted.
LEMMA CountersGrow ==
    ASSUME HistoryOK, CallOK, NumbersOK, [Next]_vars
    PROVE  /\ today' = today \/ today' = today + 1
           /\ written' = written \/ (written < MaxRecords /\ written' = written + 1)
           /\ crashes' \in 0..MaxCrashes /\ errors' \in 0..MaxErrors
<1> USE Bounds DEF HistoryOK
<1>1. CASE Tick
  BY <1>1 DEF Tick, NoFault, Fails
<1>2. CASE Start
  BY <1>2 DEF Start, NoFault, Fails
<1>3. CASE Exit
  BY <1>3 DEF Exit, NoFault, Fails
<1>4. CASE Crash
  BY <1>4 DEF Crash, NoFault, Fails
<1>5. CASE Prepared
  BY <1>5 DEF Prepared, NoFault, Fails
<1>6. CASE PrepareFails
  BY <1>6 DEF PrepareFails, NoFault, Fails
<1>7. CASE ExpireDone
  BY <1>7 DEF ExpireDone, NoFault, Fails
<1>8. CASE ExpireFails
  BY <1>8 DEF ExpireFails, NoFault, Fails
<1>9. CASE SealClosing
  BY <1>9 DEF SealClosing, NoFault, Fails
<1>10. CASE OpenFor
  BY <1>10 DEF OpenFor, NoFault, Fails
<1>11. CASE OpenRefused
  BY <1>11 DEF OpenRefused, NoFault, Fails
<1>12. CASE OpenFails
  BY <1>12 DEF OpenFails, NoFault, Fails
<1>13. CASE AppendLine
  BY <1>13 DEF AppendLine, NoFault, Fails
<1>14. CASE AppendFails
  BY <1>14 DEF AppendFails, NoFault, Fails
<1>15. CASE OutOfRecords
  BY <1>15 DEF OutOfRecords, NoFault, Fails
<1>16. CASE Sync
  BY <1>16 DEF Sync, NoFault, Fails
<1>17. CASE SyncFails
  BY <1>17 DEF SyncFails, NoFault, Fails
<1>18. CASE Shutdown
  BY <1>18 DEF Shutdown, NoFault, Fails
<1>19. CASE Close
  BY <1>19 DEF Close, NoFault, Fails
<1>20. CASE CloseFails
  BY <1>20 DEF CloseFails, NoFault, Fails
<1>21. ASSUME NEW d \in Day, ExpireDay(d)
      PROVE  /\ today' = today \/ today' = today + 1
             /\ written' = written \/ (written < MaxRecords /\ written' = written + 1)
             /\ crashes' \in 0..MaxCrashes /\ errors' \in 0..MaxErrors
  BY <1>21 DEF ExpireDay, NoFault, Fails
<1>22. ASSUME NEW c \in Caller, Begin(c)
      PROVE  /\ today' = today \/ today' = today + 1
             /\ written' = written \/ (written < MaxRecords /\ written' = written + 1)
             /\ crashes' \in 0..MaxCrashes /\ errors' \in 0..MaxErrors
  BY <1>22 DEF Begin, NoFault, Fails
<1>23. ASSUME NEW c \in Caller, Enter(c)
      PROVE  /\ today' = today \/ today' = today + 1
             /\ written' = written \/ (written < MaxRecords /\ written' = written + 1)
             /\ crashes' \in 0..MaxCrashes /\ errors' \in 0..MaxErrors
  BY <1>23 DEF Enter, NoFault, Fails
<1>24. CASE UNCHANGED vars
  BY <1>24 DEF vars
<1>25. QED
  BY <1>1, <1>2, <1>3, <1>4, <1>5, <1>6, <1>7, <1>8, <1>9, <1>10, <1>11, <1>12, <1>13, <1>14, <1>15, <1>16, <1>17, <1>18, <1>19, <1>20, <1>21, <1>22, <1>23, <1>24 DEF Next

\* The open file stays on disk: what is dropped is another one.
LEMMA StepKeepsOpen ==
    ASSUME Shape, LinesOK, [Next]_vars
    PROVE  OpenOK'
<1>1. DiskOK /\ CallOK /\ OpenOK
  BY DEF Shape
<1>2. ASSUME open'.day = open.day
      PROVE  OpenOK'
  <2>1. SUFFICES ASSUME open.day # 0
                 PROVE  files'[open.day].exists
    BY <1>2 DEF OpenOK
  <2>2. open.day \in Day /\ files[open.day].exists
    BY <1>1, <2>1, DaysInUse DEF OpenOK
  <2>3. ASSUME NEW d \in Day, Drops(d)
        PROVE  files'[open.day].exists
    BY <1>1, <2>2, <2>3 DEF Drops, DiskOK
  <2>4. ASSUME NEW d \in Day, NEW g, Writes(d, g)
        PROVE  files'[open.day].exists
    BY <1>1, <2>2, <2>4 DEF Writes, DiskOK
  <2>5. QED
    BY <2>2, <2>3, <2>4, FileEffects
<1>3. CASE UNCHANGED open
  BY <1>2, <1>3
<1>4. CASE open' = Closed
  BY <1>4 DEF OpenOK, Closed
<1>5. CASE OpenFor
  <2>1. open'.day = dated[holder]
    BY <1>5, OpenForHead
  <2>2. dated[holder] \in Day
    BY <1>1, <1>5, DaysInUse DEF OpenFor, CallOK, Locked
  <2>3. files'[dated[holder]] = Created(files[dated[holder]])
    BY <1>1, <1>5, <2>2 DEF OpenFor, DiskOK
  <2>4. files'[dated[holder]].exists
    BY <1>1, <2>2, <2>3, CreatedFile DEF DiskOK
  <2>5. QED
    BY <2>1, <2>4 DEF OpenOK
<1>6. CASE Sync
  <2>1. open'.day = open.day
    BY <1>1, <1>6 DEF Sync, CallOK, OpenFile
  <2>2. QED
    BY <1>2, <2>1
<1>7. QED
  BY <1>3, <1>4, <1>5, <1>6, OpenEffects

\* Numbers and identities on disk and in the head were given out before.
LEMMA StepKeepsNumbers ==
    ASSUME Shape, LinesOK, [Next]_vars
    PROVE  NumbersOK'
<1>1. DiskOK /\ CallOK /\ OpenOK /\ NumbersOK /\ HistoryOK
  BY DEF Shape
<1>2. MaxRecords \in Nat /\ written \in 0..MaxRecords
  BY <1>1, Bounds DEF NumbersOK
<1>3. written' \in 0..MaxRecords /\ written <= written'
  <2>1. written' = written \/ (written < MaxRecords /\ written' = written + 1)
    BY <1>1, CountersGrow
  <2>2. QED
    BY <1>2, <2>1
<1>4. open'.seq <= written' /\ open'.previous <= written'
  <2>1. open.seq \in Nat /\ open.previous \in Nat /\ open.seq <= written /\ open.previous <= written
    BY <1>1 DEF CallOK, OpenFile, NumbersOK
  <2>2. CASE UNCHANGED open
    BY <1>2, <1>3, <2>1, <2>2
  <2>3. CASE open' = Closed
    BY <1>3, <2>3 DEF Closed, Genesis
  <2>4. CASE OpenFor
    <3>1. open' \in OpenFile /\ open'.seq <= written /\ open'.previous <= written
      BY <2>4, OpenForHead
    <3>2. open'.seq \in Nat /\ open'.previous \in Nat
      BY <3>1, Bounds DEF OpenFile
    <3>3. QED
      BY <1>2, <1>3, <3>1, <3>2
  <2>5. CASE Sync
    <3>1. open'.seq = open.seq + 1 /\ open'.previous = written /\ written' = written
      BY <1>1, <2>5 DEF Sync, CallOK, OpenFile
    <3>2. open.seq < written
      BY <1>1, <2>5 DEF NumbersOK, Sync
    <3>3. QED
      BY <1>2, <2>1, <3>1, <3>2
  <2>6. QED
    BY <2>2, <2>3, <2>4, <2>5, OpenEffects
<1>5. step' = "syncing" => open'.seq < written'
  <2>1. SUFFICES ASSUME step' = "syncing"
                 PROVE  open'.seq < written'
    OBVIOUS
  <2>2. CASE AppendLine
    <3>1. open' = open /\ written' = written + 1 /\ open.seq <= written /\ open.seq \in Nat
      BY <1>1, <2>2 DEF AppendLine, NumbersOK, CallOK, OpenFile
    <3>2. QED
      BY <1>2, <3>1
  <2>3. CASE step = "syncing" /\ UNCHANGED <<files, open, written, cut>>
    BY <1>1, <2>3 DEF NumbersOK
  <2>4. QED
    BY <2>1, <2>2, <2>3, SyncingEffects
<1>6. ASSUME NEW e \in Day, NEW i \in DOMAIN files'[e].lines
      PROVE  files'[e].lines[i].id <= written' /\ files'[e].lines[i].seq <= written'
  <2>1. ASSUME i \in DOMAIN files[e].lines, files'[e].lines[i] = files[e].lines[i]
        PROVE  files'[e].lines[i].id <= written' /\ files'[e].lines[i].seq <= written'
    <3>1. files[e].lines \in Seq(Line)
      BY <1>1 DEF DiskOK, File
    <3>2. files[e].lines[i] \in Line
      BY <2>1, <3>1
    <3>3. files[e].lines[i].id \in Nat /\ files[e].lines[i].seq \in Nat
      BY <3>2, Bounds DEF Line
    <3>4. files[e].lines[i].id <= written /\ files[e].lines[i].seq <= written
      BY <1>1, <2>1 DEF NumbersOK
    <3>5. QED
      BY <1>2, <1>3, <2>1, <3>3, <3>4
  <2>2. CASE UNCHANGED files
    BY <2>1, <2>2
  <2>3. ASSUME NEW d \in Day, Drops(d)
        PROVE  i \in DOMAIN files[e].lines /\ files'[e].lines[i] = files[e].lines[i]
    BY <1>1, <2>3 DEF Drops, DiskOK, Absent
  <2>4. ASSUME NEW d \in Day, NEW g, Writes(d, g)
        PROVE  files'[e].lines[i].id <= written' /\ files'[e].lines[i].seq <= written'
    <3>1. CASE e # d
      <4>1. files'[e] = files[e]
        BY <1>1, <2>4, <3>1 DEF Writes, DiskOK
      <4>2. QED
        BY <2>1, <4>1
    <3>2. CASE e = d
      <4>1. files'[e] = g
        BY <1>1, <2>4, <3>2 DEF Writes, DiskOK
      <4>2. CASE i \in DOMAIN files[e].lines /\ g.lines[i] = files[e].lines[i]
        BY <2>1, <4>1, <4>2
      <4>3. CASE g.lines[i] = Garbage
        BY <1>3, <4>1, <4>3 DEF Garbage
      <4>4. CASE g.lines[i] = NewLine /\ written < MaxRecords /\ written' = written + 1
        <5>1. NewLine.id = written + 1 /\ NewLine.seq <= written + 1
          BY <1>1, <4>4, NewLineIsLine
        <5>2. QED
          BY <1>2, <4>1, <4>4, <5>1
      <4>5. QED
        BY <2>4, <3>2, <4>1, <4>2, <4>3, <4>4 DEF Writes
    <3>3. QED
      BY <3>1, <3>2
  <2>5. QED
    BY <2>1, <2>2, <2>3, <2>4, FileEffects
<1>7. QED
  BY <1>3, <1>4, <1>5, <1>6 DEF NumbersOK

\* The history stays well formed; what is acknowledged was written.
LEMMA StepKeepsHistory ==
    ASSUME Shape, [Next]_vars
    PROVE  HistoryOK'
<1>1. CallOK /\ NumbersOK /\ HistoryOK
  BY DEF Shape
<1>2. acked' \subseteq [id : 1..MaxRecords, day : Day]
  <2>1. CASE acked' = acked
    BY <1>1, <2>1 DEF HistoryOK
  <2>2. CASE Sync
    <3>1. open.day \in Day
      BY <1>1, <2>2, DaysInUse DEF Sync
    <3>2. open.seq \in Nat /\ open.seq < written /\ written \in 0..MaxRecords
      BY <1>1, <2>2 DEF Sync, CallOK, OpenFile, NumbersOK
    <3>3. written \in 1..MaxRecords
      BY <3>2, Bounds
    <3>4. [id |-> written, day |-> open.day] \in [id : 1..MaxRecords, day : Day]
      BY <3>1, <3>3
    <3>5. QED
      BY <1>1, <2>2, <3>4 DEF Sync, HistoryOK
  <2>3. QED
    BY <1>1, <2>1, <2>2, HistoryGrows
<1>3. QED
  BY <1>1, <1>2, HistoryGrows, CountersGrow DEF HistoryOK

----------------------------------------------------------------------------
(* The inductive invariant: what is on disk *)

\* A new line's identity differs from every one on disk.
LEMMA StepKeepsLines ==
    ASSUME Shape, LinesOK, [Next]_vars
    PROVE  LinesOK'
<1>1. DiskOK /\ CallOK /\ NumbersOK /\ HistoryOK
  BY DEF Shape
<1>2. SUFFICES ASSUME ~cut', NEW e \in Day
               PROVE  /\ files'[e].ended
                      /\ \A i, j \in DOMAIN files'[e].lines :
                             files'[e].lines[i].id = files'[e].lines[j].id => i = j
  BY DEF LinesOK
<1>3. ~cut
  BY <1>1, <1>2, HistoryGrows
<1>4. /\ files[e].ended
      /\ \A i, j \in DOMAIN files[e].lines : files[e].lines[i].id = files[e].lines[j].id => i = j
  BY <1>3 DEF LinesOK
<1>5. CASE files'[e] = files[e]
  BY <1>4, <1>5
<1>6. CASE files'[e] = Absent
  BY <1>6 DEF Absent
<1>7. ASSUME NEW g, Writes(e, g)
      PROVE  /\ g.ended
             /\ \A i, j \in DOMAIN g.lines : g.lines[i].id = g.lines[j].id => i = j
  <2> DEFINE Old == DOMAIN files[e].lines
  <2>1. /\ g.ended
        /\ \A i \in Old : i \in DOMAIN g.lines /\ g.lines[i] = files[e].lines[i]
        /\ \A i \in DOMAIN g.lines \ Old : g.lines[i] = NewLine
        /\ \A i, j \in DOMAIN g.lines \ Old : i = j
    BY <1>2, <1>7 DEF Writes
  <2>2. ASSUME NEW i \in DOMAIN g.lines \ Old, NEW j \in Old
        PROVE  g.lines[i].id # g.lines[j].id
    <3>1. g.lines[i].id = written + 1
      BY <2>1 DEF NewLine
    <3>2. files[e].lines[j] \in Line
      <4>1. files[e].lines \in Seq(Line)
        BY <1>1 DEF DiskOK, File
      <4>2. QED
        BY <4>1
    <3>3. files[e].lines[j].id \in Nat /\ files[e].lines[j].id <= written /\ written \in Nat
      BY <1>1, <3>2, Bounds DEF NumbersOK, Line
    <3>4. g.lines[j].id = files[e].lines[j].id
      BY <2>1
    <3>5. QED
      BY <3>1, <3>3, <3>4
  <2>3. QED
    BY <1>4, <2>1, <2>2
<1>8. ASSUME NEW d \in Day, Drops(d)
      PROVE  files'[e] = files[e] \/ files'[e] = Absent
  BY <1>1, <1>8 DEF Drops, DiskOK
<1>9. ASSUME NEW d \in Day, NEW g, Writes(d, g)
      PROVE  files'[e] = files[e] \/ (d = e /\ files'[e] = g)
  BY <1>1, <1>9 DEF Writes, DiskOK
<1>10. QED
  BY <1>5, <1>6, <1>7, <1>8, <1>9, FileEffects

\* As long as no line is cut, the line that waits to be flushed is there.
LEMMA StepKeepsPending ==
    ASSUME Shape, LinesOK, PendingOK, [Next]_vars
    PROVE  PendingOK'
<1>1. DiskOK /\ CallOK /\ OpenOK /\ NumbersOK /\ HistoryOK
  BY DEF Shape
<1>2. SUFFICES ASSUME ~cut', step' = "syncing"
               PROVE  \E i \in DOMAIN files'[open'.day].lines :
                          /\ files'[open'.day].lines[i].id = written'
                          /\ files'[open'.day].lines[i].seq = open'.seq + 1
  BY DEF PendingOK
<1>3. CASE AppendLine
  <2>1. PICK n \in DOMAIN files'[open.day].lines : files'[open.day].lines[n] = NewLine
    BY <1>1, <1>2, <1>3, WritesLine
  <2>2. NewLine.id = written + 1 /\ NewLine.seq = open.seq + 1
    BY DEF NewLine
  <2>3. open' = open /\ written' = written + 1
    BY <1>3 DEF AppendLine
  <2>4. QED
    BY <2>1, <2>2, <2>3
<1>4. CASE step = "syncing" /\ UNCHANGED <<files, open, written, cut>>
  BY <1>2, <1>4 DEF PendingOK
<1>5. QED
  BY <1>2, <1>3, <1>4, SyncingEffects

\* A line is where it was, as long as no line is cut and its day is not dropped.
LEMMA LineStays ==
    ASSUME Shape, LinesOK, [Next]_vars, ~cut',
           NEW e \in Day, e >= today - Retention \/ ~dropped', NEW i \in DOMAIN files[e].lines
    PROVE  i \in DOMAIN files'[e].lines /\ files'[e].lines[i] = files[e].lines[i]
<1>1. DiskOK /\ CallOK /\ Retention \in Nat /\ today \in Nat /\ e \in Nat
  BY Bounds DEF Shape, CallOK
<1>2. CASE UNCHANGED files
  BY <1>2
<1>3. ASSUME NEW d \in Day, Drops(d)
      PROVE  files'[e] = files[e]
  <2>1. d \in Nat /\ d < today - Retention /\ dropped'
    BY <1>3, Bounds DEF Drops
  <2>2. d # e
    BY <1>1, <2>1
  <2>3. QED
    BY <1>1, <1>3, <2>2 DEF Drops, DiskOK
<1>4. ASSUME NEW d \in Day, NEW g, Writes(d, g)
      PROVE  i \in DOMAIN files'[e].lines /\ files'[e].lines[i] = files[e].lines[i]
  <2>1. files'[e] = files[e] \/ (d = e /\ files'[e] = g)
    BY <1>1, <1>4 DEF Writes, DiskOK
  <2>2. d = e => i \in DOMAIN g.lines /\ g.lines[i] = files[e].lines[i]
    BY <1>4 DEF Writes
  <2>3. QED
    BY <2>1, <2>2
<1>5. QED
  BY <1>2, <1>3, <1>4, FileEffects

\* What is acknowledged was flushed, and stays until its retention ends.
LEMMA StepKeepsAcked ==
    ASSUME Shape, LinesOK, PendingOK, AckedOK, [Next]_vars
    PROVE  AckedOK'
<1>1. DiskOK /\ CallOK /\ NumbersOK /\ HistoryOK /\ Retention \in Nat /\ today \in Nat
  BY Bounds DEF Shape, CallOK
<1>2. SUFFICES ASSUME ~cut', NEW a \in acked', a.day >= today' - Retention
               PROVE  \E i \in DOMAIN files'[a.day].lines : files'[a.day].lines[i].id = a.id
  BY DEF AckedOK
<1>3. ~cut
  BY <1>1, <1>2, HistoryGrows
<1>4. CASE a \in acked
  <2>1. a.day \in Day /\ a.day \in Nat
    BY <1>1, <1>4, Bounds DEF HistoryOK
  <2>2. a.day >= today - Retention
    <3>1. today' = today \/ today' = today + 1
      BY <1>1, CountersGrow
    <3>2. QED
      BY <1>1, <1>2, <2>1, <3>1
  <2>3. PICK i \in DOMAIN files[a.day].lines : files[a.day].lines[i].id = a.id
    BY <1>3, <1>4, <2>2 DEF AckedOK
  <2>4. QED
    BY <1>2, <2>1, <2>2, <2>3, LineStays
<1>5. CASE Sync /\ a \notin acked
  <2>1. a = [id |-> written, day |-> open.day] /\ step = "syncing" /\ files' = files
    BY <1>2, <1>5 DEF Sync, diskVars
  <2>2. QED
    BY <1>3, <2>1 DEF PendingOK
<1>6. QED
  BY <1>1, <1>2, <1>4, <1>5, HistoryGrows

\* The head and the seals name lines that were written.
LEMMA StepKeepsTruth ==
    ASSUME Shape, LinesOK, PendingOK, TruthOK, [Next]_vars
    PROVE  TruthOK'
<1>1. DiskOK /\ CallOK /\ NumbersOK /\ HistoryOK
  BY DEF Shape
<1>2. SUFFICES ASSUME ~cut', ~dropped'
               PROVE  /\ open'.seq > 0 => OnDisk(files', open'.previous, open'.seq)
                      /\ \A d \in Day : seals'[d].kind = "whole" /\ seals'[d].records > 0 =>
                             OnDisk(files', seals'[d].head, seals'[d].records)
  BY DEF TruthOK
<1>3. ~cut /\ ~dropped
  BY <1>1, <1>2, HistoryGrows
<1>4. ASSUME NEW id, NEW seq, OnDisk(files, id, seq)
      PROVE  OnDisk(files', id, seq)
  <2>1. PICK e \in Day : \E i \in DOMAIN files[e].lines :
                             files[e].lines[i].id = id /\ files[e].lines[i].seq = seq
    BY <1>4 DEF OnDisk
  <2>2. PICK i \in DOMAIN files[e].lines :
                 files[e].lines[i].id = id /\ files[e].lines[i].seq = seq
    BY <2>1
  <2>3. i \in DOMAIN files'[e].lines /\ files'[e].lines[i] = files[e].lines[i]
    BY <1>2, LineStays
  <2>4. QED
    BY <2>2, <2>3 DEF OnDisk
<1>5. open.seq > 0 => OnDisk(files, open.previous, open.seq)
  BY <1>3 DEF TruthOK
<1>6. open'.seq > 0 => OnDisk(files', open'.previous, open'.seq)
  <2>1. CASE UNCHANGED open
    BY <1>4, <1>5, <2>1
  <2>2. CASE open' = Closed
    BY <2>2 DEF Closed
  <2>3. CASE OpenFor
    <3>1. \/ open'.seq = 0
          \/ open'.seq = open.seq /\ open'.previous = open.previous
          \/ OnDisk(files, open'.previous, open'.seq)
      BY <2>3, OpenForHead
    <3>2. QED
      BY <1>4, <1>5, <3>1
  <2>4. CASE Sync
    <3>1. open'.seq = open.seq + 1 /\ open'.previous = written /\ files' = files
      BY <1>1, <2>4 DEF Sync, CallOK, OpenFile, diskVars
    <3>2. open.day \in Day /\ step = "syncing"
      BY <1>1, <2>4, DaysInUse DEF Sync
    <3>3. OnDisk(files, written, open.seq + 1)
      BY <1>3, <3>2 DEF PendingOK, OnDisk
    <3>4. QED
      BY <3>1, <3>3
  <2>5. QED
    BY <2>1, <2>2, <2>3, <2>4, OpenEffects
<1>7. ASSUME NEW d \in Day, seals'[d].kind = "whole", seals'[d].records > 0
      PROVE  OnDisk(files', seals'[d].head, seals'[d].records)
  <2>1. CASE seals'[d] = seals[d]
    BY <1>3, <1>4, <1>7, <2>1 DEF TruthOK
  <2>2. seals'[d] # TornSeal
    BY <1>7 DEF TornSeal
  <2>3. CASE seals'[d] = [kind |-> "whole", records |-> open.seq, head |-> open.previous]
    BY <1>4, <1>5, <1>7, <2>3
  <2>4. ASSUME WriteSeal
        PROVE  \/ seals'[d] = seals[d]
               \/ seals'[d] = [kind |-> "whole", records |-> open.seq, head |-> open.previous]
    BY <1>1, <2>4 DEF WriteSeal, DiskOK
  <2>5. ASSUME CutSeal
        PROVE  seals'[d] = seals[d] \/ seals'[d] = TornSeal
    BY <1>1, <2>5 DEF CutSeal, DiskOK
  <2>6. ~(\E x \in Day : ExpireDay(x))
    BY <1>2 DEF ExpireDay
  <2>7. CASE Crash
    BY <2>1, <2>2, <2>5, <2>7 DEF Crash, CutSeal
  <2>8. CASE SealClosing \/ Close
    BY <2>1, <2>2, <2>3, <2>4, <2>5, <2>8 DEF SealClosing, Close
  <2>9. QED
    BY <2>1, <2>6, <2>7, <2>8, SealEffects
<1>8. QED
  BY <1>6, <1>7

----------------------------------------------------------------------------
(* What is proved *)

\* The inductive invariant holds of every behaviour of the sink, whatever
\* fails, crashes or races with midnight.
THEOREM TrailInvariance == Spec => []TrailInv
<1>1. Init => TrailInv
  BY TrailInit
<1>2. TrailInv /\ [Next]_vars => TrailInv'
  <2>1. SUFFICES ASSUME TrailInv, [Next]_vars
                 PROVE  TrailInv'
    OBVIOUS
  <2>2. Shape /\ LinesOK /\ PendingOK /\ AckedOK /\ TruthOK
    BY <2>1 DEF TrailInv
  <2>3. Shape'
    BY <2>1, <2>2, StepKeepsDisk, StepKeepsCall, StepKeepsOpen, StepKeepsNumbers,
       StepKeepsHistory DEF Shape
  <2>4. QED
    BY <2>1, <2>2, <2>3, StepKeepsLines, StepKeepsPending, StepKeepsAcked, StepKeepsTruth
    DEF TrailInv
<1>3. QED
  BY <1>1, <1>2, PTL DEF Spec

\* Every variable keeps its type; only the steps of a call hold the lock, and
\* the ones that write have their file open and on disk.
THEOREM TrailTypeCorrect == Spec => []TypeOK
<1>1. TrailInv => TypeOK
  <2>1. SUFFICES ASSUME TrailInv
                 PROVE  TypeOK
    OBVIOUS
  <2>2. DiskOK /\ CallOK /\ OpenOK /\ NumbersOK /\ HistoryOK
    BY <2>1 DEF TrailInv, Shape
  <2>3. ASSUME NEW d \in Day
        PROVE  /\ files[d].exists \in BOOLEAN /\ files[d].ended \in BOOLEAN
               /\ files[d].lines \in Seq(Line)
               /\ ~files[d].ended => files[d].lines # <<>>
               /\ ~files[d].exists => files[d] = Absent
    BY <2>2 DEF DiskOK, FileOK, File
  <2>4. ASSUME NEW d \in Day
        PROVE  /\ seals[d].kind \in {"none", "torn", "whole"}
               /\ seals[d].records \in 0..MaxRecords
               /\ seals[d].head \in 0..MaxRecords
    BY <2>2 DEF DiskOK, Seal
  <2>5. dated \in [Caller -> 0..today]
    <3>1. today \in Nat /\ MaxDay \in Nat
      BY <2>2, Bounds DEF CallOK
    <3>2. \A c \in Caller : dated[c] \in 0..MaxDay /\ dated[c] <= today
      BY <2>2 DEF CallOK
    <3>3. \A c \in Caller : dated[c] \in 0..today
      BY <3>1, <3>2
    <3>4. QED
      BY <2>2, <3>3 DEF CallOK
  <2>6. open.day \in 0..today /\ open.seq \in 0..MaxRecords /\ open.previous \in 0..MaxRecords
    <3>1. open.day \in Nat /\ today \in Nat /\ open.day <= today
      BY <2>2, DaysInUse DEF CallOK
    <3>2. open.seq \in 0..MaxRecords /\ open.previous \in 0..MaxRecords
      BY <2>2 DEF CallOK, OpenFile
    <3>3. QED
      BY <3>1, <3>2
  <2>7. step \in {"appending", "syncing", "sealing", "closing"} => files[open.day].exists
    BY <2>2, DaysInUse, Bounds DEF OpenOK
  <2>8. /\ today \in Day
        /\ step \in {"down", "prepare", "free", "sealing", "opening", "expiring",
                     "appending", "syncing", "closing"}
        /\ holder \in Caller \cup {Nobody}
        /\ step \in {"sealing", "opening", "expiring", "appending", "syncing"}
               <=> holder # Nobody
        /\ holder # Nobody => dated[holder] # 0
        /\ step \in {"expiring", "appending", "syncing"} => open.day = dated[holder]
    BY <2>2 DEF CallOK, Step, Locked
  <2>9. written \in 0..MaxRecords
    BY <2>2 DEF NumbersOK
  <2>10. /\ acked \subseteq [id : 1..MaxRecords, day : Day]
         /\ dropped \in BOOLEAN /\ cut \in BOOLEAN
         /\ crashes \in 0..MaxCrashes /\ errors \in 0..MaxErrors
    BY <2>2 DEF HistoryOK
  <2>11. QED
    BY <2>3, <2>4, <2>5, <2>6, <2>7, <2>8, <2>9, <2>10 DEF TypeOK
<1>2. QED
  BY <1>1, TrailInvariance, PTL

\* What `record` answered Ok for is on disk, once, until its retention ends,
\* unless a line was left without its end.
THEOREM AcknowledgedRecordsStay == Spec => []AckedStay
<1>1. TrailInv => AckedStay
  <2>1. SUFFICES ASSUME TrailInv, ~cut, NEW a \in acked, a.day >= today - Retention
                 PROVE  Cardinality(HeldOn(a.day, a.id)) = 1
    BY DEF AckedStay
  <2>2. a.day \in Day
    BY <2>1 DEF TrailInv, Shape, HistoryOK
  <2>3. PICK i \in DOMAIN files[a.day].lines : files[a.day].lines[i].id = a.id
    BY <2>1 DEF TrailInv, AckedOK
  <2>4. \A j, k \in DOMAIN files[a.day].lines :
            files[a.day].lines[j].id = files[a.day].lines[k].id => j = k
    BY <2>1, <2>2 DEF TrailInv, LinesOK
  <2>5. HeldOn(a.day, a.id) = {i}
    BY <2>3, <2>4 DEF HeldOn
  <2>6. QED
    BY <2>5, FS_Singleton
<1>2. QED
  BY <1>1, TrailInvariance, PTL

\* A seal names a record that was written with the number it gives, unless a
\* line was cut or a day was dropped.
THEOREM SealsAttestToRecords == Spec => []SealsAreTrue
<1>1. TrailInv => SealsAreTrue
  <2>1. SUFFICES ASSUME TrailInv, ~cut, ~dropped, NEW d \in Days,
                        seals[d].kind = "whole", seals[d].records > 0
                 PROVE  \E e \in Days : \E i \in DOMAIN files[e].lines :
                            /\ files[e].lines[i].id = seals[d].head
                            /\ files[e].lines[i].seq = seals[d].records
    BY DEF SealsAreTrue
  <2>2. OnDisk(files, seals[d].head, seals[d].records)
    BY <2>1 DEF TrailInv, TruthOK, Days
  <2>3. PICK e \in Day : \E i \in DOMAIN files[e].lines :
            /\ files[e].lines[i].id = seals[d].head
            /\ files[e].lines[i].seq = seals[d].records
    BY <2>2 DEF OnDisk
  <2>4. e \in Days
    <3>1. FileOK(files[e])
      BY <2>1 DEF TrailInv, Shape, DiskOK
    <3>2. files[e].exists
      BY <2>3, <3>1 DEF FileOK, Absent
    <3>3. QED
      BY <3>2 DEF Days
  <2>5. QED
    BY <2>3, <2>4
<1>2. QED
  BY <1>1, TrailInvariance, PTL

\* No step alters or removes a finished line, crashes and failures included,
\* except by dropping a day that is past its retention.
THEOREM FinishedLinesAreFinal == Spec => FinishedLinesStand
<1> DEFINE Stand(d) == files[d].exists =>
               \/ /\ ~files'[d].exists
                  /\ d < today - Retention
               \/ IsPrefix(IF files[d].ended THEN files[d].lines ELSE Front(files[d].lines),
                           files'[d].lines)
<1>1. TrailInv /\ [Next]_vars => [\A d \in Day : Stand(d)]_vars
  <2>1. SUFFICES ASSUME TrailInv, [Next]_vars, NEW d \in Day
                 PROVE  Stand(d)
    OBVIOUS
  <2>2. Shape /\ LinesOK /\ DiskOK
    BY <2>1 DEF TrailInv, Shape
  <2>3. FileOK(files[d])
    BY <2>2 DEF DiskOK
  <2>4. CASE files'[d] = files[d]
    BY <2>3, <2>4, KeptIsPrefix
  <2>5. ASSUME NEW e \in Day, Drops(e)
        PROVE  Stand(d)
    <3>1. CASE e = d
      <4>1. files'[d] = Absent /\ d < today - Retention
        BY <2>2, <2>5, <3>1 DEF Drops, DiskOK
      <4>2. ~files'[d].exists
        BY <4>1 DEF Absent
      <4>3. QED
        BY <4>1, <4>2
    <3>2. CASE e # d
      BY <2>2, <2>4, <2>5, <3>2 DEF Drops, DiskOK
    <3>3. QED
      BY <3>1, <3>2
  <2>6. ASSUME NEW e \in Day, NEW g, Writes(e, g)
        PROVE  Stand(d)
    <3>1. CASE e = d
      BY <2>2, <2>6, <3>1 DEF Writes, Finished, DiskOK
    <3>2. CASE e # d
      BY <2>2, <2>4, <2>6, <3>2 DEF Writes, DiskOK
    <3>3. QED
      BY <3>1, <3>2
  <2>7. QED
    BY <2>1, <2>2, <2>4, <2>5, <2>6, FileEffects
<1>2. QED
  BY <1>1, TrailInvariance, PTL DEF Spec, FinishedLinesStand

----------------------------------------------------------------------------
(* A trail that nothing damaged verifies *)

\* No crash, no I/O error and no day dropped so far.
Undamaged == crashes = 0 /\ errors = 0 /\ ~dropped

\* InOrder, by day and line.
Ordered ==
    \A d, e \in Day : \A i \in DOMAIN files[d].lines, j \in DOMAIN files[e].lines :
        d < e \/ (d = e /\ i < j) => files[d].lines[i].id < files[e].lines[j].id

\* Every line names the one before it, and none is missing.
AllThere ==
    /\ \A d \in Day : \A i \in DOMAIN files[d].lines :
           /\ files[d].lines[i].id \in 1..written
           /\ files[d].lines[i].seq = files[d].lines[i].id
           /\ files[d].lines[i].prev = files[d].lines[i].id - 1
    /\ \A n \in 1..written : \E d \in Day : \E i \in DOMAIN files[d].lines :
           files[d].lines[i].id = n

\* The head is the last line written, or the one before it until that is flushed.
\* A process that finds only an empty file, once no more lines may be written,
\* starts from nothing.
HeadOK ==
    open.day # 0 =>
        /\ open.seq = open.previous
        /\ step = "syncing" => open.seq + 1 = written
        /\ step # "syncing" => open.seq = written \/ (open.seq = 0 /\ written = MaxRecords)

\* Only the file that is about to be written to is empty.
FilledOK ==
    written < MaxRecords => \A d \in Day : files[d].exists =>
        files[d].lines # <<>> \/ (d = open.day /\ step \in {"expiring", "appending"})

\* A seal is whole and names a line that was written.
SealedOK ==
    \A d \in Day : /\ seals[d].kind # "torn"
                   /\ seals[d].kind = "whole" =>
                          seals[d].head = seals[d].records /\ seals[d].records <= written

\* What an undamaged trail adds to the inductive invariant.
UndamagedOK ==
    Undamaged => ~cut /\ (Ordered => AllThere /\ HeadOK /\ FilledOK /\ SealedOK)

\* A step that writes no line, opens no file and moves no head: it stays in the
\* call it is in, or that call has nothing to flush and no file left empty.
Quiet ==
    /\ UNCHANGED <<files, written>>
    /\ \/ UNCHANGED <<step, open>>
       \/ /\ open' = open \/ open' = Closed
          /\ step # "syncing" /\ step' # "syncing"
          /\ step \in {"expiring", "appending"} =>
                 written = MaxRecords \/ (open' = open /\ step' \in {"expiring", "appending"})

\* What a step does that leaves the trail undamaged.
LEMMA UndamagedEffects ==
    ASSUME HistoryOK, [Next]_vars, Undamaged'
    PROVE  Undamaged /\ cut' = cut /\ (AppendLine \/ OpenFor \/ Sync \/ Quiet)
<1>1. crashes \in Nat /\ errors \in Nat /\ crashes' = 0 /\ errors' = 0 /\ ~dropped'
  BY Bounds DEF HistoryOK, Undamaged
<1>2. ~Fails /\ ~Crash
  <2>1. errors + 1 # 0 /\ crashes + 1 # 0
    BY <1>1
  <2>2. QED
    BY <1>1, <2>1 DEF Fails, Crash
<1>3. ~(\E d \in Day : ExpireDay(d))
  BY <1>1 DEF ExpireDay
<1>4. CASE UNCHANGED vars
  BY <1>1, <1>4 DEF vars, Undamaged, Quiet
<1>5. CASE Tick
  BY <1>1, <1>5 DEF Tick, diskVars, histVars, Undamaged, Quiet
<1>6. CASE Start
  BY <1>1, <1>6 DEF Start, diskVars, histVars, Undamaged, Quiet
<1>7. CASE Exit
  BY <1>1, <1>7 DEF Exit, diskVars, histVars, Undamaged, Quiet
<1>8. CASE Prepared
  BY <1>1, <1>8 DEF Prepared, NoFault, diskVars, histVars, Undamaged, Quiet
<1>9. CASE ExpireDone
  BY <1>1, <1>9 DEF ExpireDone, NoFault, diskVars, histVars, Undamaged, Quiet
<1>10. ASSUME NEW c \in Caller, Begin(c)
       PROVE  Undamaged /\ cut' = cut /\ Quiet
  BY <1>1, <1>10 DEF Begin, NoFault, diskVars, histVars, Undamaged, Quiet
<1>11. ASSUME NEW c \in Caller, Enter(c)
       PROVE  Undamaged /\ cut' = cut /\ Quiet
  BY <1>1, <1>11 DEF Enter, NoFault, diskVars, histVars, Undamaged, Quiet
<1>12. CASE SealClosing
  BY <1>1, <1>2, <1>12 DEF SealClosing, NoFault, diskVars, histVars, Undamaged, Quiet
<1>13. CASE OpenFor
  BY <1>1, <1>13 DEF OpenFor, NoFault, histVars, Undamaged
<1>14. CASE OpenRefused
  BY <1>1, <1>14 DEF OpenRefused, Release, NoFault, diskVars, histVars, Undamaged, Quiet
<1>15. CASE AppendLine
  BY <1>1, <1>15 DEF AppendLine, NoFault, histVars, Undamaged
<1>16. CASE OutOfRecords
  BY <1>1, <1>16 DEF OutOfRecords, Release, NoFault, diskVars, histVars, Undamaged, Quiet
<1>17. CASE Sync
  BY <1>1, <1>17 DEF Sync, NoFault, Undamaged
<1>18. CASE Shutdown
  BY <1>1, <1>18 DEF Shutdown, NoFault, diskVars, histVars, Undamaged, Quiet
<1>19. CASE Close
  BY <1>1, <1>2, <1>19 DEF Close, NoFault, diskVars, histVars, Undamaged, Quiet
<1>20. CASE PrepareFails \/ ExpireFails \/ OpenFails \/ AppendFails \/ SyncFails \/ CloseFails
  BY <1>2, <1>20 DEF PrepareFails, ExpireFails, OpenFails, AppendFails, SyncFails, CloseFails
<1>21. QED
  BY <1>2, <1>3, <1>4, <1>5, <1>6, <1>7, <1>8, <1>9, <1>10, <1>11, <1>12, <1>13, <1>14,
     <1>15, <1>16, <1>17, <1>18, <1>19, <1>20 DEF Next

\* Opening a file leaves every line, and creates at most the file of its day.
LEMMA OpenForLines ==
    ASSUME DiskOK, CallOK, OpenFor
    PROVE  /\ \A d \in Day : files'[d].lines = files[d].lines
           /\ \A d \in Day : files'[d].exists => files[d].exists \/ d = dated[holder]
           /\ open'.day = dated[holder] /\ dated[holder] # 0
           /\ step = "opening" /\ step' = "expiring" /\ written' = written
<1>1. step = "opening" /\ step' = "expiring" /\ written' = written
  BY DEF OpenFor
<1>2. dated[holder] \in Day /\ dated[holder] # 0
  BY <1>1, DaysInUse DEF CallOK, Locked
<1>3. files' = [files EXCEPT ![dated[holder]] = Created(files[dated[holder]])]
  BY DEF OpenFor
<1>4. open'.day = dated[holder]
  BY DEF OpenFor, Closed
<1>5. ASSUME NEW d \in Day
      PROVE  files'[d].lines = files[d].lines /\ (files'[d].exists => files[d].exists \/ d = dated[holder])
  <2>1. CASE d = dated[holder]
    <3>1. files'[d] = Created(files[d])
      BY <1>3, <2>1 DEF DiskOK
    <3>2. Created(files[d]).lines = files[d].lines
      BY CreatedFile DEF DiskOK
    <3>3. QED
      BY <2>1, <3>1, <3>2
  <2>2. CASE d # dated[holder]
    BY <1>3, <2>2 DEF DiskOK
  <2>3. QED
    BY <2>1, <2>2
<1>6. QED
  BY <1>1, <1>2, <1>4, <1>5

\* A trail that is in order when the step is done was in order before.
LEMMA WasOrdered ==
    ASSUME Shape, LinesOK, [Next]_vars, ~cut', ~dropped', Ordered'
    PROVE  Ordered
<1>1. SUFFICES ASSUME NEW d \in Day, NEW e \in Day,
                      NEW i \in DOMAIN files[d].lines, NEW j \in DOMAIN files[e].lines,
                      d < e \/ (d = e /\ i < j)
               PROVE  files[d].lines[i].id < files[e].lines[j].id
  BY DEF Ordered
<1>2. i \in DOMAIN files'[d].lines /\ files'[d].lines[i] = files[d].lines[i]
  BY LineStays
<1>3. j \in DOMAIN files'[e].lines /\ files'[e].lines[j] = files[e].lines[j]
  BY LineStays
<1>4. files'[d].lines[i].id < files'[e].lines[j].id
  BY <1>1, <1>2, <1>3 DEF Ordered
<1>5. QED
  BY <1>2, <1>3, <1>4

\* Where the lines are after a step, and where they were: one may be new.
LEMMA LinesAfter ==
    ASSUME Shape, LinesOK, [Next]_vars, ~cut', ~dropped',
           NEW d \in Day, NEW i \in DOMAIN files'[d].lines
    PROVE  \/ i \in DOMAIN files[d].lines /\ files'[d].lines[i] = files[d].lines[i]
           \/ files'[d].lines[i] = NewLine
<1>1. DiskOK
  BY DEF Shape
<1>2. CASE UNCHANGED files
  BY <1>2
<1>3. ASSUME NEW e \in Day, Drops(e)
      PROVE  FALSE
  BY <1>3 DEF Drops
<1>4. ASSUME NEW e \in Day, NEW g, Writes(e, g)
      PROVE  \/ i \in DOMAIN files[d].lines /\ files'[d].lines[i] = files[d].lines[i]
             \/ files'[d].lines[i] = NewLine
  <2>1. files'[d] = files[d] \/ (e = d /\ files'[d] = g)
    BY <1>1, <1>4 DEF Writes, DiskOK
  <2>2. /\ \A k \in DOMAIN files[e].lines : k \in DOMAIN g.lines /\ g.lines[k] = files[e].lines[k]
        /\ \A k \in DOMAIN g.lines \ DOMAIN files[e].lines : g.lines[k] = NewLine
    BY <1>4 DEF Writes
  <2>3. QED
    BY <2>1, <2>2
<1>5. QED
  BY <1>2, <1>3, <1>4, FileEffects

\* A line is written behind the last one, with the next number.
LEMMA StepKeepsAllThere ==
    ASSUME Shape, LinesOK, [Next]_vars, ~cut', Undamaged', AllThere, HeadOK
    PROVE  AllThere'
<1>1. DiskOK /\ CallOK /\ OpenOK /\ NumbersOK /\ HistoryOK /\ ~dropped'
  BY DEF Shape, Undamaged
<1>2. written \in Nat /\ MaxRecords \in Nat
  BY <1>1, Bounds DEF NumbersOK
<1>3. CASE Quiet
  BY <1>3 DEF Quiet, AllThere
<1>4. CASE OpenFor
  <2>1. (\A d \in Day : files'[d].lines = files[d].lines) /\ written' = written
    BY <1>1, <1>4, OpenForLines
  <2>2. QED
    BY <2>1 DEF AllThere
<1>5. CASE Sync
  BY <1>5 DEF Sync, diskVars, AllThere
<1>6. CASE AppendLine
  <2>1. step = "appending" /\ written < MaxRecords /\ written' = written + 1
    BY <1>6 DEF AppendLine
  <2>2. open.day \in Day /\ open.day # 0
    BY <1>1, <2>1, Bounds, DaysInUse
  <2>3. open.seq = written /\ open.previous = written
    <3>1. open.seq = written \/ (open.seq = 0 /\ written = MaxRecords)
      BY <2>1, <2>2 DEF HeadOK
    <3>2. QED
      BY <1>2, <2>1, <2>2, <3>1 DEF HeadOK
  <2>4. NewLine.id = written + 1 /\ NewLine.seq = written + 1 /\ NewLine.prev = written
    BY <2>3 DEF NewLine
  <2>5. ASSUME NEW d \in Day, NEW i \in DOMAIN files'[d].lines
        PROVE  /\ files'[d].lines[i].id \in 1..written'
               /\ files'[d].lines[i].seq = files'[d].lines[i].id
               /\ files'[d].lines[i].prev = files'[d].lines[i].id - 1
    <3>1. CASE i \in DOMAIN files[d].lines /\ files'[d].lines[i] = files[d].lines[i]
      <4>1. /\ files[d].lines[i].id \in 1..written
            /\ files[d].lines[i].seq = files[d].lines[i].id
            /\ files[d].lines[i].prev = files[d].lines[i].id - 1
        BY <3>1 DEF AllThere
      <4>2. \A k \in 1..written : k \in 1..written'
        BY <1>2, <2>1
      <4>3. QED
        BY <3>1, <4>1, <4>2
    <3>2. CASE files'[d].lines[i] = NewLine
      <4>1. written + 1 \in 1..written' /\ written = (written + 1) - 1
        BY <1>2, <2>1
      <4>2. QED
        BY <2>4, <3>2, <4>1
    <3>3. QED
      BY <1>1, <3>1, <3>2, LinesAfter
  <2>6. ASSUME NEW n \in 1..written'
        PROVE  \E d \in Day : \E i \in DOMAIN files'[d].lines : files'[d].lines[i].id = n
    <3>1. CASE n \in 1..written
      <4>1. PICK d \in Day : \E i \in DOMAIN files[d].lines : files[d].lines[i].id = n
        BY <3>1 DEF AllThere
      <4>2. PICK i \in DOMAIN files[d].lines : files[d].lines[i].id = n
        BY <4>1
      <4>3. i \in DOMAIN files'[d].lines /\ files'[d].lines[i] = files[d].lines[i]
        BY <1>1, LineStays
      <4>4. QED
        BY <4>2, <4>3
    <3>2. CASE n = written + 1
      BY <1>1, <1>6, <2>2, <2>4, <3>2, WritesLine
    <3>3. QED
      BY <1>2, <2>1, <3>1, <3>2
  <2>7. QED
    BY <2>5, <2>6 DEF AllThere
<1>7. QED
  BY <1>1, <1>3, <1>4, <1>5, <1>6, UndamagedEffects

\* A process that opens no file finds the last line written at the end of the
\* latest day on disk: no later day has a file without a line.
LEMMA TailIsTheLast ==
    ASSUME DiskOK, NumbersOK, Ordered, AllThere, FilledOK, step = "opening"
    PROVE  \/ TailOfTrail = <<>> /\ (written = 0 \/ written = MaxRecords)
           \/ \E line \in Line : /\ TailOfTrail = <<line>>
                                 /\ line.id = written /\ line.seq = written
<1>1. written \in Nat /\ MaxRecords \in Nat /\ written <= MaxRecords
  BY Bounds DEF NumbersOK
<1>2. CASE Days = {}
  <2>1. TailOfTrail = <<>>
    BY <1>2 DEF TailOfTrail
  <2>2. ASSUME written # 0
        PROVE  FALSE
    <3>1. written \in 1..written
      BY <1>1, <2>2
    <3>2. PICK d \in Day : \E i \in DOMAIN files[d].lines : files[d].lines[i].id = written
      BY <3>1 DEF AllThere
    <3>3. files[d].exists
      BY <3>2 DEF DiskOK, FileOK, Absent
    <3>4. QED
      BY <1>2, <3>3 DEF Days
  <2>3. QED
    BY <2>1, <2>2
<1>3. CASE Days # {}
  <2> DEFINE latest == CHOOSE d \in Days : \A e \in Days : e <= d
             L == files[latest].lines
  <2>1. latest \in Days /\ \A e \in Days : e <= latest
    <3>1. \E d \in Days : \A e \in Days : e <= d
      BY <1>3, LatestDay DEF Days
    <3>2. QED
      BY <3>1
  <2>2. latest \in Day /\ files[latest].exists /\ L \in Seq(Line)
    BY <2>1 DEF Days, DiskOK, File
  <2>3. CASE L = <<>>
    <3>1. TailOfTrail = <<>>
      BY <2>3 DEF TailOfTrail
    <3>2. ~(written < MaxRecords)
      BY <2>2, <2>3 DEF FilledOK
    <3>3. QED
      BY <1>1, <3>1, <3>2
  <2>4. CASE L # <<>>
    <3>1. TailOfTrail = <<Last(L)>>
      BY <1>3, <2>4 DEF TailOfTrail
    <3> DEFINE m == Len(L)
    <3>2. m \in Nat \ {0} /\ DOMAIN L = 1..m /\ m \in DOMAIN L /\ Last(L) = L[m] /\ L[m] \in Line
      <4> HIDE DEF latest
      <4>1. QED
        BY <2>2, <2>4 DEF Last
    <3>3. L[m].id \in 1..written /\ L[m].seq = L[m].id
      BY <2>2, <3>2 DEF AllThere
    <3>4. written \in 1..written
      BY <1>1, <3>3
    <3>5. PICK d \in Day : \E i \in DOMAIN files[d].lines : files[d].lines[i].id = written
      BY <3>4 DEF AllThere
    <3>6. PICK i \in DOMAIN files[d].lines : files[d].lines[i].id = written
      BY <3>5
    <3>7. d \in Nat /\ latest \in Nat /\ d <= latest
      <4>1. files[d].exists
        BY <3>6 DEF DiskOK, FileOK, Absent
      <4>2. QED
        BY <2>1, <2>2, <4>1, Bounds DEF Days
    <3>8. L[m].id = written
      <4>1. CASE d < latest
        <5>1. files[d].lines[i].id < L[m].id
          BY <2>2, <3>2, <4>1 DEF Ordered
        <5>2. QED
          BY <1>1, <3>3, <3>6, <5>1
      <4>2. CASE d = latest
        <5>1. i \in 1..m /\ (i = m \/ i < m)
          BY <3>2, <4>2
        <5>2. CASE i < m
          <6>1. files[d].lines[i].id < L[m].id
            BY <2>2, <3>2, <4>2, <5>2 DEF Ordered
          <6>2. QED
            BY <1>1, <3>3, <3>6, <6>1
        <5>3. QED
          BY <3>6, <4>2, <5>1, <5>2
      <4>3. QED
        BY <3>7, <4>1, <4>2
    <3>9. QED
      BY <3>1, <3>2, <3>3, <3>8
  <2>5. QED
    BY <2>3, <2>4
<1>4. QED
  BY <1>2, <1>3

\* The head stays the last line, across days and restarts.
LEMMA StepKeepsHead ==
    ASSUME Shape, [Next]_vars, Undamaged', Ordered, AllThere, FilledOK, HeadOK
    PROVE  HeadOK'
<1>1. DiskOK /\ CallOK /\ NumbersOK /\ HistoryOK
  BY DEF Shape
<1>2. written \in Nat /\ MaxRecords \in Nat
  BY <1>1, Bounds DEF NumbersOK
<1>3. CASE Quiet
  <2>1. CASE UNCHANGED <<step, open>>
    BY <1>3, <2>1 DEF Quiet, HeadOK
  <2>2. CASE open' = Closed
    BY <2>2 DEF HeadOK, Closed
  <2>3. CASE open' = open /\ step # "syncing" /\ step' # "syncing"
    BY <1>3, <2>3 DEF Quiet, HeadOK
  <2>4. QED
    BY <1>3, <2>1, <2>2, <2>3 DEF Quiet
<1>4. CASE OpenFor
  <2>1. step = "opening" /\ step' = "expiring" /\ written' = written
    BY <1>4 DEF OpenFor
  <2>2. CASE open.day # 0
    <3>1. open'.seq = open.seq /\ open'.previous = open.previous
      BY <1>4, <2>2 DEF OpenFor
    <3>2. QED
      BY <2>1, <2>2, <3>1 DEF HeadOK
  <2>3. CASE open.day = 0 /\ TailOfTrail = <<>> /\ (written = 0 \/ written = MaxRecords)
    <3>1. open' = [Closed EXCEPT !.day = dated[holder]]
      BY <1>4, <2>3 DEF OpenFor
    <3>2. open'.seq = 0 /\ open'.previous = 0
      BY <3>1 DEF Closed, Genesis
    <3>3. QED
      BY <2>1, <2>3, <3>2 DEF HeadOK
  <2>4. ASSUME open.day = 0, NEW line \in Line, TailOfTrail = <<line>>,
               line.id = written, line.seq = written
        PROVE  HeadOK'
    <3>1. open' = [day |-> dated[holder], seq |-> line.seq, previous |-> line.id]
      BY <1>4, <2>4 DEF OpenFor
    <3>2. open'.seq = written /\ open'.previous = written
      BY <2>4, <3>1
    <3>3. QED
      BY <2>1, <3>2 DEF HeadOK
  <2>5. QED
    BY <1>1, <2>1, <2>2, <2>3, <2>4, TailIsTheLast
<1>5. CASE Sync
  <2>1. step = "syncing" /\ step' = "free" /\ written' = written
    BY <1>5 DEF Sync, Release
  <2>2. open'.seq = open.seq + 1 /\ open'.previous = written
    BY <1>1, <1>5 DEF Sync, CallOK, OpenFile
  <2>3. open.day # 0
    BY <1>1, <2>1, Bounds, DaysInUse
  <2>4. QED
    BY <2>1, <2>2, <2>3 DEF HeadOK
<1>6. CASE AppendLine
  <2>1. /\ step = "appending" /\ written < MaxRecords /\ written' = written + 1
        /\ step' = "syncing" /\ open' = open
    BY <1>6 DEF AppendLine
  <2>2. QED
    BY <1>2, <2>1 DEF HeadOK
<1>7. QED
  BY <1>1, <1>3, <1>4, <1>5, <1>6, UndamagedEffects

\* A file that was created is written to before the call ends.
LEMMA StepKeepsFilled ==
    ASSUME Shape, LinesOK, [Next]_vars, ~cut', Undamaged', FilledOK
    PROVE  FilledOK'
<1>1. DiskOK /\ CallOK /\ OpenOK /\ NumbersOK /\ HistoryOK
  BY DEF Shape
<1>2. written \in Nat /\ MaxRecords \in Nat
  BY <1>1, Bounds DEF NumbersOK
<1>3. CASE Quiet
  BY <1>2, <1>3 DEF Quiet, FilledOK
<1>4. CASE OpenFor
  <2>1. /\ \A d \in Day : files'[d].lines = files[d].lines
        /\ \A d \in Day : files'[d].exists => files[d].exists \/ d = dated[holder]
        /\ open'.day = dated[holder]
        /\ step = "opening" /\ step' = "expiring" /\ written' = written
    BY <1>1, <1>4, OpenForLines
  <2>2. QED
    BY <2>1 DEF FilledOK
<1>5. CASE Sync
  <2>1. files' = files /\ written' = written /\ step = "syncing"
    BY <1>5 DEF Sync, diskVars
  <2>2. QED
    BY <2>1 DEF FilledOK
<1>6. CASE AppendLine
  <2>1. /\ step = "appending" /\ written < MaxRecords /\ step' = "syncing"
        /\ files' = [files EXCEPT ![open.day] = Appended(files[open.day], NewLine, TRUE)]
    BY <1>6 DEF AppendLine
  <2>2. open.day \in Day
    BY <1>1, <2>1, DaysInUse
  <2>3. files'[open.day].lines # <<>>
    <3>1. NewLine \in Line
      BY <1>1, <2>1, NewLineIsLine
    <3>2. Appended(files[open.day], NewLine, TRUE).lines # <<>>
      BY <1>1, <2>2, <3>1, AppendedFile DEF DiskOK
    <3>3. QED
      BY <1>1, <2>1, <2>2, <3>2 DEF DiskOK
  <2>4. \A d \in Day : d # open.day => files'[d] = files[d]
    BY <1>1, <2>1 DEF DiskOK
  <2>5. QED
    BY <2>1, <2>3, <2>4 DEF FilledOK
<1>7. QED
  BY <1>1, <1>3, <1>4, <1>5, <1>6, UndamagedEffects

\* A day is sealed where the head is.
LEMMA StepKeepsSealed ==
    ASSUME Shape, [Next]_vars, Undamaged', HeadOK, SealedOK
    PROVE  SealedOK'
<1>1. DiskOK /\ CallOK /\ NumbersOK /\ HistoryOK
  BY DEF Shape
<1>2. written \in Nat /\ written' \in Nat /\ written <= written' /\ open.seq \in Nat
  BY <1>1, Bounds, CountersGrow DEF NumbersOK, CallOK, OpenFile
<1>3. CASE UNCHANGED seals
  <2>1. ASSUME NEW d \in Day
        PROVE  seals[d].records \in Nat
    BY <1>1, Bounds DEF DiskOK, Seal
  <2>2. QED
    BY <1>2, <1>3, <2>1 DEF SealedOK
<1>4. ASSUME WriteSeal, step \in {"sealing", "closing"}
      PROVE  SealedOK'
  <2>1. open.day # 0
    BY <1>1, <1>4 DEF CallOK
  <2>2. open.seq = open.previous /\ open.seq <= written
    BY <1>1, <2>1 DEF HeadOK, NumbersOK
  <2> DEFINE s == [kind |-> "whole", records |-> open.seq, head |-> open.previous]
  <2>3. s.kind # "torn" /\ s.head = s.records /\ s.records <= written'
    BY <1>2, <2>2
  <2>4. seals' = [seals EXCEPT ![open.day] = s]
    BY <1>4 DEF WriteSeal
  <2> HIDE DEF s
  <2>5. ASSUME NEW d \in Day
        PROVE  seals'[d] = s \/ seals'[d] = seals[d]
    BY <1>1, <2>4 DEF DiskOK
  <2>6. ASSUME NEW d \in Day
        PROVE  /\ seals'[d].kind # "torn"
               /\ seals'[d].kind = "whole" =>
                      seals'[d].head = seals'[d].records /\ seals'[d].records <= written'
    <3>1. seals[d].records \in Nat
      BY <1>1, Bounds DEF DiskOK, Seal
    <3>2. QED
      BY <1>2, <2>3, <2>5, <3>1 DEF SealedOK
  <2>7. QED
    BY <2>6 DEF SealedOK
<1>5. ~Fails /\ ~Crash /\ ~(\E d \in Day : ExpireDay(d))
  <2>1. errors + 1 # 0 /\ crashes + 1 # 0
    BY <1>1, Bounds DEF HistoryOK
  <2>2. QED
    BY <2>1 DEF Undamaged, Fails, Crash, ExpireDay
<1>6. CASE SealClosing \/ Close
  BY <1>4, <1>5, <1>6 DEF SealClosing, Close
<1>7. QED
  BY <1>3, <1>5, <1>6, SealEffects

\* The places verify reads are the lines on disk.
LEMMA PlacesAreLines ==
    ASSUME DiskOK
    PROVE  /\ \A p \in Places : /\ p[1] \in Day /\ p[2] \in DOMAIN files[p[1]].lines
                                /\ p = <<p[1], p[2]>> /\ p[1] \in Nat /\ p[2] \in Nat
           /\ \A d \in Day : \A i \in DOMAIN files[d].lines : <<d, i>> \in Places
<1>1. ASSUME NEW p \in Places
      PROVE  /\ p[1] \in Day /\ p[2] \in DOMAIN files[p[1]].lines
             /\ p = <<p[1], p[2]>> /\ p[1] \in Nat /\ p[2] \in Nat
  <2>1. PICK d \in Days : p \in {d} \X DOMAIN files[d].lines
    BY DEF Places
  <2>2. p[1] = d /\ p[2] \in DOMAIN files[d].lines /\ p = <<p[1], p[2]>>
    BY <2>1
  <2>3. d \in Day /\ files[d].lines \in Seq(Line) /\ d \in Nat
    BY Bounds DEF Days, DiskOK, File
  <2>4. DOMAIN files[d].lines \subseteq Nat
    BY <2>3
  <2>5. QED
    BY <2>2, <2>3, <2>4
<1>2. ASSUME NEW d \in Day, NEW i \in DOMAIN files[d].lines
      PROVE  <<d, i>> \in Places
  <2>1. files[d].exists
    BY DEF DiskOK, FileOK, Absent
  <2>2. d \in Days /\ <<d, i>> \in {d} \X DOMAIN files[d].lines
    BY <2>1 DEF Days
  <2>3. QED
    BY <2>2 DEF Places
<1>3. QED
  BY <1>1, <1>2

\* Of two places one is read before the other.
LEMMA PlacesAreInOrder ==
    ASSUME DiskOK, NEW p \in Places, NEW q \in Places
    PROVE  p = q \/ Before(p, q) \/ Before(q, p)
<1>1. /\ p = <<p[1], p[2]>> /\ p[1] \in Nat /\ p[2] \in Nat
      /\ q = <<q[1], q[2]>> /\ q[1] \in Nat /\ q[2] \in Nat
  BY PlacesAreLines
<1>2. p[1] = q[1] /\ p[2] = q[2] => p = q
  BY <1>1
<1>3. QED
  BY <1>1, <1>2 DEF Before

\* The order that UndamagedTrailVerifies asks for is the one of the invariant.
LEMMA InOrderIsOrdered ==
    ASSUME DiskOK, InOrder
    PROVE  Ordered
<1>1. SUFFICES ASSUME NEW d \in Day, NEW e \in Day,
                      NEW i \in DOMAIN files[d].lines, NEW j \in DOMAIN files[e].lines,
                      d < e \/ (d = e /\ i < j)
               PROVE  files[d].lines[i].id < files[e].lines[j].id
  BY DEF Ordered
<1>2. <<d, i>> \in Places /\ <<e, j>> \in Places
  BY PlacesAreLines
<1>3. Before(<<d, i>>, <<e, j>>)
  BY <1>1 DEF Before
<1>4. LineAt(<<d, i>>).id < LineAt(<<e, j>>).id
  BY <1>2, <1>3 DEF InOrder
<1>5. QED
  BY <1>4 DEF LineAt

\* The identities, place by place.
LEMMA IdentitiesAt ==
    ASSUME DiskOK, NumbersOK, InOrder, AllThere
    PROVE  /\ \A p \in Places : /\ LineAt(p).id \in 1..written /\ LineAt(p).id \in Nat
                                /\ LineAt(p).seq = LineAt(p).id
                                /\ LineAt(p).prev = LineAt(p).id - 1
           /\ \A n \in 1..written : \E p \in Places : LineAt(p).id = n
           /\ \A p, q \in Places : LineAt(p).id < LineAt(q).id <=> Before(p, q)
           /\ \A p, q \in Places : LineAt(p).id = LineAt(q).id => p = q
<1>1. written \in Nat
  BY Bounds DEF NumbersOK
<1>2. ASSUME NEW p \in Places
      PROVE  /\ LineAt(p).id \in 1..written
             /\ LineAt(p).seq = LineAt(p).id /\ LineAt(p).prev = LineAt(p).id - 1
  BY PlacesAreLines DEF AllThere, LineAt
<1>3. ASSUME NEW n \in 1..written
      PROVE  \E p \in Places : LineAt(p).id = n
  <2>1. PICK d \in Day : \E i \in DOMAIN files[d].lines : files[d].lines[i].id = n
    BY DEF AllThere
  <2>2. PICK i \in DOMAIN files[d].lines : files[d].lines[i].id = n
    BY <2>1
  <2>3. <<d, i>> \in Places /\ LineAt(<<d, i>>).id = n
    BY <2>2, PlacesAreLines DEF LineAt
  <2>4. QED
    BY <2>3
<1>4. \A p \in Places : LineAt(p).id \in Nat
  BY <1>1, <1>2
<1>5. \A p, q \in Places : Before(p, q) => LineAt(p).id < LineAt(q).id
  BY DEF InOrder
<1>6. ASSUME NEW p \in Places, NEW q \in Places, ~(LineAt(q).id < LineAt(p).id), p # q
      PROVE  Before(p, q) /\ LineAt(p).id < LineAt(q).id
  <2>1. Before(p, q) \/ Before(q, p)
    BY <1>6, PlacesAreInOrder
  <2>2. ~Before(q, p)
    BY <1>5, <1>6
  <2>3. QED
    BY <1>5, <2>1, <2>2
<1>7. ASSUME NEW p \in Places, NEW q \in Places, LineAt(p).id < LineAt(q).id
      PROVE  Before(p, q)
  <2>1. LineAt(p).id \in Nat /\ LineAt(q).id \in Nat
    BY <1>4
  <2>2. p # q /\ ~(LineAt(q).id < LineAt(p).id)
    BY <1>7, <2>1
  <2>3. QED
    BY <1>6, <2>2
<1>8. ASSUME NEW p \in Places, NEW q \in Places, LineAt(p).id = LineAt(q).id
      PROVE  p = q
  <2>1. LineAt(p).id \in Nat /\ LineAt(q).id \in Nat
    BY <1>4
  <2>2. ~(LineAt(q).id < LineAt(p).id) /\ ~(LineAt(p).id < LineAt(q).id)
    BY <1>8, <2>1
  <2>3. QED
    BY <1>6, <2>2
<1>9. QED
  BY <1>2, <1>3, <1>4, <1>5, <1>7, <1>8

\* Places whose identities are exactly the first n are n in number.
LEMMA PlacesCounted ==
    ASSUME NEW S, NEW n \in Nat,
           \A p \in S : LineAt(p).id \in 1..n,
           \A k \in 1..n : \E p \in S : LineAt(p).id = k,
           \A p, q \in S : LineAt(p).id = LineAt(q).id => p = q
    PROVE  Cardinality(S) = n
<1> DEFINE At(k) == CHOOSE p \in S : LineAt(p).id = k
           f == [k \in 1..n |-> At(k)]
<1>1. \A k \in 1..n : At(k) \in S /\ LineAt(At(k)).id = k
  OBVIOUS
<1> HIDE DEF At
<1>2. f \in [1..n -> S]
  BY <1>1
<1>3. \A i, j \in 1..n : f[i] = f[j] => i = j
  BY <1>1
<1>4. \A p \in S : \E k \in 1..n : f[k] = p
  BY <1>1
<1>5. f \in Bijection(1..n, S)
  BY <1>2, <1>3, <1>4 DEF Injection, IsInjective, Surjection, Bijection
<1> HIDE DEF f
<1>6. IsFiniteSet(1..n) /\ Cardinality(1..n) = n
  BY FS_Interval
<1>7. QED
  BY <1>5, <1>6, FS_Bijection DEF ExistsBijection

\* What verify expects of a line is what is in it.
LEMMA ExpectedIsThere ==
    ASSUME DiskOK, NumbersOK, InOrder, AllThere, NEW p \in Places
    PROVE  ExpectedSeq(p) = LineAt(p).id /\ ExpectedPrevious(p) = LineAt(p).id - 1
<1> DEFINE R == ReadBefore(p)
           id == LineAt(p).id
           n == id - 1
<1>1. written \in Nat /\ id \in 1..written /\ n \in Nat /\ id = n + 1
  <2>1. written \in Nat /\ id \in 1..written
    BY Bounds, IdentitiesAt DEF NumbersOK
  <2> HIDE DEF id
  <2>2. QED
    BY <2>1
<1>2. \A q \in Places : LineAt(q).id \in 1..written /\ LineAt(q).id \in Nat
  BY IdentitiesAt
<1>3. \A q \in Places : q \in R <=> LineAt(q).id < id
  BY IdentitiesAt DEF ReadBefore
<1>4. R \subseteq Places
  BY DEF ReadBefore
<1>5. \A q, r \in Places : Before(q, r) <=> LineAt(q).id < LineAt(r).id
  BY IdentitiesAt
<1>6. \A k \in 1..written : \E q \in Places : LineAt(q).id = k
  BY IdentitiesAt
<1>7. \A q, r \in R : LineAt(q).id = LineAt(r).id => q = r
  BY <1>4, IdentitiesAt
<1> HIDE DEF R, id
<1>8. \A q \in R : LineAt(q).id \in 1..n
  BY <1>1, <1>2, <1>3, <1>4
<1>9. ASSUME NEW k \in 1..n
      PROVE  \E q \in R : LineAt(q).id = k
  <2>1. k \in 1..written /\ k < id
    BY <1>1
  <2>2. QED
    BY <1>3, <1>6, <2>1
<1>10. Cardinality(R) = n
  <2> HIDE DEF n
  <2>1. QED
    BY <1>1, <1>7, <1>8, <1>9, PlacesCounted
<1>11. ExpectedSeq(p) = id
  BY <1>1, <1>10 DEF ExpectedSeq, R
<1>12. CASE R = {}
  <2>1. n = 0
    <3>1. n # 0 => n \in 1..n
      BY <1>1
    <3>2. QED
      BY <1>9, <1>12, <3>1
  <2>2. QED
    BY <1>11, <1>12, <2>1 DEF ExpectedPrevious, R, id, Genesis
<1>13. CASE R # {}
  <2> DEFINE last == CHOOSE q \in R : \A r \in R : ~Before(q, r)
  <2>1. n \in 1..n
    BY <1>1, <1>8, <1>13
  <2>2. PICK q \in R : LineAt(q).id = n
    BY <1>9, <2>1
  <2>3. \A r \in R : ~Before(q, r)
    <3>1. SUFFICES ASSUME NEW r \in R
                   PROVE  ~(LineAt(q).id < LineAt(r).id)
      BY <1>4, <1>5
    <3>2. LineAt(r).id \in 1..n
      BY <1>8
    <3>3. QED
      BY <1>1, <2>2, <3>2
  <2>4. last \in R /\ \A r \in R : ~Before(last, r)
    BY <2>3
  <2> HIDE DEF last
  <2>5. LineAt(last).id = n
    <3>1. ~(LineAt(last).id < n)
      BY <1>4, <1>5, <2>2, <2>4
    <3>2. LineAt(last).id \in 1..n
      BY <1>8, <2>4
    <3>3. QED
      BY <1>1, <3>1, <3>2
  <2>6. ExpectedPrevious(p) = LineAt(last).id
    BY <1>13 DEF ExpectedPrevious, R, last
  <2>7. QED
    BY <1>11, <2>5, <2>6 DEF id
<1>14. QED
  BY <1>12, <1>13

\* verify finds a trail of all lines, in order, with true seals, to be whole.
LEMMA AllThereVerifies ==
    ASSUME DiskOK, NumbersOK, InOrder, AllThere, SealedOK
    PROVE  Verifies
<1>1. written \in Nat
  BY Bounds DEF NumbersOK
<1>2. ChainHolds
  <2>1. SUFFICES ASSUME NEW p \in Places
                 PROVE  /\ Parses(LineAt(p))
                        /\ LineAt(p).prev = ExpectedPrevious(p)
                        /\ LineAt(p).seq = ExpectedSeq(p)
    BY DEF ChainHolds
  <2>2. /\ LineAt(p).id \in 1..written
        /\ LineAt(p).seq = LineAt(p).id /\ LineAt(p).prev = LineAt(p).id - 1
    BY IdentitiesAt
  <2>3. LineAt(p).seq > 0
    BY <1>1, <2>2
  <2>4. QED
    BY <2>2, <2>3, ExpectedIsThere DEF Parses
<1>3. Cardinality(Places) = written
  <2>1. /\ \A p \in Places : LineAt(p).id \in 1..written
        /\ \A k \in 1..written : \E p \in Places : LineAt(p).id = k
        /\ \A p, q \in Places : LineAt(p).id = LineAt(q).id => p = q
    BY IdentitiesAt
  <2>2. QED
    BY <1>1, <2>1, PlacesCounted
<1>4. \A d \in Days : d \in Day /\ seals[d].kind \in {"none", "torn", "whole"}
  BY DEF Days, DiskOK, Seal
<1>5. SealsHold
  <2>1. \A d \in Days : seals[d].kind # "torn"
    BY <1>4 DEF SealedOK
  <2>2. ASSUME NEW s \in SealsRead
        PROVE  /\ s.records <= Cardinality(Places)
               /\ \A p \in Places : ExpectedSeq(p) = s.records => LineAt(p).id = s.head
    <3>1. PICK d \in Days : s = seals[d] /\ seals[d].kind # "none"
      BY DEF SealsRead
    <3>2. s.head = s.records /\ s.records <= written
      BY <1>4, <2>1, <3>1 DEF SealedOK
    <3>3. QED
      BY <1>3, <3>2, ExpectedIsThere
  <2>3. QED
    BY <2>1, <2>2 DEF SealsHold
<1>6. QED
  BY <1>2, <1>5 DEF Verifies

\* A trail that met no crash or failure, lost no day and is in order verifies,
\* through restarts, days without records and midnights.
THEOREM UndamagedTrailsVerify == Spec => []UndamagedTrailVerifies
<1>1. Init => UndamagedOK
  <2>1. SUFFICES ASSUME Init
                 PROVE  ~cut /\ AllThere /\ HeadOK /\ FilledOK /\ SealedOK
    BY DEF UndamagedOK
  <2>2. \A d \in Day : files[d].lines = <<>> /\ ~files[d].exists /\ seals[d].kind = "none"
    BY <2>1 DEF Init, Absent, NoSeal
  <2>3. written = 0 /\ ~cut /\ open.day = 0
    BY <2>1 DEF Init, Closed
  <2>4. AllThere
    BY <2>2, <2>3 DEF AllThere
  <2>5. QED
    BY <2>2, <2>3, <2>4 DEF HeadOK, FilledOK, SealedOK
<1>2. TrailInv /\ UndamagedOK /\ [Next]_vars => UndamagedOK'
  <2>1. SUFFICES ASSUME TrailInv, UndamagedOK, [Next]_vars, Undamaged'
                 PROVE  ~cut' /\ (Ordered' => AllThere' /\ HeadOK' /\ FilledOK' /\ SealedOK')
    BY DEF UndamagedOK
  <2>2. Shape /\ LinesOK /\ HistoryOK
    BY <2>1 DEF TrailInv, Shape
  <2>3. Undamaged /\ ~cut /\ ~cut' /\ ~dropped'
    <3>1. Undamaged /\ cut' = cut
      BY <2>1, <2>2, UndamagedEffects
    <3>2. QED
      BY <2>1, <3>1 DEF UndamagedOK, Undamaged
  <2>4. SUFFICES ASSUME Ordered'
                 PROVE  AllThere' /\ HeadOK' /\ FilledOK' /\ SealedOK'
    BY <2>3
  <2>5. Ordered /\ AllThere /\ HeadOK /\ FilledOK /\ SealedOK
    <3>1. Ordered
      BY <2>1, <2>2, <2>3, <2>4, WasOrdered
    <3>2. QED
      BY <2>1, <2>3, <3>1 DEF UndamagedOK
  <2>6. QED
    BY <2>1, <2>2, <2>3, <2>5, StepKeepsAllThere, StepKeepsHead, StepKeepsFilled, StepKeepsSealed
<1>3. TrailInv /\ UndamagedOK => UndamagedTrailVerifies
  <2>1. SUFFICES ASSUME TrailInv, UndamagedOK, crashes + errors = 0, ~dropped, InOrder
                 PROVE  Verifies
    BY DEF UndamagedTrailVerifies
  <2>2. DiskOK /\ NumbersOK /\ HistoryOK
    BY <2>1 DEF TrailInv, Shape
  <2>3. Undamaged
    <3>1. crashes \in Nat /\ errors \in Nat
      BY <2>2, Bounds DEF HistoryOK
    <3>2. QED
      BY <2>1, <3>1 DEF Undamaged
  <2>4. AllThere /\ SealedOK
    BY <2>1, <2>2, <2>3, InOrderIsOrdered DEF UndamagedOK
  <2>5. QED
    BY <2>1, <2>2, <2>4, AllThereVerifies
<1>4. QED
  BY <1>1, <1>2, <1>3, TrailInvariance, PTL DEF Spec
=============================================================================
