------------------------ MODULE CrashRecoverySteps -------------------------
(***************************************************************************)
(* First, what the journal file loses, for every set F of records and every*)
(* history of appends, some of which the process did not survive.  Then,   *)
(* what a coordinator that journals its jobs keeps through every crash,    *)
(* for every set of jobs and tasks, every retry policy and any number of   *)
(* crashes and torn appends.                                               *)
(***************************************************************************)
EXTENDS CrashRecovery, TLAPS

-----------------------------------------------------------------------------

JournalNext(F) == \E r \in F : AppendRecord(r) \/ TearRecord(r)

JournalSpec(F) == JournalInit /\ [][JournalNext(F)]_journalVars

Fragments(F) == [rec : F, whole : BOOLEAN]

JournalTypeOK(F) ==
    /\ lines \in Seq(Seq(Fragments(F)))
    /\ tail \in Seq(Fragments(F))
    /\ acked \in Seq(F)

\* Every line ends in the record acknowledged when the line was ended, whole;
\* what may precede it in the line is the debris of interrupted appends.
LinesEndAcknowledged ==
    /\ Len(lines) = Len(acked)
    /\ \A i \in 1..Len(lines) :
        /\ Len(lines[i]) >= 1
        /\ lines[i][Len(lines[i])] = Fragment(acked[i], TRUE)

JournalInv(F) == JournalTypeOK(F) /\ LinesEndAcknowledged

\* A replay that lost a record lost one that shares its line.
LastGlued ==
    Readable /\ acked # <<>> /\ Len(Replayed) = Len(acked) - 1 => Len(lines[Len(acked)]) > 1

\* What appending does to a sequence, with the result named.
LEMMA Appended ==
  ASSUME NEW S, NEW s \in Seq(S), NEW e \in S, NEW u, u = Append(s, e)
  PROVE  /\ u \in Seq(S) /\ Len(s) \in Nat /\ Len(u) = Len(s) + 1
         /\ \A i \in 1..Len(s) : u[i] = s[i]
         /\ u[Len(s) + 1] = e
  OBVIOUS

\* The opening of a fresh file establishes the invariant.
LEMMA InitInv == ASSUME NEW F PROVE JournalInit => JournalInv(F)
  BY DEF JournalInit, JournalInv, JournalTypeOK, LinesEndAcknowledged

\* An append keeps it, whether it returns or is cut short.
LEMMA StepInv == ASSUME NEW F PROVE JournalInv(F) /\ [JournalNext(F)]_journalVars => JournalInv(F)'
<1> SUFFICES ASSUME JournalInv(F), [JournalNext(F)]_journalVars PROVE JournalInv(F)'
  OBVIOUS
<1> USE DEF JournalInv
<1>1. ASSUME NEW r \in F, AppendRecord(r) PROVE JournalInv(F)'
  <2>1. PICK frag : frag = Fragment(r, TRUE)
    BY Zenon
  <2>2. PICK line : line = Append(tail, frag)
    BY Zenon
  <2>3. frag \in Fragments(F)
    BY <2>1 DEF Fragment, Fragments
  <2>4. /\ lines \in Seq(Seq(Fragments(F))) /\ tail \in Seq(Fragments(F)) /\ acked \in Seq(F)
        /\ lines' = Append(lines, line) /\ tail' = <<>> /\ acked' = Append(acked, r)
    BY <1>1, <2>1, <2>2 DEF JournalTypeOK, AppendRecord
  <2>5. /\ line \in Seq(Fragments(F)) /\ Len(tail) \in Nat /\ Len(line) = Len(tail) + 1
        /\ line[Len(tail) + 1] = frag
    BY <2>2, <2>3, <2>4, Appended
  <2>6. /\ lines' \in Seq(Seq(Fragments(F))) /\ Len(lines) \in Nat
        /\ Len(lines') = Len(lines) + 1
        /\ \A i \in 1..Len(lines) : lines'[i] = lines[i]
        /\ lines'[Len(lines) + 1] = line
    BY <2>4, <2>5, Appended
  <2>7. /\ acked' \in Seq(F) /\ Len(acked') = Len(acked) + 1
        /\ \A i \in 1..Len(acked) : acked'[i] = acked[i]
        /\ acked'[Len(acked) + 1] = r
    BY <2>4, Appended
  <2>8. JournalTypeOK(F)'
    BY <2>4, <2>6, <2>7 DEF JournalTypeOK
  <2>9. ASSUME NEW i \in 1..Len(lines')
        PROVE Len(lines'[i]) >= 1 /\ lines'[i][Len(lines'[i])] = Fragment(acked'[i], TRUE)
    <3>1. CASE i \in 1..Len(lines)
      BY <3>1, <2>6, <2>7, Zenon DEF LinesEndAcknowledged
    <3>2. CASE i = Len(lines) + 1
      <4>1. lines'[i] = line /\ acked'[i] = r
        BY <3>2, <2>6, <2>7 DEF LinesEndAcknowledged
      <4> QED
        BY <4>1, <2>1, <2>5
    <3>3. i \in 1..Len(lines) \/ i = Len(lines) + 1
      <4>1. Len(lines) \in Nat /\ Len(lines') = Len(lines) + 1
        BY <2>6
      <4> QED
        BY <4>1
    <3> QED
      BY <3>1, <3>2, <3>3, Zenon
  <2> QED
    BY <2>6, <2>7, <2>8, <2>9, Zenon DEF LinesEndAcknowledged
<1>2. ASSUME NEW r \in F, TearRecord(r) PROVE JournalInv(F)'
  <2>1. PICK whole \in BOOLEAN : tail' = Append(tail, Fragment(r, whole))
    BY <1>2 DEF TearRecord
  <2>2. Fragment(r, whole) \in Fragments(F)
    BY DEF Fragment, Fragments
  <2>3. tail' \in Seq(Fragments(F))
    BY <2>1, <2>2, Appended DEF JournalTypeOK
  <2> QED
    BY <1>2, <2>3, Zenon DEF TearRecord, JournalTypeOK, LinesEndAcknowledged
<1>3. CASE UNCHANGED journalVars
  BY <1>3, Zenon DEF journalVars, JournalTypeOK, LinesEndAcknowledged
<1> QED
  BY <1>1, <1>2, <1>3 DEF JournalNext

\* The invariant implies that a clean log replays as it was acknowledged, and
\* that a replay that succeeds loses at most one record.
LEMMA InvReplays == ASSUME NEW F PROVE JournalInv(F) => CleanLogReplays /\ LossBounded /\ LastGlued
<1> SUFFICES ASSUME JournalInv(F) PROVE CleanLogReplays /\ LossBounded /\ LastGlued
  OBVIOUS
\* A line that parses holds exactly the record acknowledged with it.
<1>ParsedLine. ASSUME NEW i \in 1..Len(lines), Parses(lines[i])
               PROVE  lines[i][1].rec = acked[i]
  <2>1. Len(lines[i]) = 1 /\ lines[i][Len(lines[i])] = Fragment(acked[i], TRUE)
    BY <1>ParsedLine, Zenon DEF JournalInv, LinesEndAcknowledged, Parses
  <2>2. lines[i][1] = Fragment(acked[i], TRUE)
    BY <2>1
  <2> QED
    BY <2>2 DEF Fragment
\* Without a tail, the lines of the file are those that end in a newline.
<1>NoTail. ASSUME tail = <<>>
           PROVE  AllLines = lines /\ Len(AllLines) = Len(acked) /\ Len(acked) \in Nat
  BY <1>NoTail DEF JournalInv, JournalTypeOK, LinesEndAcknowledged, AllLines
\* With one, it is one line more.
<1>WithTail. ASSUME tail # <<>>
             PROVE  /\ Len(AllLines) = Len(acked) + 1 /\ Len(acked) \in Nat
                    /\ \A i \in 1..Len(acked) : AllLines[i] = lines[i]
                    /\ AllLines[Len(acked) + 1] = tail
  <2>1. /\ lines \in Seq(Seq(Fragments(F))) /\ tail \in Seq(Fragments(F))
        /\ AllLines = Append(lines, tail) /\ Len(lines) = Len(acked)
    BY <1>WithTail DEF JournalInv, JournalTypeOK, LinesEndAcknowledged, AllLines
  <2>2. /\ Len(lines) \in Nat /\ Len(AllLines) = Len(lines) + 1
        /\ \A i \in 1..Len(lines) : AllLines[i] = lines[i]
        /\ AllLines[Len(lines) + 1] = tail
    BY <2>1, Appended
  <2> QED
    BY <2>1, <2>2
\* When every line parses, the lines hold what was acknowledged.
<1>ParsedLines. ASSUME NEW n \in 0..Len(acked), \A i \in 1..n : Parses(lines[i])
                PROVE  \A i \in 1..n : lines[i][1].rec = acked[i]
  <2>1. Len(lines) = Len(acked) /\ Len(acked) \in Nat
    BY DEF JournalInv, JournalTypeOK, LinesEndAcknowledged
  <2>2. \A i \in 1..n : i \in 1..Len(lines)
    BY <2>1
  <2> QED
    BY <1>ParsedLines, <2>2, <1>ParsedLine
\* A function on one index more that agrees with s below it is an Append to s.
<1>IsAppend. ASSUME NEW S, NEW s \in Seq(S), NEW e \in S, NEW f,
                    f \in [1..(Len(s) + 1) -> S],
                    \A i \in 1..Len(s) : f[i] = s[i],
                    f[Len(s) + 1] = e
             PROVE  f = Append(s, e)
  <2>1. PICK u : u = Append(s, e)
    BY Zenon
  <2>2. /\ u \in Seq(S) /\ Len(s) \in Nat /\ Len(u) = Len(s) + 1
        /\ \A i \in 1..Len(s) : u[i] = s[i]
        /\ u[Len(s) + 1] = e
    BY <2>1, Appended
  <2>3. u = [i \in 1..(Len(s) + 1) |-> u[i]]
    BY <2>2
  <2>4. \A i \in 1..(Len(s) + 1) : i \in 1..Len(s) \/ i = Len(s) + 1
    BY <2>2
  <2>5. \A i \in 1..(Len(s) + 1) : f[i] = u[i]
    BY <1>IsAppend, <2>2, <2>4
  <2> QED
    BY <1>IsAppend, <2>1, <2>3, <2>5
\* A tail that parses is replayed after what was acknowledged.
<1>TailKept. ASSUME tail # <<>>, Parses(tail), \A i \in 1..Len(acked) : Parses(lines[i])
             PROVE  1 \in 1..Len(tail) /\ Replayed = Append(acked, tail[1].rec)
  <2>1. acked \in Seq(F) /\ tail \in Seq(Fragments(F)) /\ Len(acked) \in Nat
    BY DEF JournalInv, JournalTypeOK
  <2>2. /\ Len(AllLines) = Len(acked) + 1
        /\ \A i \in 1..Len(acked) : AllLines[i] = lines[i]
        /\ AllLines[Len(acked) + 1] = tail
    BY <1>TailKept, <1>WithTail
  <2>3. Replayed = [i \in 1..(Len(acked) + 1) |-> AllLines[i][1].rec]
    BY <1>TailKept, <2>1, <2>2 DEF Replayed
  <2>4. 1 \in 1..Len(tail) /\ tail[1].rec \in F
    <3>1. Len(tail) = 1
      BY <1>TailKept DEF Parses
    <3>2. tail[1] \in Fragments(F)
      BY <2>1, <3>1
    <3> QED
      BY <3>1, <3>2 DEF Fragments
  <2>5. \A i \in 1..Len(acked) : Replayed[i] = acked[i] /\ acked[i] \in F
    <3>1. Len(acked) \in 0..Len(acked)
      BY <2>1
    <3>2. \A i \in 1..Len(acked) : lines[i][1].rec = acked[i]
      BY <1>TailKept, <3>1, <1>ParsedLines
    <3>3. \A i \in 1..Len(acked) : acked[i] \in F
      BY <2>1
    <3>4. \A i \in 1..Len(acked) : Replayed[i] = AllLines[i][1].rec
      BY <2>1, <2>3
    <3> QED
      BY <2>2, <3>2, <3>3, <3>4
  <2>6. Replayed[Len(acked) + 1] = tail[1].rec
    BY <2>1, <2>2, <2>3
  <2>7. Replayed \in [1..(Len(acked) + 1) -> F]
    <3>1. \A i \in 1..(Len(acked) + 1) : i \in 1..Len(acked) \/ i = Len(acked) + 1
      BY <2>1
    <3>2. \A i \in 1..(Len(acked) + 1) : Replayed[i] \in F
      BY <3>1, <2>4, <2>5, <2>6
    <3> QED
      BY <2>3, <3>2
  <2>8. \A i \in 1..Len(acked) : Replayed[i] = acked[i]
    BY <2>5
  <2>9. Replayed = Append(acked, tail[1].rec)
    BY <2>1, <2>4, <2>6, <2>7, <2>8, <1>IsAppend, Zenon
  <2> QED
    BY <2>4, <2>9
\* A tail that does not parse is dropped, and nothing else.
<1>TailDropped. ASSUME tail # <<>>, ~Parses(tail), \A i \in 1..Len(acked) : Parses(lines[i])
                PROVE  Replayed = acked
  <2>1. acked \in Seq(F) /\ Len(acked) \in Nat
    BY DEF JournalInv, JournalTypeOK
  <2>2. /\ Len(AllLines) = Len(acked) + 1
        /\ \A i \in 1..Len(acked) : AllLines[i] = lines[i]
        /\ AllLines[Len(acked) + 1] = tail
    BY <1>TailDropped, <1>WithTail
  <2>3. Replayed = [i \in 1..Len(acked) |-> AllLines[i][1].rec]
    BY <1>TailDropped, <2>1, <2>2 DEF Replayed
  <2>4. \A i \in 1..Len(acked) : AllLines[i][1].rec = acked[i]
    BY <1>TailDropped, <2>1, <2>2, <1>ParsedLines
  <2>5. acked = [i \in 1..Len(acked) |-> acked[i]]
    BY <2>1
  <2> QED
    BY <2>3, <2>4, <2>5
\* Without a tail, lines that all parse are replayed as acknowledged.
<1>AllKept. ASSUME tail = <<>>, \A i \in 1..Len(acked) : Parses(lines[i])
            PROVE  Replayed = acked
  <2>1. acked \in Seq(F) /\ Len(acked) \in Nat
    BY DEF JournalInv, JournalTypeOK
  <2>2. AllLines = lines /\ Len(AllLines) = Len(acked)
    BY <1>AllKept, <1>NoTail
  <2>3. Replayed = [i \in 1..Len(acked) |-> lines[i][1].rec]
    BY <1>AllKept, <2>1, <2>2 DEF Replayed
  <2>4. \A i \in 1..Len(acked) : lines[i][1].rec = acked[i]
    BY <1>AllKept, <2>1, <1>ParsedLines
  <2>5. acked = [i \in 1..Len(acked) |-> acked[i]]
    BY <2>1
  <2> QED
    BY <2>3, <2>4, <2>5
<1>InvClean. CleanLogReplays
  <2> SUFFICES ASSUME ~Glued PROVE /\ Readable
                /\ \/ Replayed = acked
                   \/ \E r \in {tail[i].rec : i \in 1..Len(tail)} :
                          Replayed = Append(acked, r)
    BY DEF CleanLogReplays
  <2>1. Len(lines) = Len(acked) /\ Len(acked) \in Nat
    BY DEF JournalInv, JournalTypeOK, LinesEndAcknowledged
  <2>2. \A i \in 1..Len(acked) : Parses(lines[i])
    <3> TAKE i \in 1..Len(acked)
    <3>1. Len(lines[i]) >= 1
      BY <2>1, Zenon DEF JournalInv, LinesEndAcknowledged
    <3>2. lines[i][Len(lines[i])] = Fragment(acked[i], TRUE)
      BY <2>1, Zenon DEF JournalInv, LinesEndAcknowledged
    <3>3. Len(lines[i]) <= 1 /\ Len(lines[i]) \in Nat
      BY <2>1 DEF Glued, JournalInv, JournalTypeOK
    <3>4. Len(lines[i]) = 1
      <4>1. \A n \in Nat : n >= 1 /\ n <= 1 => n = 1
        OBVIOUS
      <4> QED
        BY <3>1, <3>3, <4>1, Zenon
    <3>5. lines[i][1] = Fragment(acked[i], TRUE)
      BY <3>2, <3>4, Zenon
    <3> QED
      BY <3>4, <3>5 DEF Parses, Fragment
  <2>3. Readable
    <3>1. CASE tail = <<>>
      BY <3>1, <2>1, <2>2, <1>NoTail DEF Readable
    <3>2. CASE tail # <<>>
      BY <3>2, <2>1, <2>2, <1>WithTail DEF Readable
    <3> QED
      BY <3>1, <3>2
  <2>4. CASE tail = <<>>
    BY <2>2, <2>3, <2>4, <1>AllKept
  <2>5. CASE tail # <<>> /\ Parses(tail)
    BY <2>2, <2>3, <2>5, <1>TailKept
  <2>6. CASE tail # <<>> /\ ~Parses(tail)
    BY <2>2, <2>3, <2>6, <1>TailDropped
  <2> QED
    BY <2>4, <2>5, <2>6
<1>InvLoss. LossBounded
  <2> SUFFICES ASSUME Readable
               PROVE \/ Replayed = acked
                     \/ \E i \in 1..Len(tail) : Replayed = Append(acked, tail[i].rec)
                     \/ acked # <<>> /\ Replayed = SubSeq(acked, 1, Len(acked) - 1)
    BY DEF LossBounded
  <2>1. acked \in Seq(F) /\ Len(acked) \in Nat
    BY DEF JournalInv, JournalTypeOK
  <2>2. CASE tail = <<>>
    <3>1. AllLines = lines /\ Len(AllLines) = Len(acked)
      BY <2>2, <1>NoTail
    <3>2. \A i \in 1..(Len(acked) - 1) : Parses(lines[i])
      BY <3>1, <2>1 DEF Readable
    <3>3. CASE Len(acked) = 0 \/ Parses(lines[Len(acked)])
      <4>1. \A i \in 1..Len(acked) : i \in 1..(Len(acked) - 1) \/ i = Len(acked)
        BY <2>1
      <4>2. \A i \in 1..Len(acked) : Parses(lines[i])
        BY <3>2, <3>3, <4>1, <2>1
      <4> QED
        BY <2>2, <4>2, <1>AllKept
    <3>4. CASE ~(Len(acked) = 0 \/ Parses(lines[Len(acked)]))
      <4>1. Replayed = [i \in 1..(Len(acked) - 1) |-> lines[i][1].rec]
        BY <3>1, <3>4, <2>1 DEF Replayed
      <4>2. SubSeq(acked, 1, Len(acked) - 1) = [i \in 1..(Len(acked) - 1) |-> acked[i]]
        BY <2>1, <3>4
      <4>3. Len(acked) - 1 \in 0..Len(acked) /\ acked # <<>>
        BY <2>1, <3>4
      <4>4. \A i \in 1..(Len(acked) - 1) : lines[i][1].rec = acked[i]
        BY <3>2, <4>3, <1>ParsedLines
      <4> QED
        BY <4>1, <4>2, <4>3, <4>4, Zenon
    <3> QED
      BY <3>3, <3>4
  <2>3. CASE tail # <<>>
    <3>1. \A i \in 1..Len(acked) : Parses(lines[i])
      BY <2>1, <2>3, <1>WithTail DEF Readable
    <3> QED
      BY <2>3, <3>1, <1>TailKept, <1>TailDropped
  <2> QED
    BY <2>2, <2>3
<1>Last. LastGlued
  <2> SUFFICES ASSUME Readable, acked # <<>>, Len(Replayed) = Len(acked) - 1
               PROVE  Len(lines[Len(acked)]) > 1
    BY DEF LastGlued
  <2>1. /\ acked \in Seq(F) /\ Len(acked) \in Nat /\ Len(lines) = Len(acked) /\ Len(acked) >= 1
        /\ lines \in Seq(Seq(Fragments(F)))
    BY DEF JournalInv, JournalTypeOK, LinesEndAcknowledged
  <2>2. Replayed # acked
    BY <2>1
  <2>3. CASE tail # <<>>
    <3>1. \A i \in 1..Len(acked) : Parses(lines[i])
      BY <2>1, <2>3, <1>WithTail DEF Readable
    <3>2. Replayed = Append(acked, tail[1].rec)
      BY <2>2, <2>3, <3>1, <1>TailKept, <1>TailDropped
    <3>3. Len(Append(acked, tail[1].rec)) = Len(acked) + 1
      BY <2>1
    <3> QED
      BY <2>1, <3>2, <3>3
  <2>4. CASE tail = <<>>
    <3>1. AllLines = lines /\ Len(AllLines) = Len(acked)
      BY <2>4, <1>NoTail
    <3>2. \A i \in 1..(Len(acked) - 1) : Parses(lines[i])
      BY <2>1, <3>1 DEF Readable
    <3>3. ~ Parses(lines[Len(acked)])
      <4> SUFFICES ASSUME Parses(lines[Len(acked)]) PROVE FALSE
        OBVIOUS
      <4>1. \A i \in 1..Len(acked) : i \in 1..(Len(acked) - 1) \/ i = Len(acked)
        BY <2>1
      <4>2. \A i \in 1..Len(acked) : Parses(lines[i])
        BY <3>2, <4>1
      <4> QED
        BY <2>2, <2>4, <4>2, <1>AllKept
    <3>4. PICK line : line = lines[Len(acked)]
      OBVIOUS
    <3>5. Len(acked) \in 1..Len(lines)
      BY <2>1
    <3>6. Len(line) >= 1 /\ line[Len(line)] = Fragment(acked[Len(acked)], TRUE)
      BY <2>1, <3>4, <3>5, Zenon DEF JournalInv, LinesEndAcknowledged
    <3>7. Len(line) \in Nat
      BY <2>1, <3>4, <3>5
    <3>8. Len(line) # 1
      BY <3>3, <3>4, <3>6 DEF Parses, Fragment
    <3>9. Len(line) > 1
      <4>1. \A n \in Nat : n >= 1 /\ n # 1 => n > 1
        OBVIOUS
      <4> QED
        BY <3>6, <3>7, <3>8, <4>1, Zenon
    <3> QED
      BY <3>4, <3>9
  <2> QED
    BY <2>3, <2>4
<1> QED
  BY <1>InvClean, <1>InvLoss, <1>Last

\* FileJournal: whatever appends a crash interrupts, a log nothing was glued
\* onto replays as acknowledged, and a replay that succeeds at all is off by
\* the last record at most.
THEOREM JournalSafe == ASSUME NEW F PROVE JournalSpec(F) => [](CleanLogReplays /\ LossBounded)
<1>1. JournalInit => JournalInv(F)
  BY InitInv
<1>2. JournalInv(F) /\ [JournalNext(F)]_journalVars => JournalInv(F)'
  BY StepInv
<1>3. JournalInv(F) => CleanLogReplays /\ LossBounded
  BY InvReplays
<1> QED
  BY <1>1, <1>2, <1>3, PTL DEF JournalSpec

-----------------------------------------------------------------------------
(* The coordinator.  What it writes, and what it has lined up to write.    *)

Record ==
    {Planned(j) : j \in Jobs} \cup {Final(j) : j \in Jobs}
    \cup {Status(j, s) : j \in Jobs, s \in JobStatuses}
    \cup {Moved(t, s, n) : t \in Tasks, s \in TaskStates, n \in Nat}
    \cup {Result(t) : t \in Tasks}
    \cup {Failure(t, n, dead) : t \in Tasks, n \in Nat, dead \in BOOLEAN}

Shapes ==
    /\ process \in {"up", "down", "refused"} /\ crashes \in Nat
    /\ submitted \subseteq Jobs /\ known \subseteq submitted /\ running \subseteq known
    /\ jobStatus \in [Jobs -> JobStatuses] /\ state \in [Tasks -> TaskStates]
    /\ attempt \in [Tasks -> Nat] /\ entry \in [Tasks -> Nat \cup {NoEntry}]
    /\ started \in [Tasks -> Nat] /\ todo \in [Jobs -> Seq(Record)]
    /\ JournalInv(Record)

\* The states a task has between two operations.
AtRest ==
    {"Created", "Queued", "Running", "Completed", "RetryScheduled", "Cancelled", "DeadLettered"}

IsMove(r, t) == r.kind = "moved" /\ r.task = t

\* A dead process holds nothing.
Dead ==
    process # "up" =>
        /\ known = {} /\ running = {}
        /\ \A j \in Jobs : todo[j] = <<>>
        /\ \A t \in Tasks : state[t] = "Created" /\ attempt[t] = 0 /\ entry[t] = NoEntry

\* The engine may write r now.
Due(j, r) ==
    /\ r.kind = "planned" => j \in submitted
    /\ r.kind # "planned" => j \in running
    /\ r.kind = "status" => r.status \in JobAllowed[jobStatus[j]]
    /\ r.kind = "moved" => r.to \in TaskAllowed[state[r.task]] /\ r.attempt = attempt[r.task]

\* The engine may write r once it has written p.
Follows(p, r) ==
    /\ p.kind # "planned" /\ r.kind # "planned"
    /\ r.kind = "status" => p.kind = "status" /\ r.status \in JobAllowed[p.status]
    /\ r.kind = "moved" => /\ p.kind = "moved" /\ r.task = p.task /\ r.attempt = p.attempt
                           /\ r.to \in TaskAllowed[p.to]
    /\ p.kind = "moved" /\ p.to \notin AtRest => r.kind = "moved"
    /\ p.kind = "moved" => p.to # "Running"
    /\ p.kind # "final"

\* A line-up of records may be written from now on, one after the other.
LinedUp(j, recs) ==
    /\ \A i \in 1..Len(recs) : recs[i].job = j
    /\ recs # <<>> => Due(j, recs[1])
    /\ \A i \in 1..(Len(recs) - 1) : Follows(recs[i], recs[i + 1])
    /\ recs # <<>> => LET last == recs[Len(recs)] IN last.kind = "moved" => last.to \in AtRest
    /\ \A i \in 1..Len(recs) : recs[i].kind = "moved" /\ recs[i].to = "Running" =>
                                    attempt[recs[i].task] > started[recs[i].task] /\ entry[recs[i].task] = NoEntry

Programs ==
    /\ \A j \in Jobs : LinedUp(j, todo[j])
    /\ \A t \in Tasks : state[t] \in AtRest \/ (todo[JobOf[t]] # <<>> /\ IsMove(todo[JobOf[t]][1], t))

\* With a torn line still at the end of the file, a coordinator that is up has
\* written nothing, and what it will write first is a plan or that a job runs.
Fresh ==
    process = "up" /\ tail # <<>> =>
        \A j \in Jobs : \/ todo[j] = <<>> /\ j \notin running
                        \/ Len(todo[j]) = 1 /\ todo[j][1].kind \in {"planned", "status"}

\* A record that shares its line is a plan or a status.
GlueSparesMoves == \A i \in 1..Len(lines) : Len(lines[i]) > 1 => acked[i].kind \in {"planned", "status"}

Written == {acked[i] : i \in 1..Len(acked)} \cup {tail[i].rec : i \in 1..Len(tail)}

\* Only what was submitted is planned.
PlansSubmitted == \A r \in Written : r.kind = "planned" => r.job \in submitted

Allowance(t) == MaxAttempts[t] + crashes

\* The attempts a task may still be charged.
Budgeted ==
    /\ \A r \in Written : r.kind = "moved" =>
          r.attempt <= (IF process = "up" THEN Allowance(r.task) ELSE Allowance(r.task) - 1)
    /\ \A t \in Tasks :
          /\ attempt[t] <= Allowance(t)
          /\ entry[t] < Allowance(t)
          /\ state[t] = "Created" => attempt[t] < Allowance(t)
    /\ process # "up" => crashes >= 1

\* No move follows the one that settled a task.
SettledLast ==
    \A i \in 1..Len(acked) : acked[i].kind = "moved" /\ acked[i].to \in Terminal =>
        /\ \A k \in (i + 1)..Len(acked) : ~ IsMove(acked[k], acked[i].task)
        /\ \A k \in 1..Len(tail) : ~ IsMove(tail[k].rec, acked[i].task)

\* What started is in the journal, with nothing older behind it.
StartsRecorded ==
    \A t \in Tasks :
        /\ process = "up" => attempt[t] >= started[t]
        /\ entry[t] # NoEntry => entry[t] >= started[t]
        /\ \A i \in 1..Len(acked) :
              IsMove(acked[i], t) /\ (\A k \in (i + 1)..Len(acked) : ~ IsMove(acked[k], t))
                  => acked[i].attempt >= started[t]
        /\ \A k \in 1..Len(tail) : IsMove(tail[k].rec, t) => tail[k].rec.attempt >= started[t]
        /\ started[t] > 0 => \E i \in 1..Len(acked) : IsMove(acked[i], t)

\* Memory against the journal, as long as nothing was glued.
Mirror ==
    process = "up" /\ ~Glued =>
        /\ PlannedJobs = known /\ RestoredResults = results
        /\ RestoredFailures = failures /\ RestoredFinal = final
        /\ \A j \in Jobs :
              LastStatus(j) = jobStatus[j] \/ (jobStatus[j] = "Planning" /\ LastStatus(j) \notin Finished)
        /\ \A t \in Tasks :
              /\ LastMove(t).to = state[t] \/ (state[t] = "Created" /\ LastMove(t).to \notin Terminal)
              /\ LastMove(t).attempt = attempt[t] \/ state[t] \in {"Queued", "RetryScheduled"}

CrashInv ==
    /\ Shapes /\ Dead /\ Programs /\ Fresh /\ GlueSparesMoves /\ PlansSubmitted
    /\ Budgeted /\ SettledLast /\ SettledStaysSettled /\ StartsRecorded /\ Mirror

-----------------------------------------------------------------------------
(* Records and sequences of them.                                          *)

Kinds == {"planned", "status", "moved", "result", "failure", "final"}

LEMMA RecordFields ==
  ASSUME NEW r \in Record
  PROVE  /\ r.kind \in Kinds /\ r.job \in Jobs
         /\ r.kind = "status" => r.status \in JobStatuses
         /\ r.kind = "moved" => /\ r.task \in Tasks /\ r.job = JobOf[r.task]
                                /\ r.to \in TaskStates /\ r.attempt \in Nat
<1> USE CrashRecoveryAssumption DEF CrashRecoveryAssumption, Kinds
<1>1. CASE \E j \in Jobs : r = Planned(j) \/ r = Final(j)
  BY <1>1 DEF Planned, Final
<1>2. CASE \E j \in Jobs, s \in JobStatuses : r = Status(j, s)
  BY <1>2 DEF Status
<1>3. CASE \E t \in Tasks, s \in TaskStates, n \in Nat : r = Moved(t, s, n)
  BY <1>3 DEF Moved
<1>4. CASE \E t \in Tasks : r = Result(t)
  BY <1>4 DEF Result
<1>5. CASE \E t \in Tasks, n \in Nat, dead \in BOOLEAN : r = Failure(t, n, dead)
  BY <1>5 DEF Failure
<1> QED
  BY <1>1, <1>2, <1>3, <1>4, <1>5 DEF Record

LEMMA MovedRecord ==
  ASSUME NEW t \in Tasks, NEW s \in TaskStates, NEW n \in Nat
  PROVE  /\ Moved(t, s, n) \in Record /\ Moved(t, s, n).kind = "moved"
         /\ Moved(t, s, n).task = t /\ Moved(t, s, n).to = s /\ Moved(t, s, n).attempt = n
         /\ Moved(t, s, n).job = JobOf[t]
  BY DEF Moved, Record

\* What is left of a line-up when its first record is written.
LEMMA TailOf ==
  ASSUME NEW S, NEW s \in Seq(S), s # <<>>
  PROVE  /\ Head(s) = s[1] /\ s[1] \in S /\ 1 \in 1..Len(s) /\ Len(s) \in Nat
         /\ Tail(s) \in Seq(S) /\ Len(Tail(s)) = Len(s) - 1
         /\ \A i \in 1..(Len(s) - 1) : Tail(s)[i] = s[i + 1]
         /\ Tail(s) # <<>> => Len(s) >= 2
  OBVIOUS

-----------------------------------------------------------------------------
(* What depends on the journal alone.                                      *)

LEMMA SameJournal ==
  ASSUME UNCHANGED journalVars
  PROVE  /\ Replayed' = Replayed /\ (Readable' <=> Readable) /\ (Glued' <=> Glued)
         /\ Written' = Written
         /\ PlannedJobs' = PlannedJobs /\ RestoredResults' = RestoredResults
         /\ RestoredFailures' = RestoredFailures /\ RestoredFinal' = RestoredFinal
         /\ \A t : LastMove(t)' = LastMove(t)
         /\ \A j : LastStatus(j)' = LastStatus(j)
<1>1. lines' = lines /\ tail' = tail /\ acked' = acked
  BY DEF journalVars
<1>2. Replayed' = Replayed /\ (Readable' <=> Readable) /\ (Glued' <=> Glued)
  BY <1>1 DEF Replayed, Readable, Glued, AllLines
<1>3. Written' = Written
  BY <1>1 DEF Written
<1>4. /\ PlannedJobs' = PlannedJobs /\ RestoredResults' = RestoredResults
      /\ RestoredFailures' = RestoredFailures /\ RestoredFinal' = RestoredFinal
  BY <1>2 DEF PlannedJobs, RestoredResults, RestoredFailures, RestoredFinal
<1>5. (\A t : LastMove(t)' = LastMove(t)) /\ (\A j : LastStatus(j)' = LastStatus(j))
  BY <1>2 DEF LastMove, LastStatus
<1> QED
  BY <1>2, <1>3, <1>4, <1>5

LEMMA SameJournalInv ==
  ASSUME UNCHANGED journalVars, JournalInv(Record)
  PROVE  JournalInv(Record)'
  BY Zenon DEF journalVars, JournalInv, JournalTypeOK, LinesEndAcknowledged

\* A line-up stays one as long as nothing it is about changes.
LEMMA StillLinedUp ==
  ASSUME NEW j \in Jobs, NEW recs \in Seq(Record), LinedUp(j, recs),
         submitted \subseteq submitted', j \in running => j \in running',
         jobStatus'[j] = jobStatus[j],
         \A t \in Tasks : JobOf[t] = j =>
            /\ state'[t] = state[t] /\ attempt'[t] = attempt[t] /\ started'[t] = started[t]
            /\ entry'[t] \in {entry[t], NoEntry}
  PROVE  LinedUp(j, recs)'
<1>1. \A i \in 1..Len(recs) : recs[i] \in Record
  OBVIOUS
<1>2. \A i \in 1..Len(recs) : recs[i].job = j
  BY DEF LinedUp
<1>3. ASSUME NEW i \in 1..Len(recs), recs[i].kind = "moved"
      PROVE  LET t == recs[i].task
             IN  /\ state'[t] = state[t] /\ attempt'[t] = attempt[t] /\ started'[t] = started[t]
                 /\ entry'[t] \in {entry[t], NoEntry}
  <2>1. recs[i].task \in Tasks /\ JobOf[recs[i].task] = j
    BY <1>1, <1>2, <1>3, RecordFields, Zenon
  <2> QED
    BY <2>1, Zenon
<1>4. recs # <<>> => Due(j, recs[1])'
  <2> SUFFICES ASSUME recs # <<>> PROVE Due(j, recs[1])'
    OBVIOUS
  <2>1. 1 \in 1..Len(recs) /\ Due(j, recs[1])
    BY DEF LinedUp
  <2>2. recs[1].kind = "moved" => /\ state'[recs[1].task] = state[recs[1].task]
                                  /\ attempt'[recs[1].task] = attempt[recs[1].task]
    BY <1>3, <2>1, Zenon
  <2> QED
    BY <2>1, <2>2, Zenon DEF Due
<1>5. ASSUME NEW i \in 1..Len(recs), recs[i].kind = "moved", recs[i].to = "Running"
      PROVE  attempt'[recs[i].task] > started'[recs[i].task] /\ entry'[recs[i].task] = NoEntry
  <2>1. attempt[recs[i].task] > started[recs[i].task] /\ entry[recs[i].task] = NoEntry
    BY <1>5, Zenon DEF LinedUp
  <2> QED
    BY <1>3, <1>5, <2>1, Zenon
<1> QED
  BY <1>4, <1>5, Zenon DEF LinedUp

LEMMA AllowanceNat ==
  ASSUME Shapes, NEW t \in Tasks
  PROVE  Allowance(t) \in Nat /\ Allowance(t) >= 1 /\ NoEntry < Allowance(t)
  BY CrashRecoveryAssumption DEF CrashRecoveryAssumption, Allowance, Shapes, NoEntry

-----------------------------------------------------------------------------
(* Operations: memory and journal stay, a line-up is added.                *)

BeginsLine(j, recs) ==
    /\ process = "up" /\ todo[j] = <<>> /\ todo' = [todo EXCEPT ![j] = recs]
    /\ recs \in Seq(Record) /\ LinedUp(j, recs)'
    /\ tail # <<>> => \/ recs = <<>> /\ j \notin running'
                      \/ Len(recs) = 1 /\ recs[1].kind \in {"planned", "status"}
BeginsJobs(j) ==
    /\ submitted \subseteq submitted' /\ submitted' \subseteq Jobs
    /\ running \subseteq running' /\ running' \subseteq running \cup {j} /\ running' \subseteq known
BeginsTasks(j) ==
    /\ attempt' \in [Tasks -> Nat] /\ entry' \in [Tasks -> Nat \cup {NoEntry}]
    /\ \A t \in Tasks :
          /\ \/ attempt'[t] = attempt[t]
             \/ /\ JobOf[t] = j /\ entry[t] # NoEntry /\ attempt'[t] = entry[t] + 1
                /\ state[t] \in {"Queued", "RetryScheduled"}
          /\ \/ entry'[t] \in {entry[t], NoEntry}
             \/ JobOf[t] = j /\ entry'[t] = attempt[t] /\ attempt[t] < Allowance(t)

Begins(j, recs) ==
    /\ BeginsLine(j, recs) /\ BeginsJobs(j) /\ BeginsTasks(j)
    /\ UNCHANGED <<journalVars, known, jobStatus, state, outputVars, process, crashes, started>>

Operation(j) ==
    \/ Submit(j) \/ Cancel(j) \/ Run(j) \/ Finish(j)
    \/ \E t \in Owned(j) :
        \/ Promote(t) \/ Lease(t) \/ Strand(t) \/ Abandon(t)
        \/ \E outcome \in Outcomes : ApplyOutcome(t, outcome)

\* Every operation keeps the invariant.
LEMMA OperationInv == \A k \in Jobs : CrashInv /\ Operation(k) => CrashInv'
<1>JobRecords. ASSUME NEW j \in Jobs
               PROVE  /\ Planned(j) \in Record /\ Planned(j).kind = "planned" /\ Planned(j).job = j
                      /\ Final(j) \in Record /\ Final(j).kind = "final" /\ Final(j).job = j
                      /\ \A s \in JobStatuses : /\ Status(j, s) \in Record /\ Status(j, s).kind = "status"
                                                /\ Status(j, s).job = j /\ Status(j, s).status = s
  BY DEF Planned, Final, Status, Record
<1>OutcomeRecord. ASSUME NEW t \in Tasks
                  PROVE  /\ Result(t) \in Record /\ Result(t).kind = "result" /\ Result(t).job = JobOf[t]
                         /\ \A n \in Nat, dead \in BOOLEAN :
                               /\ Failure(t, n, dead) \in Record /\ Failure(t, n, dead).kind = "failure"
                               /\ Failure(t, n, dead).job = JobOf[t]
  BY DEF Result, Failure, Record
\* Whatever begins as the operations do keeps the invariant.
<1>BeginInv. ASSUME CrashInv, NEW j \in Jobs, NEW recs, Begins(j, recs)
             PROVE  CrashInv'
  <2>1. /\ Shapes /\ Dead /\ Programs /\ Fresh /\ GlueSparesMoves /\ PlansSubmitted
        /\ Budgeted /\ SettledLast /\ SettledStaysSettled /\ StartsRecorded /\ Mirror
    BY <1>BeginInv DEF CrashInv
  <2>2. /\ process = "up" /\ process' = "up" /\ state' = state /\ started' = started
        /\ crashes' = crashes /\ jobStatus' = jobStatus /\ known' = known
        /\ UNCHANGED journalVars /\ UNCHANGED <<results, failures, final>>
    BY <1>BeginInv DEF Begins, BeginsLine, outputVars
  <2>3. lines' = lines /\ tail' = tail /\ acked' = acked
    BY <2>2 DEF journalVars
  <2>4. todo' \in [Jobs -> Seq(Record)] /\ \A k \in Jobs : todo'[k] = IF k = j THEN recs ELSE todo[k]
    BY <1>BeginInv, <2>1, Zenon DEF Begins, BeginsLine, Shapes
  <2>5. Shapes'
    BY <1>BeginInv, <2>1, <2>2, <2>4, SameJournalInv DEF Begins, BeginsLine, BeginsJobs, BeginsTasks, Shapes
  <2>6. Dead'
    BY <2>2 DEF Dead
  <2>7. Programs'
    <3>1. ASSUME NEW k \in Jobs PROVE LinedUp(k, todo[k])' 
      <4>1. CASE k = j
        BY <1>BeginInv, <2>4, <4>1, Zenon DEF Begins, BeginsLine, BeginsJobs, BeginsTasks, LinedUp, Due
      <4>2. CASE k # j
        <5>1. PICK s : s = todo[k]
          OBVIOUS
        <5>2. s \in Seq(Record) /\ LinedUp(k, s)
          BY <2>1, <5>1, Zenon DEF Shapes, Programs
        <5>3. \A t \in Tasks : JobOf[t] = k =>
                /\ state'[t] = state[t] /\ attempt'[t] = attempt[t] /\ started'[t] = started[t]
                /\ entry'[t] \in {entry[t], NoEntry}
          BY <1>BeginInv, <2>2, <4>2, Zenon DEF Begins, BeginsTasks
        <5>4. submitted \subseteq submitted' /\ (k \in running => k \in running')
          BY <1>BeginInv DEF Begins, BeginsJobs
        <5>5. LinedUp(k, s)'
          BY <2>2, <5>2, <5>3, <5>4, StillLinedUp, Zenon
        <5>6. todo'[k] = s
          BY <2>4, <4>2, <5>1
        <5> QED
          BY <5>5, <5>6, Zenon DEF LinedUp, Due
      <4> QED
        BY <4>1, <4>2
    <3>2. ASSUME NEW t \in Tasks
          PROVE  \/ state'[t] \in AtRest
                 \/ todo'[JobOf[t]] # <<>> /\ IsMove(todo'[JobOf[t]][1], t)
      <4>1. JobOf[t] \in Jobs
        BY CrashRecoveryAssumption DEF CrashRecoveryAssumption
      <4>2. state[t] \in AtRest \/ (todo[JobOf[t]] # <<>> /\ IsMove(todo[JobOf[t]][1], t))
        BY <2>1 DEF Programs
      <4>3. JobOf[t] = j => state[t] \in AtRest
        BY <1>BeginInv, <4>2, Zenon DEF Begins, BeginsLine
      <4>4. JobOf[t] # j => todo'[JobOf[t]] = todo[JobOf[t]]
        BY <2>4, <4>1
      <4> QED
        BY <2>2, <4>2, <4>3, <4>4, Zenon
    <3> QED
      BY <3>1, <3>2, Zenon DEF Programs, IsMove
  <2>8. Fresh'
    <3> SUFFICES ASSUME tail # <<>>, NEW k \in Jobs
                 PROVE  \/ todo'[k] = <<>> /\ k \notin running'
                        \/ Len(todo'[k]) = 1 /\ todo'[k][1].kind \in {"planned", "status"}
      BY <2>3 DEF Fresh
    <3>1. CASE k = j
      BY <1>BeginInv, <2>4, <3>1, Zenon DEF Begins, BeginsLine, BeginsJobs, BeginsTasks
    <3>2. CASE k # j
      <4>1. todo'[k] = todo[k] /\ (k \in running' => k \in running)
        BY <1>BeginInv, <2>4, <3>2, Zenon DEF Begins, BeginsLine, BeginsJobs
      <4>2. \/ todo[k] = <<>> /\ k \notin running
            \/ Len(todo[k]) = 1 /\ todo[k][1].kind \in {"planned", "status"}
        BY <2>1, <2>2, Zenon DEF Fresh
      <4> QED
        BY <4>1, <4>2
    <3> QED
      BY <3>1, <3>2, Zenon
  <2>9. GlueSparesMoves' /\ SettledLast'
    BY <2>1, <2>3, Zenon DEF GlueSparesMoves, SettledLast, IsMove
  <2>10. PlansSubmitted'
    BY <1>BeginInv, <2>1, <2>2, SameJournal, Zenon DEF PlansSubmitted, Begins, BeginsLine, BeginsJobs, BeginsTasks
  <2>11. Budgeted'
    <3>1. Written' = Written /\ \A t : Allowance(t)' = Allowance(t)
      BY <2>2, SameJournal DEF Allowance
    <3>2. ASSUME NEW t \in Tasks
          PROVE  /\ attempt'[t] <= Allowance(t) /\ entry'[t] < Allowance(t)
                 /\ state[t] = "Created" => attempt'[t] < Allowance(t)
      <4>1. attempt[t] \in Nat /\ attempt'[t] \in Nat /\ entry[t] \in Nat \cup {NoEntry}
        BY <1>BeginInv, <2>1, Zenon DEF Shapes, Begins, BeginsTasks
      <4>2. /\ attempt[t] <= Allowance(t) /\ entry[t] < Allowance(t)
            /\ state[t] = "Created" => attempt[t] < Allowance(t)
        BY <2>1 DEF Budgeted
      <4>3. /\ \/ attempt'[t] = attempt[t]
               \/ /\ entry[t] # NoEntry /\ attempt'[t] = entry[t] + 1
                  /\ state[t] \in {"Queued", "RetryScheduled"}
            /\ \/ entry'[t] \in {entry[t], NoEntry}
               \/ entry'[t] = attempt[t] /\ attempt[t] < Allowance(t)
        BY <1>BeginInv, Zenon DEF Begins, BeginsTasks
      <4>4. Allowance(t) \in Nat /\ Allowance(t) >= 1 /\ NoEntry < Allowance(t)
        BY <2>1, AllowanceNat
      <4>5. entry'[t] < Allowance(t)
        BY <4>2, <4>3, <4>4, Zenon
      <4>6. attempt'[t] <= Allowance(t)
        BY <4>1, <4>2, <4>3, <4>4
      <4>7. state[t] = "Created" => attempt'[t] < Allowance(t)
        BY <4>2, <4>3
      <4> QED
        BY <4>5, <4>6, <4>7
    <3>3. \A r \in Written : r.kind = "moved" => r.attempt <= Allowance(r.task)
      BY <2>1, <2>2, Zenon DEF Budgeted
    <3> QED
      BY <2>2, <3>1, <3>2, <3>3, Zenon DEF Budgeted
  <2>12. SettledStaysSettled'
    BY <2>1, <2>2, <2>3, Zenon DEF SettledStaysSettled
  <2>13. StartsRecorded'
    <3>1. ASSUME NEW t \in Tasks
          PROVE  attempt'[t] >= started[t] /\ (entry'[t] # NoEntry => entry'[t] >= started[t])
      <4>1. attempt[t] \in Nat /\ started[t] \in Nat /\ entry[t] \in Nat \cup {NoEntry}
        BY <2>1 DEF Shapes
      <4>2. attempt[t] >= started[t] /\ (entry[t] # NoEntry => entry[t] >= started[t])
        BY <2>1, <2>2, Zenon DEF StartsRecorded
      <4>3. /\ \/ attempt'[t] = attempt[t]
               \/ entry[t] # NoEntry /\ attempt'[t] = entry[t] + 1
            /\ entry'[t] \in {entry[t], NoEntry} \/ entry'[t] = attempt[t]
        BY <1>BeginInv, Zenon DEF Begins, BeginsTasks
      <4> QED
        BY <4>1, <4>2, <4>3
    <3> QED
      BY <2>1, <2>2, <2>3, <3>1 DEF StartsRecorded, IsMove
  <2>14. Mirror'
    <3> SUFFICES ASSUME ~Glued'
                 PROVE  /\ PlannedJobs' = known' /\ RestoredResults' = results'
                        /\ RestoredFailures' = failures' /\ RestoredFinal' = final'
                        /\ \A k \in Jobs :
                              \/ LastStatus(k)' = jobStatus'[k]
                              \/ jobStatus'[k] = "Planning" /\ LastStatus(k)' \notin Finished
                        /\ \A t \in Tasks :
                              /\ \/ LastMove(t)'.to = state'[t]
                                 \/ state'[t] = "Created" /\ LastMove(t)'.to \notin Terminal
                              /\ \/ LastMove(t)'.attempt = attempt'[t]
                                 \/ state'[t] \in {"Queued", "RetryScheduled"}
      BY DEF Mirror
    <3>1. ~Glued
      BY <2>2, SameJournal
    <3>2. \A t \in Tasks : attempt'[t] = attempt[t] \/ state[t] \in {"Queued", "RetryScheduled"}
      BY <1>BeginInv DEF Begins, BeginsTasks
    <3> QED
      BY <2>1, <2>2, <3>1, <3>2, SameJournal, Zenon DEF Mirror
  <2> QED
    BY <2>5, <2>6, <2>7, <2>8, <2>9, <2>10, <2>11, <2>12, <2>13, <2>14 DEF CrashInv
\* A path of legal edges is a line-up of moves.
<1>MovesLinedUp. ASSUME NEW t \in Tasks, NEW path \in Seq(TaskStates), NEW n \in Nat, path # <<>>,
                        JobOf[t] \in running', n = attempt'[t], path[1] \in TaskAllowed[state'[t]],
                        \A i \in 1..(Len(path) - 1) : path[i + 1] \in TaskAllowed[path[i]] /\ path[i] # "Running",
                        path[Len(path)] \in AtRest,
                        \A i \in 1..Len(path) : path[i] = "Running" => n > started'[t] /\ entry'[t] = NoEntry,
                        NEW recs, recs = Moves(t, path, n)
                 PROVE  /\ recs \in Seq(Record) /\ Len(recs) = Len(path) /\ recs # <<>>
                        /\ \A i \in 1..Len(path) : recs[i] = Moved(t, path[i], n)
                        /\ LinedUp(JobOf[t], recs)'
  <2>1. \A i \in 1..Len(path) : path[i] \in TaskStates
    OBVIOUS
  <2>2. \A i \in 1..Len(path) : Moved(t, path[i], n) \in Record
    BY <2>1, MovedRecord
  <2>3. recs = [i \in 1..Len(path) |-> Moved(t, path[i], n)] /\ Len(path) \in Nat /\ Len(path) >= 1
    BY <1>MovesLinedUp DEF Moves
  <2>4. recs \in Seq(Record) /\ Len(recs) = Len(path)
    BY <2>2, <2>3
  <2>5. \A i \in 1..Len(path) : recs[i] = Moved(t, path[i], n)
    BY <2>3
  <2>6. \A i \in 1..Len(path) :
          /\ recs[i].kind = "moved" /\ recs[i].task = t /\ recs[i].to = path[i]
          /\ recs[i].attempt = n /\ recs[i].job = JobOf[t]
    BY <2>1, <2>5, MovedRecord
  <2>7. Due(JobOf[t], recs[1])'
    <3>1. 1 \in 1..Len(path)
      BY <2>3
    <3> QED
      BY <1>MovesLinedUp, <2>6, <3>1, Zenon DEF Due
  <2>8. ASSUME NEW i \in 1..(Len(recs) - 1) PROVE Follows(recs[i], recs[i + 1])
    <3>1. i \in 1..Len(path) /\ i + 1 \in 1..Len(path) /\ i \in 1..(Len(path) - 1)
      BY <2>3, <2>4
    <3>2. path[i + 1] \in TaskAllowed[path[i]] /\ path[i] # "Running"
      BY <1>MovesLinedUp, <3>1, Zenon
    <3> QED
      BY <2>6, <3>1, <3>2 DEF Follows
  <2>9. recs[Len(recs)].to \in AtRest
    BY <1>MovesLinedUp, <2>3, <2>4, <2>6
  <2>10. ASSUME NEW i \in 1..Len(recs), recs[i].to = "Running"
         PROVE  attempt'[recs[i].task] > started'[recs[i].task] /\ entry'[recs[i].task] = NoEntry
    <3>1. i \in 1..Len(path)
      BY <2>4
    <3>2. recs[i].task = t /\ path[i] = "Running"
      BY <2>6, <2>10, <3>1, Zenon
    <3> QED
      BY <1>MovesLinedUp, <3>1, <3>2, Zenon
  <2>11. \A i \in 1..Len(recs) : recs[i].job = JobOf[t]
    BY <2>4, <2>6
  <2>12. recs # <<>>
    BY <2>3, <2>4
  <2> QED
    BY <2>4, <2>5, <2>7, <2>8, <2>9, <2>10, <2>11, <2>12, Zenon DEF LinedUp
\* An outcome's record may follow the moves.
<1>OutcomeLinedUp. ASSUME NEW j \in Jobs, NEW recs \in Seq(Record), recs # <<>>, LinedUp(j, recs)',
                          NEW r \in Record, r.kind \in {"result", "failure"}, r.job = j,
                          recs[Len(recs)].kind = "moved", recs[Len(recs)].to # "Running"
                   PROVE  Append(recs, r) \in Seq(Record) /\ LinedUp(j, Append(recs, r))'
  <2>1. PICK s : s = Append(recs, r)
    BY Zenon
  <2>2. /\ s \in Seq(Record) /\ Len(s) = Len(recs) + 1 /\ s[Len(s)] = r
        /\ Len(recs) \in Nat /\ Len(recs) >= 1
        /\ \A i \in 1..Len(recs) : s[i] = recs[i]
    BY <1>OutcomeLinedUp, <2>1
  <2>3. \A i \in 1..Len(s) : i \in 1..Len(recs) \/ (i = Len(s) /\ s[i] = r)
    BY <2>2
  <2>4. /\ \A i \in 1..Len(recs) : recs[i].job = j
        /\ Due(j, recs[1])'
        /\ \A i \in 1..(Len(recs) - 1) : Follows(recs[i], recs[i + 1])
        /\ recs[Len(recs)].to \in AtRest
        /\ \A i \in 1..Len(recs) : recs[i].kind = "moved" /\ recs[i].to = "Running" =>
              attempt'[recs[i].task] > started'[recs[i].task] /\ entry'[recs[i].task] = NoEntry
    BY <1>OutcomeLinedUp, Zenon DEF LinedUp
  <2>5. \A i \in 1..Len(s) : s[i].job = j
    BY <1>OutcomeLinedUp, <2>2, <2>3, <2>4, Zenon
  <2>6. Due(j, s[1])'
    <3>1. s[1] = recs[1]
      BY <2>2
    <3> QED
      BY <2>4, <3>1, Zenon DEF Due
  <2>7. ASSUME NEW i \in 1..(Len(s) - 1) PROVE Follows(s[i], s[i + 1])
    <3>1. CASE i < Len(recs)
      <4>1. i \in 1..(Len(recs) - 1) /\ s[i] = recs[i] /\ s[i + 1] = recs[i + 1]
        BY <2>2, <3>1
      <4> QED
        BY <2>4, <4>1, Zenon
    <3>2. CASE i = Len(recs)
      <4>1. s[i] = recs[Len(recs)] /\ s[i + 1] = r
        BY <2>2, <3>2
      <4> QED
        BY <1>OutcomeLinedUp, <2>4, <4>1, Zenon DEF Follows
    <3> QED
      BY <2>2, <3>1, <3>2
  <2>8. \A i \in 1..Len(s) : s[i].kind = "moved" /\ s[i].to = "Running" =>
              attempt'[s[i].task] > started'[s[i].task] /\ entry'[s[i].task] = NoEntry
    BY <1>OutcomeLinedUp, <2>2, <2>3, <2>4, Zenon
  <2>9. LinedUp(j, s)'
    BY <1>OutcomeLinedUp, <2>2, <2>5, <2>6, <2>7, <2>8, Zenon DEF LinedUp
  <2> QED
    BY <2>1, <2>2, <2>9
\* The first operation of an engine comes after its job's status was written.
<1>IdleClean. ASSUME CrashInv, NEW j \in Jobs, Idle(j)
              PROVE  tail = <<>>
  <2>1. Fresh
    BY <1>IdleClean DEF CrashInv
  <2>2. process = "up" /\ todo[j] = <<>> /\ j \in running
    BY <1>IdleClean DEF Idle
  <2>3. Len(todo[j]) = 0
    BY <2>2
  <2> QED
    BY <2>1, <2>2, <2>3 DEF Fresh
<1>TaskOperation. ASSUME CrashInv, NEW t \in Tasks, Idle(JobOf[t]), NEW recs \in Seq(Record),
                         Begin(JobOf[t], recs), LinedUp(JobOf[t], recs)',
                         UNCHANGED <<journalVars, jobVars, state, outputVars, worldVars>>,
                         attempt' \in [Tasks -> Nat], entry' \in [Tasks -> Nat \cup {NoEntry}],
                         \A u \in Tasks :
                            /\ \/ attempt'[u] = attempt[u]
                               \/ /\ JobOf[u] = JobOf[t] /\ entry[u] # NoEntry /\ attempt'[u] = entry[u] + 1
                                  /\ state[u] \in {"Queued", "RetryScheduled"}
                            /\ \/ entry'[u] \in {entry[u], NoEntry}
                               \/ JobOf[u] = JobOf[t] /\ entry'[u] = attempt[u] /\ attempt[u] < Allowance(u)
                  PROVE  CrashInv'
  <2>1. JobOf[t] \in Jobs
    BY CrashRecoveryAssumption DEF CrashRecoveryAssumption
  <2>2. tail = <<>>
    BY <1>TaskOperation, <2>1, <1>IdleClean, Zenon
  <2>3. Shapes
    BY <1>TaskOperation, Zenon DEF CrashInv
  <2>4. Begins(JobOf[t], recs)
    BY <1>TaskOperation, <2>2, <2>3, Zenon DEF Begins, BeginsLine, BeginsJobs, BeginsTasks, Begin, Idle, Shapes, jobVars, worldVars
  <2> QED
    BY <1>TaskOperation, <2>1, <2>4, <1>BeginInv, Zenon
<1>SubmitInv. ASSUME CrashInv, NEW j \in Jobs, Submit(j) PROVE CrashInv'
  <2>1. Shapes /\ Programs
    BY <1>SubmitInv DEF CrashInv
  <2>2. j \notin submitted /\ j \notin running
    BY <1>SubmitInv, <2>1, Zenon DEF Submit, Shapes
  <2>3. todo[j] = <<>>
    <3> SUFFICES ASSUME todo[j] # <<>> PROVE FALSE
      OBVIOUS
    <3>1. Due(j, todo[j][1])
      BY <2>1, Zenon DEF Programs, LinedUp
    <3> QED
      BY <2>2, <3>1, Zenon DEF Due
  <2>4. PICK recs : recs = <<Planned(j)>>
    BY Zenon
  <2>5. /\ recs \in Seq(Record) /\ Len(recs) = 1 /\ recs[1].kind = "planned" /\ recs[1].job = j
        /\ recs # <<>>
    BY <2>4, <1>JobRecords
  <2>6. submitted' = submitted \cup {j}
    BY <1>SubmitInv DEF Submit
  <2>7. LinedUp(j, recs)'
    BY <2>5, <2>6 DEF LinedUp, Due
  <2>8. Begins(j, recs)
    BY <1>SubmitInv, <2>1, <2>3, <2>4, <2>5, <2>6, <2>7, Zenon DEF Begins, BeginsLine, BeginsJobs, BeginsTasks, Submit, Begin, Shapes, jobVars, taskVars
  <2> QED
    BY <1>SubmitInv, <2>8, <1>BeginInv
<1>RunInv. ASSUME CrashInv, NEW j \in Jobs, Run(j) PROVE CrashInv'
  <2>1. Shapes
    BY <1>RunInv DEF CrashInv
  <2>2. PICK recs : recs = <<Status(j, "Running")>>
    BY Zenon
  <2>3. /\ recs \in Seq(Record) /\ Len(recs) = 1 /\ recs # <<>> /\ recs[1].job = j
        /\ recs[1].kind = "status" /\ recs[1].status = "Running"
    BY <2>2, <1>JobRecords DEF JobStatuses
  <2>4. "Running" \in JobAllowed[jobStatus[j]]
    BY <1>RunInv DEF Run, LegalPath
  <2>5. running' = running \cup {j} /\ jobStatus' = jobStatus
    BY <1>RunInv DEF Run
  <2>6. LinedUp(j, recs)'
    BY <2>3, <2>4, <2>5 DEF LinedUp, Due
  <2>7. Begins(j, recs)
    BY <1>RunInv, <2>1, <2>2, <2>3, <2>5, <2>6, Zenon DEF Begins, BeginsLine, BeginsJobs, BeginsTasks, Run, Begin, Shapes, taskVars, worldVars
  <2> QED
    BY <1>RunInv, <2>7, <1>BeginInv
<1>CancelInv. ASSUME CrashInv, NEW j \in Jobs, Cancel(j) PROVE CrashInv'
  <2>1. Shapes /\ Fresh
    BY <1>CancelInv DEF CrashInv
  <2>2. PICK recs : recs = <<>>
    OBVIOUS
  <2>3. recs \in Seq(Record) /\ Len(recs) = 0 /\ todo[j] = recs
    BY <1>CancelInv, <2>2 DEF Cancel
  <2>4. LinedUp(j, recs)'
    BY <2>2, <2>3 DEF LinedUp
  <2>5. todo' = [todo EXCEPT ![j] = recs]
    BY <1>CancelInv, <2>1, <2>3, Zenon DEF Cancel, Shapes
  <2>6. tail # <<>> => j \notin running
    BY <1>CancelInv, <2>1, <2>2, <2>3 DEF Fresh, Cancel
  <2>7. /\ entry' \in [Tasks -> Nat \cup {NoEntry}]
        /\ \A t \in Tasks : entry'[t] \in {entry[t], NoEntry}
    BY <1>CancelInv, <2>1, Zenon DEF Cancel, Shapes
  <2>8. Begins(j, recs)
    BY <1>CancelInv, <2>1, <2>2, <2>3, <2>4, <2>5, <2>6, <2>7, Zenon DEF Begins, BeginsLine, BeginsJobs, BeginsTasks, Cancel, Shapes, worldVars
  <2> QED
    BY <1>CancelInv, <2>8, <1>BeginInv
<1>PromoteInv. ASSUME CrashInv, NEW t \in Tasks, Promote(t) PROVE CrashInv'
  <2>1. Shapes /\ Programs /\ Budgeted
    BY <1>PromoteInv DEF CrashInv
  <2>2. /\ process = "up" /\ JobOf[t] \in running /\ todo[JobOf[t]] = <<>> /\ Idle(JobOf[t])
        /\ running' = running /\ state' = state /\ attempt' = attempt
    BY <1>PromoteInv, Zenon DEF Promote, Scheduling, Idle, jobVars
  <2>3. state[t] = "Created" /\ attempt[t] \in Nat
    <3>1. state[t] \in AtRest
      BY <2>1, <2>2, Zenon DEF Programs
    <3> QED
      BY <1>PromoteInv, <2>1, <3>1, Zenon DEF Promote, AtRest, Shapes
  <2>4. attempt[t] < Allowance(t)
    BY <2>1, <2>3 DEF Budgeted
  <2>5. PICK path : path = <<"Queued">>
    BY Zenon
  <2>6. /\ path \in Seq(TaskStates) /\ Len(path) = 1 /\ path # <<>> /\ path[1] = "Queued"
    BY <2>5 DEF TaskStates
  <2>7. PICK n : n = attempt[t]
    OBVIOUS
  <2>8. PICK recs : recs = Moves(t, path, n)
    OBVIOUS
  <2>9. "Queued" \in TaskAllowed[state'[t]] /\ "Queued" \in AtRest
    BY <2>2, <2>3 DEF TaskAllowed, AtRest
  <2>10. recs \in Seq(Record) /\ LinedUp(JobOf[t], recs)'
    <3>1. /\ n \in Nat /\ n = attempt'[t] /\ JobOf[t] \in running'
          /\ path[1] \in TaskAllowed[state'[t]] /\ path[Len(path)] \in AtRest
          /\ \A i \in 1..(Len(path) - 1) : path[i + 1] \in TaskAllowed[path[i]] /\ path[i] # "Running"
          /\ \A i \in 1..Len(path) : path[i] = "Running" => n > started'[t] /\ entry'[t] = NoEntry
      BY <2>2, <2>3, <2>6, <2>7, <2>9
    <3> QED
      BY <2>6, <2>8, <3>1, <1>MovesLinedUp
  <2>11. Begin(JobOf[t], recs)
    BY <1>PromoteInv, <2>5, <2>7, <2>8, Zenon DEF Promote
  <2>12. /\ attempt' \in [Tasks -> Nat] /\ entry' \in [Tasks -> Nat \cup {NoEntry}]
         /\ \A u \in Tasks : attempt'[u] = attempt[u]
         /\ \A u \in Tasks : \/ entry'[u] = entry[u]
                             \/ JobOf[u] = JobOf[t] /\ entry'[u] = attempt[u] /\ attempt[u] < Allowance(u)
    BY <1>PromoteInv, <2>1, <2>3, <2>4, Zenon DEF Promote, Shapes
  <2>13. UNCHANGED <<journalVars, jobVars, state, outputVars, worldVars>>
    BY <1>PromoteInv DEF Promote
  <2> QED
    BY <1>PromoteInv, <2>2, <2>10, <2>11, <2>12, <2>13, <1>TaskOperation, Zenon
<1>LeaseInv. ASSUME CrashInv, NEW t \in Tasks, Lease(t) PROVE CrashInv'
  <2>1. Shapes /\ StartsRecorded
    BY <1>LeaseInv DEF CrashInv
  <2>2. /\ process = "up" /\ JobOf[t] \in running /\ Idle(JobOf[t]) /\ started' = started
        /\ running' = running /\ state' = state /\ attempt' = [attempt EXCEPT ![t] = entry[t] + 1]
        /\ entry[t] # NoEntry /\ state[t] \in {"Queued", "RetryScheduled"}
    BY <1>LeaseInv, Zenon DEF Lease, Scheduling, Idle, jobVars, worldVars
  <2>3. PICK n : n = entry[t] + 1
    OBVIOUS
  <2>4. entry[t] \in Nat /\ n \in Nat /\ n > started[t] /\ n = attempt'[t] /\ entry'[t] = NoEntry
    <3>1. entry[t] \in Nat /\ started[t] \in Nat
      BY <2>1, <2>2, Zenon DEF Shapes
    <3>2. entry[t] >= started[t]
      BY <2>1, <2>2, Zenon DEF StartsRecorded
    <3>3. attempt'[t] = entry[t] + 1
      BY <2>1, <2>2, Zenon DEF Shapes
    <3>4. entry'[t] = NoEntry
      BY <1>LeaseInv, <2>1, Zenon DEF Lease, Shapes
    <3> QED
      BY <2>3, <3>1, <3>2, <3>3, <3>4
  <2>5. PICK path : path = IF state[t] = "RetryScheduled" THEN <<"Queued", "Leased", "Running">>
                           ELSE <<"Leased", "Running">>
    BY Zenon
  <2>6. PICK recs : recs = Moves(t, path, n)
    OBVIOUS
  <2>7. /\ path \in Seq(TaskStates) /\ path # <<>> /\ path[1] \in TaskAllowed[state[t]]
        /\ \A i \in 1..(Len(path) - 1) : path[i + 1] \in TaskAllowed[path[i]] /\ path[i] # "Running"
        /\ path[Len(path)] \in AtRest
    <3>1. CASE state[t] = "RetryScheduled"
      <4>1. path = <<"Queued", "Leased", "Running">>
        BY <2>5, <3>1
      <4>2. Len(path) = 3 /\ path[1] = "Queued" /\ path[2] = "Leased" /\ path[3] = "Running"
        BY <4>1
      <4>3. path \in Seq(TaskStates) /\ path # <<>>
        BY <4>1 DEF TaskStates
      <4>4. /\ "Queued" \in TaskAllowed["RetryScheduled"] /\ "Leased" \in TaskAllowed["Queued"]
            /\ "Running" \in TaskAllowed["Leased"] /\ "Running" \in AtRest
        BY Zenon DEF TaskAllowed, AtRest
      <4>5. \A i \in 1..(Len(path) - 1) : i = 1 \/ i = 2
        BY <4>2
      <4> QED
        BY <3>1, <4>2, <4>3, <4>4, <4>5
    <3>2. CASE state[t] = "Queued"
      <4>1. path = <<"Leased", "Running">>
        BY <2>5, <3>2
      <4>2. Len(path) = 2 /\ path[1] = "Leased" /\ path[2] = "Running"
        BY <4>1
      <4>3. path \in Seq(TaskStates) /\ path # <<>>
        BY <4>1 DEF TaskStates
      <4>4. "Leased" \in TaskAllowed["Queued"] /\ "Running" \in TaskAllowed["Leased"] /\ "Running" \in AtRest
        BY DEF TaskAllowed, AtRest
      <4>5. \A i \in 1..(Len(path) - 1) : i = 1
        BY <4>2
      <4> QED
        BY <3>2, <4>2, <4>3, <4>4, <4>5
    <3> QED
      BY <2>2, <3>1, <3>2, Zenon
  <2>8. recs \in Seq(Record) /\ LinedUp(JobOf[t], recs)'
    BY <2>2, <2>4, <2>6, <2>7, <1>MovesLinedUp, Zenon
  <2>9. Begin(JobOf[t], recs)
    BY <1>LeaseInv, <2>3, <2>5, <2>6, Zenon DEF Lease
  <2>10. /\ attempt' \in [Tasks -> Nat] /\ entry' \in [Tasks -> Nat \cup {NoEntry}]
         /\ \A u \in Tasks :
              \/ attempt'[u] = attempt[u]
              \/ /\ JobOf[u] = JobOf[t] /\ entry[u] # NoEntry /\ attempt'[u] = entry[u] + 1
                 /\ state[u] \in {"Queued", "RetryScheduled"}
         /\ \A u \in Tasks : entry'[u] \in {entry[u], NoEntry}
    BY <1>LeaseInv, <2>1, <2>2, <2>4, Zenon DEF Lease, Shapes
  <2>11. UNCHANGED <<journalVars, jobVars, state, outputVars, worldVars>>
    BY <1>LeaseInv DEF Lease
  <2> QED
    BY <1>LeaseInv, <2>2, <2>8, <2>9, <2>10, <2>11, <1>TaskOperation, Zenon
\* Two moves, one move: the paths of the other operations.
<1>ShortPaths. ASSUME NEW a \in TaskStates, NEW b \in TaskStates, NEW from \in TaskStates, a \in TaskAllowed[from]
               PROVE  /\ \A path : path = <<a>> /\ a \in AtRest =>
                           /\ path \in Seq(TaskStates) /\ path # <<>> /\ path[1] \in TaskAllowed[from]
                           /\ Len(path) = 1 /\ path[1] = a /\ path[Len(path)] \in AtRest
                           /\ \A i \in 1..(Len(path) - 1) : path[i + 1] \in TaskAllowed[path[i]] /\ path[i] # "Running"
                      /\ \A path : path = <<a, b>> /\ b \in AtRest /\ b \in TaskAllowed[a] /\ a # "Running" =>
                           /\ path \in Seq(TaskStates) /\ path # <<>> /\ path[1] \in TaskAllowed[from]
                           /\ Len(path) = 2 /\ path[1] = a /\ path[2] = b /\ path[Len(path)] \in AtRest
                           /\ \A i \in 1..(Len(path) - 1) : path[i + 1] \in TaskAllowed[path[i]] /\ path[i] # "Running"
  <2>1. ASSUME NEW path, path = <<a>>, a \in AtRest
        PROVE  /\ path \in Seq(TaskStates) /\ path # <<>> /\ path[1] \in TaskAllowed[from]
               /\ Len(path) = 1 /\ path[1] = a /\ path[Len(path)] \in AtRest
               /\ \A i \in 1..(Len(path) - 1) : path[i + 1] \in TaskAllowed[path[i]] /\ path[i] # "Running"
    <3>1. path \in Seq(TaskStates) /\ Len(path) = 1 /\ path[1] = a
      BY <2>1
    <3>2. path # <<>> /\ 1..(Len(path) - 1) = {}
      BY <1>ShortPaths, <3>1
    <3> QED
      BY <1>ShortPaths, <2>1, <3>1, <3>2
  <2>2. ASSUME NEW path, path = <<a, b>>, b \in AtRest, b \in TaskAllowed[a], a # "Running"
        PROVE  /\ path \in Seq(TaskStates) /\ path # <<>> /\ path[1] \in TaskAllowed[from]
               /\ Len(path) = 2 /\ path[1] = a /\ path[2] = b /\ path[Len(path)] \in AtRest
               /\ \A i \in 1..(Len(path) - 1) : path[i + 1] \in TaskAllowed[path[i]] /\ path[i] # "Running"
    <3>1. path \in Seq(TaskStates) /\ Len(path) = 2 /\ path[1] = a /\ path[2] = b
      BY <2>2
    <3>2. path # <<>> /\ \A i \in 1..(Len(path) - 1) : i = 1 /\ i + 1 = 2
      BY <1>ShortPaths, <3>1
    <3> QED
      BY <1>ShortPaths, <2>2, <3>1, <3>2
  <2> QED
    BY <2>1, <2>2, Zenon
<1>ApplyOutcomeInv. ASSUME CrashInv, NEW t \in Tasks, NEW outcome, ApplyOutcome(t, outcome)
                    PROVE  CrashInv'
  <2>1. Shapes
    BY <1>ApplyOutcomeInv DEF CrashInv
  <2>2. /\ process = "up" /\ JobOf[t] \in running /\ Idle(JobOf[t])
        /\ running' = running /\ state' = state /\ attempt' = attempt /\ state[t] = "Running"
    BY <1>ApplyOutcomeInv, Zenon DEF ApplyOutcome, Scheduling, Idle, jobVars
  <2>3. PICK n : n = attempt[t]
    OBVIOUS
  <2>4. n \in Nat /\ n = attempt'[t] /\ JobOf[t] \in Jobs /\ JobOf[t] \in running'
    BY <2>1, <2>2, <2>3, CrashRecoveryAssumption, Zenon DEF Shapes, CrashRecoveryAssumption
  <2>5. PICK retry \in BOOLEAN : retry = (n < MaxAttempts[t] /\ outcome \notin {"valid", "fatal"})
    BY Zenon
  <2>6. /\ entry' = [entry EXCEPT ![t] = IF retry THEN attempt[t] ELSE NoEntry]
        /\ Begin(JobOf[t], OutcomeRecords(t, outcome, retry))
    BY <1>ApplyOutcomeInv, <2>3, <2>5, Zenon DEF ApplyOutcome
  <2>7. PICK recs : recs = OutcomeRecords(t, outcome, retry)
    OBVIOUS
  <2>8. recs \in Seq(Record) /\ LinedUp(JobOf[t], recs)'
    <3>1. CASE outcome = "valid"
      <4>1. PICK path : path = <<"Completed">>
        BY Zenon
      <4>2. PICK moves : moves = Moves(t, path, n)
        OBVIOUS
      <4>3. recs = Append(moves, Result(t))
        BY <2>3, <2>7, <3>1, <4>1, <4>2 DEF OutcomeRecords
      <4>4. /\ "Completed" \in TaskAllowed["Running"] /\ "Completed" \in AtRest
            /\ "Completed" \in TaskStates /\ "Running" \in TaskStates
        BY DEF TaskAllowed, AtRest, TaskStates
      <4>5. /\ path \in Seq(TaskStates) /\ path # <<>> /\ path[1] \in TaskAllowed["Running"]
            /\ Len(path) = 1 /\ path[1] = "Completed" /\ path[Len(path)] \in AtRest
            /\ \A i \in 1..(Len(path) - 1) : path[i + 1] \in TaskAllowed[path[i]] /\ path[i] # "Running"
        BY <4>1, <4>4, <1>ShortPaths
      <4>6. /\ path[1] \in TaskAllowed[state'[t]]
            /\ \A i \in 1..Len(path) : path[i] = "Running" => n > started'[t] /\ entry'[t] = NoEntry
        BY <2>2, <4>5
      <4>7. /\ moves \in Seq(Record) /\ Len(moves) = 1 /\ moves # <<>> /\ LinedUp(JobOf[t], moves)'
            /\ moves[1] = Moved(t, "Completed", n)
        <5>1. /\ moves \in Seq(Record) /\ Len(moves) = Len(path) /\ moves # <<>>
              /\ LinedUp(JobOf[t], moves)'
              /\ \A i \in 1..Len(path) : moves[i] = Moved(t, path[i], n)
          BY <2>4, <4>2, <4>5, <4>6, <1>MovesLinedUp
        <5>2. 1 \in 1..Len(path)
          BY <4>5
        <5> QED
          BY <5>1, <5>2, <4>5
      <4>8. moves[Len(moves)].kind = "moved" /\ moves[Len(moves)].to # "Running"
        BY <2>4, <4>4, <4>7, MovedRecord
      <4>9. Result(t) \in Record /\ Result(t).kind = "result" /\ Result(t).job = JobOf[t]
        BY <1>OutcomeRecord
      <4> QED
        BY <2>4, <4>3, <4>7, <4>8, <4>9, <1>OutcomeLinedUp, Zenon
    <3>2. CASE outcome # "valid"
      <4>1. PICK a : a = IF outcome = "timeout" THEN "TimedOut" ELSE "Failed"
        OBVIOUS
      <4>2. PICK b : b = IF retry THEN "RetryScheduled" ELSE "DeadLettered"
        OBVIOUS
      <4>3. PICK path : path = <<a, b>>
        BY Zenon
      <4>4. PICK moves : moves = Moves(t, path, n)
        OBVIOUS
      <4>5. recs = Append(moves, Failure(t, n, ~retry))
        BY <2>3, <2>7, <3>2, <4>1, <4>2, <4>3, <4>4, Zenon DEF OutcomeRecords
      <4>6. /\ a \in TaskAllowed["Running"] /\ b \in TaskAllowed[a] /\ a # "Running" /\ b # "Running"
            /\ a \in TaskStates /\ b \in TaskStates /\ "Running" \in TaskStates /\ b \in AtRest
        <5>1. a \in {"TimedOut", "Failed"} /\ b \in {"RetryScheduled", "DeadLettered"}
          BY <4>1, <4>2
        <5> QED
          BY <5>1 DEF TaskAllowed, AtRest, TaskStates
      <4>7. /\ path \in Seq(TaskStates) /\ path # <<>> /\ path[1] \in TaskAllowed["Running"]
            /\ Len(path) = 2 /\ path[1] = a /\ path[2] = b /\ path[Len(path)] \in AtRest
            /\ \A i \in 1..(Len(path) - 1) : path[i + 1] \in TaskAllowed[path[i]] /\ path[i] # "Running"
        BY <4>3, <4>6, <1>ShortPaths
      <4>8. /\ path[1] \in TaskAllowed[state'[t]]
            /\ \A i \in 1..Len(path) : path[i] = "Running" => n > started'[t] /\ entry'[t] = NoEntry
        BY <2>2, <4>6, <4>7
      <4>9. /\ moves \in Seq(Record) /\ Len(moves) = 2 /\ moves # <<>> /\ LinedUp(JobOf[t], moves)'
            /\ moves[2] = Moved(t, b, n)
        <5>0. /\ path \in Seq(TaskStates) /\ path # <<>> /\ path[Len(path)] \in AtRest
              /\ \A i \in 1..(Len(path) - 1) : path[i + 1] \in TaskAllowed[path[i]] /\ path[i] # "Running"
          BY <4>7, Zenon
        <5>1. /\ moves \in Seq(Record) /\ Len(moves) = Len(path) /\ moves # <<>>
              /\ LinedUp(JobOf[t], moves)'
              /\ \A i \in 1..Len(path) : moves[i] = Moved(t, path[i], n)
          BY <2>4, <4>4, <4>8, <5>0, <1>MovesLinedUp
        <5>2. 2 \in 1..Len(path)
          BY <4>7
        <5> QED
          BY <5>1, <5>2, <4>7, Zenon
      <4>10. moves[Len(moves)].kind = "moved" /\ moves[Len(moves)].to # "Running"
        BY <2>4, <4>6, <4>9, MovedRecord
      <4>11. PICK dead \in BOOLEAN : dead = ~retry
        BY Zenon
      <4>12. /\ Failure(t, n, dead) \in Record /\ Failure(t, n, dead).kind = "failure"
             /\ Failure(t, n, dead).job = JobOf[t]
        BY <2>4, <1>OutcomeRecord, Zenon
      <4> QED
        BY <2>4, <4>5, <4>9, <4>10, <4>11, <4>12, <1>OutcomeLinedUp, Zenon
    <3> QED
      BY <3>1, <3>2
  <2>9. n < MaxAttempts[t] => n < Allowance(t)
    BY <2>1, <2>4, CrashRecoveryAssumption DEF Allowance, Shapes, CrashRecoveryAssumption
  <2>10. /\ attempt' \in [Tasks -> Nat] /\ entry' \in [Tasks -> Nat \cup {NoEntry}]
         /\ \A u \in Tasks : attempt'[u] = attempt[u]
         /\ \A u \in Tasks : \/ entry'[u] \in {entry[u], NoEntry}
                             \/ JobOf[u] = JobOf[t] /\ entry'[u] = attempt[u] /\ attempt[u] < Allowance(u)
    BY <2>1, <2>2, <2>3, <2>4, <2>5, <2>6, <2>9, Zenon DEF Shapes
  <2>11. UNCHANGED <<journalVars, jobVars, state, outputVars, worldVars>>
    BY <1>ApplyOutcomeInv DEF ApplyOutcome
  <2> QED
    BY <1>ApplyOutcomeInv, <2>2, <2>6, <2>7, <2>8, <2>10, <2>11, <1>TaskOperation, Zenon
\* An operation that only moves a task.
<1>MoveOperation. ASSUME CrashInv, NEW t \in Tasks, Idle(JobOf[t]), NEW path \in Seq(TaskStates), path # <<>>,
                         path[1] \in TaskAllowed[state[t]], path[Len(path)] \in AtRest,
                         \A i \in 1..(Len(path) - 1) : path[i + 1] \in TaskAllowed[path[i]] /\ path[i] # "Running",
                         \A i \in 1..Len(path) : path[i] # "Running",
                         Begin(JobOf[t], Moves(t, path, attempt[t])),
                         UNCHANGED <<journalVars, jobVars, taskVars, outputVars, worldVars>>
                  PROVE  CrashInv'
  <2>1. Shapes
    BY <1>MoveOperation, Zenon DEF CrashInv
  <2>2. PICK n : n = attempt[t]
    OBVIOUS
  <2>3. PICK recs : recs = Moves(t, path, n)
    OBVIOUS
  <2>4. attempt' = attempt /\ entry' = entry /\ state' = state /\ running' = running
    BY <1>MoveOperation, Zenon DEF taskVars, jobVars
  <2>5. n \in Nat /\ n = attempt'[t] /\ JobOf[t] \in running' /\ path[1] \in TaskAllowed[state'[t]]
    BY <1>MoveOperation, <2>1, <2>2, <2>4, Zenon DEF Shapes, Idle
  <2>6. \A i \in 1..Len(path) : path[i] = "Running" => n > started'[t] /\ entry'[t] = NoEntry
    BY <1>MoveOperation, Zenon
  <2>7. recs \in Seq(Record) /\ LinedUp(JobOf[t], recs)'
    BY <1>MoveOperation, <2>3, <2>5, <2>6, <1>MovesLinedUp, Zenon
  <2>8. Begin(JobOf[t], recs)
    BY <1>MoveOperation, <2>2, <2>3, Zenon
  <2>9. attempt' \in [Tasks -> Nat] /\ entry' \in [Tasks -> Nat \cup {NoEntry}]
    BY <2>1, <2>4 DEF Shapes
  <2> QED
    BY <1>MoveOperation, <2>4, <2>7, <2>8, <2>9, <1>TaskOperation, Zenon
<1>MoveOne. ASSUME CrashInv, NEW t \in Tasks, Idle(JobOf[t]), NEW a \in AtRest \ {"Running"},
                   a \in TaskAllowed[state[t]], Begin(JobOf[t], Moves(t, <<a>>, attempt[t])),
                   UNCHANGED <<journalVars, jobVars, taskVars, outputVars, worldVars>>
            PROVE  CrashInv'
  <2>1. PICK path : path = <<a>>
    BY Zenon
  <2>2. path \in Seq(TaskStates) /\ Len(path) = 1 /\ path[1] = a /\ path # <<>>
    BY <2>1 DEF AtRest, TaskStates
  <2>3. /\ path[1] \in TaskAllowed[state[t]] /\ path[Len(path)] \in AtRest
        /\ \A i \in 1..(Len(path) - 1) : path[i + 1] \in TaskAllowed[path[i]] /\ path[i] # "Running"
        /\ \A i \in 1..Len(path) : path[i] # "Running"
    BY <1>MoveOne, <2>2
  <2>4. path \in Seq(TaskStates) /\ path # <<>> /\ Begin(JobOf[t], Moves(t, path, attempt[t]))
    BY <1>MoveOne, <2>1, <2>2
  <2> QED
    BY <1>MoveOne, <2>3, <2>4, <1>MoveOperation, Zenon
<1>StrandInv. ASSUME CrashInv, NEW t \in Tasks, Strand(t) PROVE CrashInv'
  <2>1. Shapes /\ Programs
    BY <1>StrandInv DEF CrashInv
  <2>2. Idle(JobOf[t]) /\ state[t] \notin Terminal /\ state[t] # "Running"
    BY <1>StrandInv, Zenon DEF Strand, Scheduling, Owned
  <2>3. state[t] \in AtRest
    BY <2>1, <2>2, Zenon DEF Programs, Idle
  <2>4. "Cancelled" \in TaskAllowed[state[t]]
    BY <1>StrandInv, <2>2, <2>3 DEF AtRest, TaskAllowed, Terminal
  <2>5. Begin(JobOf[t], Moves(t, <<"Cancelled">>, attempt[t]))
    BY <1>StrandInv, Zenon DEF Strand
  <2>6. UNCHANGED <<journalVars, jobVars, taskVars, outputVars, worldVars>>
    BY <1>StrandInv, Zenon DEF Strand
  <2>7. "Cancelled" \in AtRest \ {"Running"}
    BY DEF AtRest
  <2> QED
    BY <1>StrandInv, <2>2, <2>4, <2>5, <2>6, <2>7, <1>MoveOne, Zenon
<1>AbandonInv. ASSUME CrashInv, NEW t \in Tasks, Abandon(t) PROVE CrashInv'
  <2>1. Shapes /\ Programs
    BY <1>AbandonInv DEF CrashInv
  <2>2. Idle(JobOf[t]) /\ state[t] \notin Terminal
    BY <1>AbandonInv DEF Abandon
  <2>3. state[t] \in AtRest
    BY <2>1, <2>2, Zenon DEF Programs, Idle
  <2>4. UNCHANGED <<journalVars, jobVars, taskVars, outputVars, worldVars>>
    BY <1>AbandonInv DEF Abandon
  <2>5. CASE state[t] # "Running"
    <3>1. "Cancelled" \in TaskAllowed[state[t]]
      BY <2>2, <2>3, <2>5 DEF AtRest, TaskAllowed, Terminal
    <3>2. Begin(JobOf[t], Moves(t, <<"Cancelled">>, attempt[t]))
      BY <1>AbandonInv, <2>5 DEF Abandon
    <3>3. "Cancelled" \in AtRest \ {"Running"}
      BY DEF AtRest
    <3> QED
      BY <1>AbandonInv, <2>2, <2>4, <3>1, <3>2, <3>3, <1>MoveOne, Zenon
  <2>6. CASE state[t] = "Running"
    <3>1. PICK path : path = <<"Failed", "DeadLettered">>
      BY Zenon
    <3>2. /\ "Failed" \in TaskAllowed["Running"] /\ "DeadLettered" \in TaskAllowed["Failed"]
          /\ "Failed" \in TaskStates /\ "DeadLettered" \in TaskStates /\ "Running" \in TaskStates
          /\ "DeadLettered" \in AtRest
      BY Zenon DEF TaskAllowed, TaskStates, AtRest
    <3>3. /\ path \in Seq(TaskStates) /\ path # <<>> /\ path[1] \in TaskAllowed["Running"]
          /\ Len(path) = 2 /\ path[1] = "Failed" /\ path[2] = "DeadLettered" /\ path[Len(path)] \in AtRest
          /\ \A i \in 1..(Len(path) - 1) : path[i + 1] \in TaskAllowed[path[i]] /\ path[i] # "Running"
      BY <3>1, <3>2, <1>ShortPaths
    <3>4. \A i \in 1..Len(path) : path[i] # "Running"
      BY <3>3
    <3>5. Begin(JobOf[t], Moves(t, path, attempt[t]))
      BY <1>AbandonInv, <2>6, <3>1 DEF Abandon
    <3>6. /\ path \in Seq(TaskStates) /\ path # <<>> /\ path[1] \in TaskAllowed[state[t]]
          /\ path[Len(path)] \in AtRest
          /\ \A i \in 1..(Len(path) - 1) : path[i + 1] \in TaskAllowed[path[i]] /\ path[i] # "Running"
      BY <2>6, <3>3, Zenon
    <3> QED
      BY <1>AbandonInv, <2>2, <2>4, <3>4, <3>5, <3>6, <1>MoveOperation, Zenon
  <2> QED
    BY <2>5, <2>6
<1>FinishInv. ASSUME CrashInv, NEW j \in Jobs, Finish(j) PROVE CrashInv'
  <2>1. Shapes
    BY <1>FinishInv DEF CrashInv
  <2>2. /\ Idle(j) /\ jobStatus[j] = "Running" /\ running' = running /\ jobStatus' = jobStatus
        /\ j \in running
    BY <1>FinishInv DEF Finish, Idle, jobVars
  <2>3. tail = <<>>
    BY <1>FinishInv, <2>2, <1>IdleClean
  <2>4. PICK s \in {"Completed", "PartiallyCompleted", "Failed"} :
           Begin(j, IF j \in cancelled THEN <<Status(j, "Cancelled"), Final(j)>>
                    ELSE <<Status(j, "Aggregating"), Status(j, s), Final(j)>>)
    <3>1. PICK completed : completed = {t \in Owned(j) : state[t] = "Completed"}
      BY Zenon
    <3>2. PICK s : s = IF completed = Owned(j) THEN "Completed"
                       ELSE IF completed # {} THEN "PartiallyCompleted" ELSE "Failed"
      OBVIOUS
    <3>3. s \in {"Completed", "PartiallyCompleted", "Failed"}
      BY <3>2
    <3>4. Begin(j, IF j \in cancelled THEN <<Status(j, "Cancelled"), Final(j)>>
                   ELSE <<Status(j, "Aggregating"), Status(j, s), Final(j)>>)
      BY <1>FinishInv, <3>1, <3>2, Zenon DEF Finish
    <3> QED
      BY <3>3, <3>4
  <2>5. PICK recs : recs = IF j \in cancelled THEN <<Status(j, "Cancelled"), Final(j)>>
                           ELSE <<Status(j, "Aggregating"), Status(j, s), Final(j)>>
    BY Zenon
  <2>6. /\ "Cancelled" \in JobStatuses /\ "Aggregating" \in JobStatuses /\ s \in JobStatuses
        /\ "Cancelled" \in JobAllowed["Running"] /\ "Aggregating" \in JobAllowed["Running"]
        /\ s \in JobAllowed["Aggregating"]
    BY Zenon DEF JobStatuses, JobAllowed
  <2>7. recs \in Seq(Record) /\ LinedUp(j, recs)'
    <3>1. CASE j \in cancelled
      <4>1. recs = <<Status(j, "Cancelled"), Final(j)>>
        BY <2>5, <3>1
      <4>2. recs \in Seq(Record) /\ Len(recs) = 2 /\ recs[1] = Status(j, "Cancelled") /\ recs[2] = Final(j)
        BY <2>6, <4>1, <1>JobRecords
      <4>3. /\ recs[1].kind = "status" /\ recs[1].job = j /\ recs[1].status = "Cancelled"
            /\ recs[2].kind = "final" /\ recs[2].job = j
        BY <2>6, <4>2, <1>JobRecords
      <4>4. Due(j, recs[1])' /\ Follows(recs[1], recs[2])
        BY <2>2, <2>6, <4>3, Zenon DEF Due, Follows
      <4>5. \A i \in 1..Len(recs) : i = 1 \/ i = 2
        BY <4>2
      <4>6. \A i \in 1..(Len(recs) - 1) : i = 1 /\ i + 1 = 2
        BY <4>2
      <4> QED
        BY <4>2, <4>3, <4>4, <4>5, <4>6, Zenon DEF LinedUp
    <3>2. CASE j \notin cancelled
      <4>1. recs = <<Status(j, "Aggregating"), Status(j, s), Final(j)>>
        BY <2>5, <3>2
      <4>2. /\ recs \in Seq(Record) /\ Len(recs) = 3 /\ recs[1] = Status(j, "Aggregating")
            /\ recs[2] = Status(j, s) /\ recs[3] = Final(j)
        BY <2>6, <4>1, <1>JobRecords
      <4>3. /\ recs[1].kind = "status" /\ recs[1].job = j /\ recs[1].status = "Aggregating"
            /\ recs[2].kind = "status" /\ recs[2].job = j /\ recs[2].status = s
            /\ recs[3].kind = "final" /\ recs[3].job = j
        BY <2>6, <4>2, <1>JobRecords
      <4>4. Due(j, recs[1])' /\ Follows(recs[1], recs[2]) /\ Follows(recs[2], recs[3])
        BY <2>2, <2>6, <4>3, Zenon DEF Due, Follows
      <4>5. \A i \in 1..Len(recs) : i = 1 \/ i = 2 \/ i = 3
        BY <4>2
      <4>6. \A i \in 1..(Len(recs) - 1) : (i = 1 /\ i + 1 = 2) \/ (i = 2 /\ i + 1 = 3)
        BY <4>2
      <4> QED
        BY <4>2, <4>3, <4>4, <4>5, <4>6, Zenon DEF LinedUp
    <3> QED
      BY <3>1, <3>2
  <2>8. Begins(j, recs)
    BY <1>FinishInv, <2>1, <2>2, <2>3, <2>4, <2>5, <2>7, Zenon
    DEF Begins, BeginsLine, BeginsJobs, BeginsTasks, Finish, Idle, Begin, Shapes, jobVars, taskVars, worldVars
  <2> QED
    BY <1>FinishInv, <2>8, <1>BeginInv
<1>1. ASSUME CrashInv, NEW k \in Jobs, NEW t \in Owned(k),
             \/ Promote(t) \/ Lease(t) \/ Strand(t) \/ Abandon(t)
             \/ \E outcome \in Outcomes : ApplyOutcome(t, outcome)
      PROVE  CrashInv'
  <2>1. t \in Tasks
    BY DEF Owned
  <2> QED
    BY <1>1, <2>1, <1>PromoteInv, <1>LeaseInv, <1>StrandInv, <1>AbandonInv, <1>ApplyOutcomeInv
<1> QED
  BY <1>1, <1>SubmitInv, <1>CancelInv, <1>RunInv, <1>FinishInv, Zenon DEF Operation

=============================================================================
