------------------------ MODULE CrashRecoveryProofs ------------------------
(***************************************************************************)
(* For every set of jobs, tasks, attempt budgets and any number of         *)
(* crashes: writing a record, the crash and the recovery keep the          *)
(* invariant of CrashRecoverySteps, and what follows from it.  A restart   *)
(* costs a task one attempt at most, a settled task stays settled, the     *)
(* journal mirrors what the coordinator holds, attempts only advance.      *)
(***************************************************************************)
EXTENDS CrashRecoverySteps

-----------------------------------------------------------------------------
(* Writing a record.                                                       *)

Taken(j, r) ==
    /\ process = "up" /\ todo[j] # <<>> /\ r = todo[j][1]
    /\ todo' = [todo EXCEPT ![j] = Tail(@)] /\ AppendRecord(r)
Kept == UNCHANGED <<process, submitted, crashes, attempt, entry>>
JobsWritten(j, r) ==
    /\ known' = known \cup (IF r.kind = "planned" THEN {r.job} ELSE {})
    /\ running' = (IF r.kind = "final" THEN running \ {j} ELSE running)
    /\ jobStatus' = (IF r.kind = "status" THEN [jobStatus EXCEPT ![j] = r.status] ELSE jobStatus)
TasksWritten(r) ==
    /\ state' = (IF r.kind = "moved" THEN [state EXCEPT ![r.task] = r.to] ELSE state)
    /\ started' = (IF r.kind = "moved" /\ r.to = "Running"
                   THEN [started EXCEPT ![r.task] = attempt[r.task]] ELSE started)
OutputsWritten(r) ==
    /\ results' = results \cup (IF r.kind = "result" THEN {r.task} ELSE {})
    /\ failures' = failures \cup (IF r.kind = "failure" THEN {<<r.task, r.attempt, r.dead>>} ELSE {})
    /\ final' = final \cup (IF r.kind = "final" THEN {r.job} ELSE {})

Wrote(j, r) == Taken(j, r) /\ Kept /\ JobsWritten(j, r) /\ TasksWritten(r) /\ OutputsWritten(r)

\* What the invariant says of the record that is written.
MoveDue(j, r) ==
    r.kind = "moved" => /\ r.task \in Tasks /\ JobOf[r.task] = j /\ r.to \in TaskStates
                        /\ r.attempt = attempt[r.task] /\ r.to \in TaskAllowed[state[r.task]]
                        /\ state[r.task] \notin Terminal /\ r.to # "Created"
NowDue(j, r) ==
    /\ r \in Record /\ r.kind \in Kinds /\ r.job = j /\ Due(j, r) /\ MoveDue(j, r)
    /\ r.kind = "status" => r.status \in JobStatuses
    /\ tail # <<>> => r.kind \in {"planned", "status"}

LEMMA HeadDue ==
  ASSUME CrashInv, NEW j \in Jobs, process = "up", todo[j] # <<>>, NEW r, r = todo[j][1]
  PROVE  Head(todo[j]) = r /\ NowDue(j, r)
<1>1. Shapes /\ Programs /\ Fresh
  BY DEF CrashInv
<1>2. todo[j] \in Seq(Record) /\ LinedUp(j, todo[j])
  BY <1>1 DEF Shapes, Programs
<1>3. Head(todo[j]) = r /\ r \in Record /\ 1 \in 1..Len(todo[j])
  BY <1>2, TailOf
<1>4. r.job = j /\ Due(j, r)
  BY <1>2, <1>3, Zenon DEF LinedUp
<1>5. /\ r.kind \in Kinds
      /\ r.kind = "status" => r.status \in JobStatuses
      /\ r.kind = "moved" => r.task \in Tasks /\ r.job = JobOf[r.task] /\ r.to \in TaskStates
  BY <1>3, RecordFields, Zenon
<1>6. r.kind = "moved" => /\ r.attempt = attempt[r.task] /\ r.to \in TaskAllowed[state[r.task]]
                          /\ state[r.task] \in TaskStates
  BY <1>1, <1>4, <1>5, Zenon DEF Due, Shapes
<1>7. r.kind = "moved" => state[r.task] \notin Terminal /\ r.to # "Created"
  <2>1. TaskAllowed["Completed"] = {} /\ TaskAllowed["Cancelled"] = {} /\ TaskAllowed["DeadLettered"] = {}
    BY DEF TaskAllowed
  <2>2. \A s \in TaskStates : "Created" \notin TaskAllowed[s]
    BY DEF TaskAllowed, TaskStates
  <2> QED
    BY <1>6, <2>1, <2>2, Zenon DEF Terminal
<1>8. tail # <<>> => r.kind \in {"planned", "status"}
  BY <1>1 DEF Fresh
<1> QED
  BY <1>3, <1>4, <1>5, <1>6, <1>7, <1>8, Zenon DEF NowDue, MoveDue

LEMMA WriteIs ==
  ASSUME CrashInv, NEW j \in Jobs, WriteStep(j)
  PROVE  \E r : Wrote(j, r) /\ NowDue(j, r)
<1>3. Write(j)
  BY Zenon DEF WriteStep, WritePlan, SetStatus, Advance, RecordSuccess, RecordFailure, RecordFinal
<1>4. process = "up" /\ todo[j] # <<>>
  BY <1>3 DEF Write
<1>5. PICK r : r = todo[j][1]
  OBVIOUS
<1>6. Head(todo[j]) = r /\ NowDue(j, r)
  BY <1>4, <1>5, HeadDue
<1>7. r.job = j
  BY <1>6 DEF NowDue
<1>13. todo' = [todo EXCEPT ![j] = Tail(@)] /\ AppendRecord(r)
  BY <1>3, <1>6 DEF Write
<1>14. CASE WritePlan(j)
  <2>1. r.kind = "planned"
    BY <1>6, <1>14 DEF WritePlan
  <2> QED
    BY <1>4, <1>5, <1>6, <1>7, <1>13, <1>14, <2>1, Zenon DEF WritePlan, Wrote, Taken, Kept, JobsWritten, TasksWritten, OutputsWritten, taskVars, outputVars, worldVars
<1>15. CASE SetStatus(j)
  <2>1. r.kind = "status"
    BY <1>6, <1>15, Zenon DEF SetStatus
  <2> QED
    BY <1>4, <1>5, <1>6, <1>13, <1>15, <2>1, Zenon DEF SetStatus, Wrote, Taken, Kept, JobsWritten, TasksWritten, OutputsWritten, taskVars, outputVars, worldVars
<1>16. CASE Advance(j)
  <2>1. r.kind = "moved"
    BY <1>6, <1>16, Zenon DEF Advance
  <2> QED
    BY <1>4, <1>5, <1>6, <1>13, <1>16, <2>1, Zenon DEF Advance, Wrote, Taken, Kept, JobsWritten, TasksWritten, OutputsWritten, jobVars, outputVars
<1>17. CASE RecordSuccess(j)
  <2>1. r.kind = "result"
    BY <1>6, <1>17 DEF RecordSuccess
  <2> QED
    BY <1>4, <1>5, <1>6, <1>13, <1>17, <2>1, Zenon DEF RecordSuccess, Wrote, Taken, Kept, JobsWritten, TasksWritten, OutputsWritten, jobVars, taskVars, worldVars
<1>18. CASE RecordFailure(j)
  <2>1. r.kind = "failure"
    BY <1>6, <1>18, Zenon DEF RecordFailure
  <2> QED
    BY <1>4, <1>5, <1>6, <1>13, <1>18, <2>1, Zenon DEF RecordFailure, Wrote, Taken, Kept, JobsWritten, TasksWritten, OutputsWritten, jobVars, taskVars, worldVars
<1>19. CASE RecordFinal(j)
  <2>1. r.kind = "final"
    BY <1>6, <1>19 DEF RecordFinal
  <2> QED
    BY <1>4, <1>5, <1>6, <1>7, <1>13, <1>19, <2>1, Zenon DEF RecordFinal, Wrote, Taken, Kept, JobsWritten, TasksWritten, OutputsWritten, taskVars, worldVars
<1> QED
  BY <1>14, <1>15, <1>16, <1>17, <1>18, <1>19, Zenon DEF WriteStep

LEMMA OneMore ==
  ASSUME NEW recs \in Seq(Record), NEW r \in Record, NEW all, all = Append(recs, r)
  PROVE  /\ all \in Seq(Record) /\ Len(recs) \in Nat /\ Len(all) = Len(recs) + 1
         /\ all[Len(all)] = r /\ \A i \in 1..Len(recs) : i \in 1..Len(all) /\ all[i] = recs[i]
         /\ \A i \in 1..Len(all) : i \in 1..Len(recs) \/ i = Len(all)
  OBVIOUS

\* The line an append ends.
LEMMA NextLines ==
  ASSUME Shapes, NEW r, AppendRecord(r)
  PROVE  /\ Len(lines) \in Nat /\ Len(lines') = Len(lines) + 1
         /\ lines'[Len(lines')] = Append(tail, Fragment(r, TRUE))
         /\ \A i \in 1..Len(lines) : i \in 1..Len(lines') /\ lines'[i] = lines[i]
         /\ \A i \in 1..Len(lines') : i \in 1..Len(lines) \/ i = Len(lines')
         /\ Len(lines') \in 1..Len(lines')
         /\ Len(tail) \in Nat /\ Len(Append(tail, Fragment(r, TRUE))) = Len(tail) + 1
         /\ Len(tail) = 0 => tail = <<>>
<1>1. lines \in Seq(Seq(Fragments(Record))) /\ tail \in Seq(Fragments(Record))
  BY DEF Shapes, JournalInv, JournalTypeOK
<1>2. PICK line : line = Append(tail, Fragment(r, TRUE))
  BY Zenon
<1>3. PICK all : all = Append(lines, line)
  BY Zenon
<1>4. lines' = all
  BY <1>2, <1>3, Zenon DEF AppendRecord
<1>5. Len(lines) \in Nat /\ Len(all) = Len(lines) + 1 /\ all[Len(lines) + 1] = line
  BY <1>1, <1>3
<1>6. \A i \in 1..Len(lines) : all[i] = lines[i]
  BY <1>1, <1>3
<1>7. /\ \A i \in 1..Len(lines) : i \in 1..Len(all)
      /\ \A i \in 1..Len(all) : i \in 1..Len(lines) \/ i = Len(all)
      /\ Len(all) \in 1..Len(all)
  BY <1>5
<1>8. Len(tail) \in Nat /\ Len(line) = Len(tail) + 1 /\ (Len(tail) = 0 => tail = <<>>)
  BY <1>1, <1>2
<1> QED
  BY <1>2, <1>4, <1>5, <1>6, <1>7, <1>8, Zenon

\* Writing keeps the invariant, but for what it says of memory.
LEMMA WriteKeeps ==
  \A k \in Jobs : \A x : CrashInv /\ Wrote(k, x) /\ NowDue(k, x) =>
      /\ Shapes' /\ Dead' /\ Programs' /\ Fresh' /\ GlueSparesMoves' /\ PlansSubmitted'
      /\ Budgeted' /\ SettledLast' /\ SettledStaysSettled' /\ StartsRecorded'
\* The journal after an append.
<1>WrittenJournal. ASSUME Shapes, NEW r \in Record, AppendRecord(r)
                   PROVE  /\ JournalInv(Record)' /\ tail' = <<>> /\ acked' = Append(acked, r)
                          /\ acked \in Seq(Record) /\ Len(acked) \in Nat /\ Len(acked') = Len(acked) + 1
                          /\ Len(lines) = Len(acked) /\ lines' = Append(lines, Append(tail, Fragment(r, TRUE)))
                          /\ \A i \in 1..Len(acked) : i \in 1..Len(acked') /\ acked'[i] = acked[i] /\ acked[i] \in Record
                          /\ acked'[Len(acked')] = r /\ Len(acked') \in 1..Len(acked')
                          /\ \A i \in 1..Len(acked') : i \in 1..Len(acked) \/ i = Len(acked')
  <2>1. JournalInv(Record)
    BY <1>WrittenJournal DEF Shapes
  <2>2. JournalInv(Record)'
    BY <1>WrittenJournal, <2>1, StepInv DEF JournalNext
  <2>3. tail' = <<>> /\ acked' = Append(acked, r) /\ lines' = Append(lines, Append(tail, Fragment(r, TRUE)))
    BY <1>WrittenJournal DEF AppendRecord
  <2>4. acked \in Seq(Record) /\ Len(lines) = Len(acked)
    BY <2>1 DEF JournalInv, JournalTypeOK, LinesEndAcknowledged
  <2>5. PICK all : all = acked'
    OBVIOUS
  <2>6. /\ Len(acked) \in Nat /\ Len(all) = Len(acked) + 1
        /\ all[Len(all)] = r /\ \A i \in 1..Len(acked) : i \in 1..Len(all) /\ all[i] = acked[i]
        /\ \A i \in 1..Len(all) : i \in 1..Len(acked) \/ i = Len(all)
    BY <2>3, <2>4, <2>5, OneMore
  <2>7. Len(all) \in 1..Len(all)
    BY <2>6
  <2> QED
    BY <2>2, <2>3, <2>4, <2>5, <2>6, <2>7
<1>WriteShapes. ASSUME CrashInv, NEW j \in Jobs, NEW r, Wrote(j, r), NowDue(j, r)
                PROVE  Shapes' /\ Dead' /\ Fresh' /\ PlansSubmitted'
  <2>1. Shapes /\ PlansSubmitted
    BY <1>WriteShapes DEF CrashInv
  <2>2. r \in Record /\ AppendRecord(r) /\ todo[j] # <<>>
    BY <1>WriteShapes, Zenon DEF Wrote, Taken, NowDue
  <2>3. /\ JournalInv(Record)' /\ tail' = <<>>
        /\ \A i \in 1..Len(acked') : (i \in 1..Len(acked) /\ acked'[i] = acked[i]) \/ acked'[i] = r
    BY <2>1, <2>2, <1>WrittenJournal, Zenon
  <2>4. todo' \in [Jobs -> Seq(Record)]
    <3>1. Tail(todo[j]) \in Seq(Record)
      BY <2>1, <2>2, TailOf, Zenon DEF Shapes
    <3> QED
      BY <1>WriteShapes, <2>1, <3>1, Zenon DEF Wrote, Taken, Kept, JobsWritten, TasksWritten, OutputsWritten, Shapes
  <2>5. r.kind = "planned" => r.job \in submitted
    BY <1>WriteShapes DEF NowDue, Due
  <2>6. running \subseteq known /\ running' \subseteq running /\ known \subseteq known'
    BY <1>WriteShapes, <2>1, Zenon DEF Shapes, Wrote, JobsWritten
  <2>7. submitted' = submitted /\ known' \subseteq submitted /\ crashes' = crashes /\ process' = "up"
    BY <1>WriteShapes, <2>1, <2>5, Zenon DEF Shapes, Wrote, Taken, Kept, JobsWritten
  <2>8. jobStatus' \in [Jobs -> JobStatuses]
    BY <1>WriteShapes, <2>1, Zenon DEF Shapes, Wrote, JobsWritten, NowDue
  <2>9. state' \in [Tasks -> TaskStates]
    BY <1>WriteShapes, <2>1, Zenon DEF Shapes, Wrote, TasksWritten, NowDue, MoveDue
  <2>10. started' \in [Tasks -> Nat]
    BY <1>WriteShapes, <2>1, Zenon DEF Shapes, Wrote, TasksWritten, NowDue, MoveDue
  <2>11. attempt' = attempt /\ entry' = entry
    BY <1>WriteShapes DEF Wrote, Kept
  <2>12. Shapes'
    BY <2>1, <2>3, <2>4, <2>6, <2>7, <2>8, <2>9, <2>10, <2>11, Zenon DEF Shapes
  <2>13. 1..Len(tail') = {}
    BY <2>3
  <2>14. \A x \in Written' : x \in Written \/ x = r
    BY <2>3, <2>13 DEF Written
  <2>15. PlansSubmitted'
    BY <2>1, <2>5, <2>7, <2>14 DEF PlansSubmitted
  <2> QED
    BY <2>3, <2>7, <2>12, <2>15 DEF Dead, Fresh
<1>WritePrograms. ASSUME CrashInv, NEW j \in Jobs, NEW r, Wrote(j, r), NowDue(j, r)
                  PROVE  Programs'
  <2>1. Shapes /\ Programs
    BY <1>WritePrograms DEF CrashInv
  <2>2. PICK s : s = todo[j]
    OBVIOUS
  <2>3. PICK rest : rest = Tail(s)
    BY Zenon
  <2>4. s \in Seq(Record) /\ s # <<>> /\ LinedUp(j, s) /\ r = s[1]
    BY <1>WritePrograms, <2>1, <2>2, Zenon DEF Shapes, Programs, Wrote, Taken
  <2>5. /\ Len(s) \in Nat /\ rest \in Seq(Record) /\ Len(rest) = Len(s) - 1
        /\ \A i \in 1..(Len(s) - 1) : rest[i] = s[i + 1]
        /\ rest # <<>> => Len(s) >= 2
    BY <2>3, <2>4, TailOf
  <2>6. \A k \in Jobs : todo'[k] = IF k = j THEN rest ELSE todo[k]
    BY <1>WritePrograms, <2>1, <2>2, <2>3, Zenon DEF Wrote, Taken, Shapes
  <2>7. attempt' = attempt /\ entry' = entry /\ submitted' = submitted
    BY <1>WritePrograms DEF Wrote, Kept
  <2>8. /\ \A i \in 1..Len(s) : s[i].job = j
        /\ Due(j, s[1])
        /\ \A i \in 1..(Len(s) - 1) : Follows(s[i], s[i + 1])
        /\ s[Len(s)].kind = "moved" => s[Len(s)].to \in AtRest
        /\ \A i \in 1..Len(s) : s[i].kind = "moved" /\ s[i].to = "Running" =>
              attempt[s[i].task] > started[s[i].task] /\ entry[s[i].task] = NoEntry
    BY <2>4, Zenon DEF LinedUp
  <2>9. LinedUp(j, rest)'
    <3>1. CASE rest = <<>>
      <4>1. Len(rest) = 0
        BY <3>1
      <4> QED
        BY <3>1, <4>1 DEF LinedUp
    <3>2. CASE rest # <<>>
      <4>1. Len(s) >= 2 /\ Len(rest) >= 1
        BY <2>5, <3>2
      <4>2. Follows(r, s[2])
        <5>1. 1 \in 1..(Len(s) - 1) /\ 1 + 1 = 2
          BY <2>5, <4>1
        <5> QED
          BY <2>4, <2>8, <5>1, Zenon
      <4>3. rest[1] = s[2] /\ s[2] \in Record
        <5>1. 1 \in 1..(Len(s) - 1) /\ 1 + 1 = 2 /\ 2 \in 1..Len(s)
          BY <2>5, <4>1
        <5> QED
          BY <2>4, <2>5, <5>1
      <4>4. /\ r.kind # "planned" /\ r.kind # "final" /\ s[2].kind # "planned" /\ j \in running
            /\ r.kind = "moved" => r.to # "Running"
        BY <1>WritePrograms, <4>2, Zenon DEF Follows, NowDue, MoveDue, Due
      <4>5. running' = running /\ started' = started
        BY <1>WritePrograms, <4>4, Zenon DEF Wrote, JobsWritten, TasksWritten
      <4>6. s[2].kind = "status" => s[2].status \in JobAllowed[jobStatus'[j]]
        BY <1>WritePrograms, <2>1, <4>2, Zenon DEF Follows, Wrote, Taken, JobsWritten, Shapes
      <4>7. s[2].kind = "moved" => s[2].to \in TaskAllowed[state'[s[2].task]] /\ s[2].attempt = attempt'[s[2].task]
        <5> SUFFICES ASSUME s[2].kind = "moved"
                     PROVE  s[2].to \in TaskAllowed[state'[s[2].task]] /\ s[2].attempt = attempt'[s[2].task]
          BY Zenon
        <5>1. /\ r.kind = "moved" /\ s[2].task = r.task /\ s[2].attempt = r.attempt
              /\ s[2].to \in TaskAllowed[r.to]
          BY <4>2 DEF Follows
        <5>2. state'[r.task] = r.to /\ r.attempt = attempt[r.task]
          BY <1>WritePrograms, <2>1, <5>1, Zenon DEF Wrote, Kept, TasksWritten, NowDue, MoveDue, Shapes
        <5> QED
          BY <2>7, <5>1, <5>2, Zenon
      <4>8. Due(j, rest[1])'
        BY <4>3, <4>4, <4>5, <4>6, <4>7, Zenon DEF Due
      <4>9. \A i \in 1..Len(rest) : i \in 1..(Len(s) - 1) /\ i + 1 \in 1..Len(s) /\ rest[i] = s[i + 1]
        BY <2>5
      <4>10. \A i \in 1..Len(rest) : rest[i].job = j
        BY <2>8, <4>9, Zenon
      <4>11. ASSUME NEW i \in 1..(Len(rest) - 1) PROVE Follows(rest[i], rest[i + 1])
        <5>1. i \in 1..Len(rest) /\ i + 1 \in 1..Len(rest) /\ i + 1 \in 1..(Len(s) - 1)
          BY <2>5
        <5> QED
          BY <2>8, <4>9, <5>1, Zenon
      <4>12. rest[Len(rest)].kind = "moved" => rest[Len(rest)].to \in AtRest
        <5>1. Len(rest) \in 1..Len(rest) /\ Len(rest) + 1 = Len(s)
          BY <2>5, <4>1
        <5> QED
          BY <2>8, <4>9, <5>1, Zenon
      <4>13. \A i \in 1..Len(rest) : rest[i].kind = "moved" /\ rest[i].to = "Running" =>
                attempt'[rest[i].task] > started'[rest[i].task] /\ entry'[rest[i].task] = NoEntry
        BY <2>7, <2>8, <4>5, <4>9, Zenon
      <4> QED
        BY <4>8, <4>10, <4>11, <4>12, <4>13, Zenon DEF LinedUp
    <3> QED
      BY <3>1, <3>2
  <2>10. ASSUME NEW k \in Jobs PROVE LinedUp(k, todo[k])'
    <3>1. CASE k = j
      <4>1. todo'[k] = rest
        BY <2>6, <3>1
      <4> QED
        BY <2>9, <3>1, <4>1, Zenon DEF LinedUp, Due
    <3>2. CASE k # j
      <4>1. PICK q : q = todo[k]
        OBVIOUS
      <4>2. q \in Seq(Record) /\ LinedUp(k, q) /\ todo'[k] = q
        BY <2>1, <2>6, <3>2, <4>1, Zenon DEF Shapes, Programs
      <4>3. submitted \subseteq submitted' /\ (k \in running => k \in running') /\ jobStatus'[k] = jobStatus[k]
        BY <1>WritePrograms, <2>1, <2>7, <3>2, Zenon DEF Wrote, Taken, Kept, JobsWritten, Shapes
      <4>4. \A t \in Tasks : JobOf[t] = k => state'[t] = state[t] /\ started'[t] = started[t]
        BY <1>WritePrograms, <2>1, <3>2, Zenon DEF Wrote, TasksWritten, NowDue, MoveDue, Shapes
      <4>5. \A t \in Tasks : attempt'[t] = attempt[t] /\ entry'[t] \in {entry[t], NoEntry}
        BY <2>7
      <4>6. LinedUp(k, q)'
        BY <4>2, <4>3, <4>4, <4>5, StillLinedUp
      <4> QED
        BY <4>2, <4>6, Zenon DEF LinedUp, Due
    <3> QED
      BY <3>1, <3>2
  <2>11. ASSUME NEW t \in Tasks
         PROVE  \/ state'[t] \in AtRest
                \/ todo'[JobOf[t]] # <<>> /\ IsMove(todo'[JobOf[t]][1], t)
    <3>1. JobOf[t] \in Jobs
      BY CrashRecoveryAssumption DEF CrashRecoveryAssumption
    <3>2. state[t] \in AtRest \/ (todo[JobOf[t]] # <<>> /\ IsMove(todo[JobOf[t]][1], t))
      BY <2>1 DEF Programs
    <3>3. CASE IsMove(r, t)
      <4>1. r.kind = "moved" /\ r.task = t /\ JobOf[t] = j /\ state'[t] = r.to
        BY <1>WritePrograms, <2>1, <3>3, Zenon DEF IsMove, NowDue, MoveDue, Wrote, TasksWritten, Shapes
      <4>2. CASE r.to \notin AtRest
        <5>1. Len(s) # 1 /\ Len(s) >= 1
          BY <2>4, <2>8, <4>1, <4>2
        <5>2. 1 \in 1..(Len(s) - 1) /\ 1 + 1 = 2
          BY <2>5, <5>1
        <5>3. Follows(r, s[2]) /\ rest[1] = s[2]
          BY <2>4, <2>5, <2>8, <5>2, Zenon
        <5>4. IsMove(rest[1], t)
          BY <4>1, <4>2, <5>3, Zenon DEF Follows, IsMove
        <5>5. rest # <<>>
          BY <2>5, <5>1
        <5> QED
          BY <2>6, <4>1, <5>4, <5>5
      <4> QED
        BY <4>1, <4>2
    <3>4. CASE ~ IsMove(r, t)
      <4>1. state'[t] = state[t]
        BY <1>WritePrograms, <2>1, <3>4, Zenon DEF IsMove, Wrote, TasksWritten, Shapes
      <4>2. JobOf[t] = j => state[t] \in AtRest
        BY <2>2, <2>4, <3>2, <3>4
      <4> QED
        BY <2>6, <3>1, <3>2, <4>1, <4>2, Zenon
    <3> QED
      BY <3>3, <3>4, Zenon
  <2> QED
    BY <2>10, <2>11, Zenon DEF Programs, IsMove
<1>WriteRecords. ASSUME CrashInv, NEW j \in Jobs, NEW r, Wrote(j, r), NowDue(j, r)
                 PROVE  GlueSparesMoves' /\ Budgeted' /\ SettledLast' /\ SettledStaysSettled' /\ StartsRecorded'
  <2>1. /\ Shapes /\ GlueSparesMoves /\ Budgeted /\ SettledLast /\ SettledStaysSettled
        /\ StartsRecorded
    BY <1>WriteRecords DEF CrashInv
  <2>2. /\ r \in Record /\ AppendRecord(r) /\ process = "up" /\ process' = "up" /\ crashes' = crashes
        /\ attempt' = attempt /\ entry' = entry
    BY <1>WriteRecords, Zenon DEF Wrote, Taken, Kept, NowDue, MoveDue
  <2>3. /\ tail' = <<>> /\ Len(acked) \in Nat /\ Len(acked') = Len(acked) + 1
        /\ Len(lines) = Len(acked) /\ lines' = Append(lines, Append(tail, Fragment(r, TRUE)))
        /\ \A i \in 1..Len(acked) : i \in 1..Len(acked') /\ acked'[i] = acked[i] /\ acked[i] \in Record
        /\ acked'[Len(acked')] = r /\ Len(acked') \in 1..Len(acked')
        /\ \A i \in 1..Len(acked') : i \in 1..Len(acked) \/ i = Len(acked')
    BY <2>1, <2>2, <1>WrittenJournal, Zenon
  <2>4. 1..Len(tail') = {}
    BY <2>3
  <2>5. \A t \in Tasks : /\ state'[t] = IF IsMove(r, t) THEN r.to ELSE state[t]
                         /\ started'[t] = IF IsMove(r, t) /\ r.to = "Running" THEN attempt[t] ELSE started[t]
    BY <1>WriteRecords, <2>1, Zenon DEF Wrote, Kept, TasksWritten, IsMove, Shapes
  <2>6. GlueSparesMoves'
    <3> SUFFICES ASSUME NEW i \in 1..Len(lines'), Len(lines'[i]) > 1
                 PROVE  acked'[i].kind \in {"planned", "status"}
      BY DEF GlueSparesMoves
    <3>2. /\ Len(lines) \in Nat /\ Len(lines') = Len(lines) + 1
          /\ lines'[Len(lines')] = Append(tail, Fragment(r, TRUE))
          /\ i \in 1..Len(lines) => lines'[i] = lines[i]
          /\ i \in 1..Len(lines) \/ i = Len(lines')
          /\ Len(tail) \in Nat /\ Len(Append(tail, Fragment(r, TRUE))) = Len(tail) + 1
      BY <2>1, <2>2, NextLines, Zenon
    <3>3. CASE i \in 1..Len(lines)
      BY <2>1, <2>3, <3>2, <3>3, Zenon DEF GlueSparesMoves
    <3>4. CASE i = Len(lines')
      <4>2. Len(lines'[i]) = Len(tail) + 1 /\ Len(tail) \in Nat
        BY <3>2, <3>4
      <4>3. tail # <<>>
        BY <4>2
      <4>4. acked'[i] = r
        BY <2>3, <3>2, <3>4, Zenon
      <4> QED
        BY <1>WriteRecords, <4>3, <4>4, Zenon DEF NowDue, MoveDue
    <3> QED
      BY <3>2, <3>3, <3>4, Zenon
  <2>7. Budgeted'
    <3>1. \A x \in Written' : x \in Written \/ x = r
      BY <2>3, <2>4, Zenon DEF Written
    <3>2. \A t : Allowance(t)' = Allowance(t)
      BY <2>2 DEF Allowance
    <3>3. r.kind = "moved" => r.attempt <= Allowance(r.task)
      BY <1>WriteRecords, <2>1, Zenon DEF Budgeted, NowDue, MoveDue
    <3>4. \A x \in Written' : x.kind = "moved" => x.attempt <= Allowance(x.task)
      BY <2>1, <2>2, <3>1, <3>3, Zenon DEF Budgeted
    <3>5. \A t \in Tasks : state'[t] = "Created" => state[t] = "Created"
      BY <1>WriteRecords, <2>5, Zenon DEF NowDue, MoveDue, IsMove
    <3> QED
      BY <2>1, <2>2, <3>2, <3>4, <3>5, Zenon DEF Budgeted
  <2>8. ASSUME NEW i \in 1..Len(acked), acked[i].kind = "moved", acked[i].to \in Terminal
        PROVE  ~ IsMove(r, acked[i].task) /\ state'[acked[i].task] = acked[i].to
    <3>1. acked[i].task \in Tasks
      BY <2>3, <2>8, RecordFields, Zenon
    <3>2. state[acked[i].task] = acked[i].to
      BY <2>1, <2>2, <2>8, Zenon DEF SettledStaysSettled
    <3>3. ~ IsMove(r, acked[i].task)
      BY <1>WriteRecords, <2>8, <3>2, Zenon DEF IsMove, NowDue, MoveDue
    <3> QED
      BY <2>5, <3>1, <3>2, <3>3, Zenon
  <2>9. SettledLast'
    <3> SUFFICES ASSUME NEW i \in 1..Len(acked'), acked'[i].kind = "moved", acked'[i].to \in Terminal
                 PROVE  /\ \A k \in (i + 1)..Len(acked') : ~ IsMove(acked'[k], acked'[i].task)
                        /\ \A k \in 1..Len(tail') : ~ IsMove(tail'[k].rec, acked'[i].task)
      BY DEF SettledLast, IsMove
    <3>1. CASE i = Len(acked')
      <4>1. (i + 1)..Len(acked') = {}
        BY <2>3, <3>1
      <4> QED
        BY <2>4, <4>1
    <3>2. CASE i \in 1..Len(acked)
      <4>1. acked'[i] = acked[i] /\ ~ IsMove(r, acked[i].task)
        BY <2>3, <2>8, <3>2, Zenon
      <4>2. \A k \in (i + 1)..Len(acked) : ~ IsMove(acked[k], acked[i].task)
        BY <2>1, <3>2, <4>1, Zenon DEF SettledLast
      <4>3. \A k \in (i + 1)..Len(acked') : (k \in (i + 1)..Len(acked) /\ k \in 1..Len(acked)) \/ k = Len(acked')
        BY <2>3, <3>2
      <4> QED
        BY <2>3, <2>4, <4>1, <4>2, <4>3, Zenon
    <3> QED
      BY <2>3, <3>1, <3>2, Zenon
  <2>10. SettledStaysSettled'
    <3> SUFFICES ASSUME NEW i \in 1..Len(acked'), acked'[i].kind = "moved", acked'[i].to \in Terminal
                 PROVE  state'[acked'[i].task] = acked'[i].to
      BY DEF SettledStaysSettled
    <3>1. CASE i = Len(acked')
      BY <1>WriteRecords, <2>3, <2>5, <3>1, Zenon DEF NowDue, MoveDue, Wrote, TasksWritten, IsMove
    <3>2. CASE i \in 1..Len(acked)
      BY <2>3, <2>8, <3>2, Zenon
    <3> QED
      BY <2>3, <3>1, <3>2, Zenon
  <2>11. ASSUME NEW t \in Tasks
         PROVE  /\ attempt[t] >= started'[t]
                /\ entry[t] # NoEntry => entry[t] >= started'[t]
                /\ \A i \in 1..Len(acked') :
                      IsMove(acked'[i], t) /\ (\A k \in (i + 1)..Len(acked') : ~ IsMove(acked'[k], t))
                          => acked'[i].attempt >= started'[t]
                /\ started'[t] > 0 => \E i \in 1..Len(acked') : IsMove(acked'[i], t)
    <3>1. /\ attempt[t] \in Nat /\ started[t] \in Nat /\ attempt[t] >= started[t]
          /\ entry[t] # NoEntry => entry[t] >= started[t]
      BY <2>1, <2>2, Zenon DEF StartsRecorded, Shapes
    <3>2. attempt[t] >= started'[t]
      BY <2>5, <3>1
    <3>3. entry[t] # NoEntry => entry[t] >= started'[t]
      <4>1. IsMove(r, t) /\ r.to = "Running" => entry[t] = NoEntry
        <5>1. r = todo[j][1] /\ todo[j] # <<>> /\ todo[j] \in Seq(Record) /\ LinedUp(j, todo[j])
          BY <1>WriteRecords, <2>1, Zenon DEF CrashInv, Programs, Wrote, Taken, Shapes
        <5>2. 1 \in 1..Len(todo[j])
          BY <5>1
        <5> QED
          BY <5>1, <5>2, Zenon DEF LinedUp, IsMove
      <4> QED
        BY <2>5, <3>1, <4>1, Zenon
    <3>4. ASSUME NEW i \in 1..Len(acked'), IsMove(acked'[i], t),
                 \A k \in (i + 1)..Len(acked') : ~ IsMove(acked'[k], t)
          PROVE  acked'[i].attempt >= started'[t]
      <4>1. CASE i = Len(acked')
        BY <1>WriteRecords, <2>3, <3>2, <3>4, <4>1, Zenon DEF IsMove, NowDue, MoveDue
      <4>2. CASE i \in 1..Len(acked)
        <5>1. Len(acked') \in (i + 1)..Len(acked') /\ acked'[i] = acked[i]
          BY <2>3, <4>2
        <5>2. ~ IsMove(r, t)
          BY <2>3, <3>4, <5>1, Zenon
        <5>3. \A k \in (i + 1)..Len(acked) : k \in 1..Len(acked) /\ k \in (i + 1)..Len(acked')
          BY <2>3, <4>2
        <5>4. \A k \in (i + 1)..Len(acked) : ~ IsMove(acked[k], t)
          BY <2>3, <3>4, <5>3, Zenon
        <5>5. acked[i].attempt >= started[t]
          BY <2>1, <3>4, <4>2, <5>1, <5>4, Zenon DEF StartsRecorded
        <5> QED
          BY <2>5, <5>1, <5>2, <5>5
      <4> QED
        BY <2>3, <4>1, <4>2, Zenon
    <3>5. started'[t] > 0 => \E i \in 1..Len(acked') : IsMove(acked'[i], t)
      <4>1. CASE IsMove(r, t)
        BY <2>3, <4>1, Zenon
      <4>2. CASE ~ IsMove(r, t)
        <5>1. started[t] > 0 => \E i \in 1..Len(acked) : IsMove(acked[i], t)
          BY <2>1, Zenon DEF StartsRecorded
        <5> QED
          BY <2>3, <2>5, <4>2, <5>1, Zenon
      <4> QED
        BY <4>1, <4>2
    <3> QED
      BY <3>2, <3>3, <3>4, <3>5, Zenon
  <2>12. StartsRecorded'
    BY <2>2, <2>4, <2>11, Zenon DEF StartsRecorded, IsMove
  <2> QED
    BY <2>6, <2>7, <2>9, <2>10, <2>12
<1> QED
  BY <1>WriteShapes, <1>WritePrograms, <1>WriteRecords, Zenon


-----------------------------------------------------------------------------
(* The crash.                                                              *)

LEMMA WrittenTyped == ASSUME Shapes PROVE \A x \in Written : x \in Record
<1>1. acked \in Seq(Record) /\ tail \in Seq(Fragments(Record))
  BY DEF Shapes, JournalInv, JournalTypeOK
<1>2. \A i \in 1..Len(acked) : acked[i] \in Record
  BY <1>1
<1>3. \A i \in 1..Len(tail) : tail[i] \in Fragments(Record)
  BY <1>1
<1>4. \A i \in 1..Len(tail) : tail[i].rec \in Record
  BY <1>3 DEF Fragments
<1> QED
  BY <1>2, <1>4 DEF Written

LEMMA CrashPreserves == CrashInv /\ Crash => CrashInv'
<1>CrashJournal. ASSUME CrashInv, Crash
                 PROVE  /\ JournalInv(Record)' /\ lines' = lines /\ acked' = acked
                        /\ \/ tail' = tail
                           \/ \E j \in Jobs, r \in Record :
                                 /\ NowDue(j, r)
                                 /\ \A k \in 1..Len(tail') : (k \in 1..Len(tail) /\ tail'[k] = tail[k]) \/ tail'[k].rec = r
  <2>1. Shapes /\ JournalInv(Record) /\ tail \in Seq(Fragments(Record))
    BY <1>CrashJournal, Zenon DEF CrashInv, Shapes, JournalInv, JournalTypeOK
  <2>2. CASE UNCHANGED journalVars
    BY <2>1, <2>2, SameJournalInv DEF journalVars
  <2>3. CASE \E j \in Jobs : todo[j] # <<>> /\ TearRecord(Head(todo[j]))
    <3>1. PICK j \in Jobs : todo[j] # <<>> /\ TearRecord(Head(todo[j]))
      BY <2>3
    <3>2. PICK r : r = todo[j][1]
      OBVIOUS
    <3>3. Head(todo[j]) = r /\ NowDue(j, r)
      BY <1>CrashJournal, <3>1, <3>2, HeadDue, Zenon DEF Crash
    <3>4. r \in Record /\ TearRecord(r)
      BY <3>1, <3>3 DEF NowDue
    <3>5. JournalInv(Record)'
      BY <2>1, <3>4, StepInv DEF JournalNext
    <3>6. PICK whole \in BOOLEAN : tail' = Append(tail, Fragment(r, whole))
      BY <3>4 DEF TearRecord
    <3>7. PICK f : f = Fragment(r, whole)
      OBVIOUS
    <3>8. f.rec = r
      BY <3>7 DEF Fragment
    <3>9. PICK u : u = Append(tail, f)
      BY Zenon
    <3>10. Len(tail) \in Nat /\ Len(u) = Len(tail) + 1 /\ u[Len(tail) + 1] = f
      BY <2>1, <3>9
    <3>11. \A k \in 1..Len(tail) : u[k] = tail[k]
      BY <2>1, <3>9
    <3>12. \A k \in 1..Len(u) : k \in 1..Len(tail) \/ k = Len(tail) + 1
      BY <3>10
    <3>13. \A k \in 1..Len(tail') : (k \in 1..Len(tail) /\ tail'[k] = tail[k]) \/ tail'[k].rec = r
      BY <3>6, <3>7, <3>8, <3>9, <3>10, <3>11, <3>12, Zenon
    <3> QED
      BY <3>3, <3>4, <3>5, <3>13, Zenon DEF TearRecord
  <2> QED
    BY <1>CrashJournal, <2>2, <2>3, Zenon DEF Crash
<1>Preserves. ASSUME CrashInv, Crash PROVE CrashInv'
  <2>1. /\ Shapes /\ GlueSparesMoves /\ PlansSubmitted /\ Budgeted /\ SettledLast
        /\ SettledStaysSettled /\ StartsRecorded
    BY <1>Preserves DEF CrashInv
  <2>2. JournalInv(Record)' /\ lines' = lines /\ acked' = acked
    BY <1>Preserves, <1>CrashJournal
  <2>3. /\ process = "up" /\ process' = "down" /\ crashes' = crashes + 1 /\ crashes \in Nat
        /\ known' = {} /\ running' = {} /\ submitted' = submitted /\ started' = started
    BY <1>Preserves, <2>1, Zenon DEF Crash, Shapes
  <2>4. /\ todo' = [j \in Jobs |-> <<>>] /\ state' = [t \in Tasks |-> "Created"]
        /\ attempt' = [t \in Tasks |-> 0] /\ entry' = [t \in Tasks |-> NoEntry]
        /\ jobStatus' = [j \in Jobs |-> "Planning"]
    BY <1>Preserves DEF Crash
  <2>5. Shapes'
    BY <2>1, <2>2, <2>3, <2>4 DEF Shapes, JobStatuses, TaskStates
  <2>6. Dead'
    BY <2>3, <2>4 DEF Dead
  <2>7. Programs'
    <3>1. ASSUME NEW k \in Jobs PROVE LinedUp(k, todo[k])'
      BY <2>4 DEF LinedUp
    <3>2. \A t \in Tasks : state'[t] \in AtRest
      BY <2>4 DEF AtRest
    <3> QED
      BY <3>1, <3>2 DEF Programs
  <2>8. Fresh' /\ SettledStaysSettled' /\ Mirror'
    BY <2>3 DEF Fresh, SettledStaysSettled, Mirror
  <2>9. GlueSparesMoves'
    BY <2>1, <2>2 DEF GlueSparesMoves
  <2>10. \A k \in 1..Len(tail') :
            \/ k \in 1..Len(tail) /\ tail'[k] = tail[k]
            \/ \E j \in Jobs : NowDue(j, tail'[k].rec)
    BY <1>Preserves, <1>CrashJournal
  <2>11. \A x \in Written' : x \in Written \/ \E j \in Jobs : NowDue(j, x)
    BY <2>2, <2>10 DEF Written
  <2>12. PlansSubmitted'
    BY <2>1, <2>3, <2>11, Zenon DEF PlansSubmitted, NowDue, Due
  <2>13. Budgeted'
    <3>1. \A t \in Tasks : Allowance(t)' = Allowance(t) + 1 /\ Allowance(t) \in Nat /\ Allowance(t) >= 1
      BY <2>1, <2>3, CrashRecoveryAssumption, AllowanceNat DEF Allowance, CrashRecoveryAssumption
    <3>2. ASSUME NEW x \in Written', x.kind = "moved" PROVE x.attempt <= Allowance(x.task)' - 1
      <4>1. x.task \in Tasks /\ x.attempt <= Allowance(x.task)
        <5>1. CASE x \in Written
          <6>1. x \in Record
            BY <2>1, <5>1, WrittenTyped
          <6> QED
            BY <2>1, <2>3, <3>2, <5>1, <6>1, RecordFields, Zenon DEF Budgeted
        <5>2. CASE \E j \in Jobs : NowDue(j, x)
          BY <2>1, <3>2, <5>2, Zenon DEF NowDue, MoveDue, Budgeted
        <5> QED
          BY <2>11, <5>1, <5>2
      <4> QED
        BY <3>1, <4>1
    <3>3. \A t \in Tasks : /\ attempt'[t] <= Allowance(t)' /\ entry'[t] < Allowance(t)'
                           /\ attempt'[t] < Allowance(t)'
      BY <2>4, <3>1 DEF NoEntry
    <3>4. crashes' >= 1
      BY <2>3
    <3> QED
      BY <2>3, <3>2, <3>3, <3>4, Zenon DEF Budgeted
  <2>14. SettledLast'
    <3> SUFFICES ASSUME NEW i \in 1..Len(acked), acked[i].kind = "moved", acked[i].to \in Terminal,
                        NEW k \in 1..Len(tail')
                 PROVE  ~ IsMove(tail'[k].rec, acked[i].task)
      BY <2>1, <2>2, Zenon DEF SettledLast, IsMove
    <3>1. state[acked[i].task] = acked[i].to
      BY <2>1, <2>3 DEF SettledStaysSettled
    <3>2. CASE k \in 1..Len(tail) /\ tail'[k] = tail[k]
      BY <2>1, <3>2 DEF SettledLast
    <3>3. CASE \E j \in Jobs : NowDue(j, tail'[k].rec)
      BY <3>1, <3>3, Zenon DEF NowDue, MoveDue, IsMove
    <3> QED
      BY <2>10, <3>2, <3>3, Zenon
  <2>15. StartsRecorded'
    <3>1. ASSUME NEW t \in Tasks, NEW k \in 1..Len(tail'), IsMove(tail'[k].rec, t)
          PROVE  tail'[k].rec.attempt >= started[t]
      <4>1. CASE k \in 1..Len(tail) /\ tail'[k] = tail[k]
        BY <2>1, <3>1, <4>1, Zenon DEF StartsRecorded
      <4>2. CASE \E j \in Jobs : NowDue(j, tail'[k].rec)
        BY <2>1, <2>3, <3>1, <4>2, Zenon DEF NowDue, MoveDue, IsMove, StartsRecorded
      <4> QED
        BY <2>10, <4>1, <4>2, Zenon
    <3>2. \A t \in Tasks : entry'[t] = NoEntry
      BY <2>4
    <3> QED
      BY <1>Preserves, <2>1, <2>2, <2>3, <3>1, <3>2 DEF StartsRecorded, IsMove
  <2> QED
    BY <2>5, <2>6, <2>7, <2>8, <2>9, <2>12, <2>13, <2>14, <2>15 DEF CrashInv
<1> QED
  BY <1>Preserves

\* A step that changes neither memory nor journal, and brings nobody up.
LEMMA IdleInv ==
  ASSUME CrashInv,
         UNCHANGED <<journalVars, known, jobStatus, running, taskVars, outputVars, todo,
                     submitted, crashes, started>>,
         process' = process \/ (process # "up" /\ process' = "refused")
  PROVE  CrashInv'
<1>1. /\ Shapes /\ Dead /\ Programs /\ Fresh /\ GlueSparesMoves /\ PlansSubmitted
      /\ Budgeted /\ SettledLast /\ SettledStaysSettled /\ StartsRecorded /\ Mirror
  BY DEF CrashInv
<1>2. /\ lines' = lines /\ tail' = tail /\ acked' = acked /\ UNCHANGED journalVars
      /\ state' = state /\ attempt' = attempt /\ entry' = entry /\ todo' = todo
      /\ known' = known /\ jobStatus' = jobStatus /\ running' = running
      /\ submitted' = submitted /\ crashes' = crashes /\ started' = started
      /\ results' = results /\ failures' = failures /\ final' = final
  BY DEF journalVars, taskVars, outputVars
<1>3. (process' = "up" <=> process = "up") /\ process' \in {"up", "down", "refused"}
  BY <1>1 DEF Shapes
<1>4. Shapes'
  BY <1>1, <1>2, <1>3, SameJournalInv, Zenon DEF Shapes
<1>5. Dead' /\ Fresh' /\ GlueSparesMoves' /\ SettledLast' /\ SettledStaysSettled'
  BY <1>1, <1>2, <1>3
  DEF Dead, Fresh, GlueSparesMoves, SettledLast, SettledStaysSettled, IsMove
<1>6. Programs'
  <2>1. ASSUME NEW j \in Jobs PROVE LinedUp(j, todo[j])'
    <3>1. PICK q : q = todo[j]
      OBVIOUS
    <3>2. q \in Seq(Record) /\ LinedUp(j, q) /\ todo'[j] = q
      BY <1>1, <1>2, <3>1, Zenon DEF Shapes, Programs
    <3>3. LinedUp(j, q)'
      BY <1>2, <3>2, StillLinedUp
    <3> QED
      BY <3>2, <3>3, Zenon DEF LinedUp, Due
  <2>2. \A t \in Tasks : (state[t] \in AtRest \/ (todo[JobOf[t]] # <<>> /\ IsMove(todo[JobOf[t]][1], t)))'
    BY <1>1, <1>2, Zenon DEF Programs, IsMove
  <2> QED
    BY <2>1, <2>2, Zenon DEF Programs
<1>7. PlansSubmitted' /\ Budgeted'
  BY <1>1, <1>2, <1>3, SameJournal, Zenon DEF PlansSubmitted, Budgeted, Allowance
<1>8. StartsRecorded'
  BY <1>1, <1>2, <1>3 DEF StartsRecorded, IsMove
<1>9. Mirror'
  BY <1>1, <1>2, <1>3, SameJournal, Zenon DEF Mirror
<1> QED
  BY <1>4, <1>5, <1>6, <1>7, <1>8, <1>9, Zenon DEF CrashInv

-----------------------------------------------------------------------------
(* What replay finds: the last of a kind.                                  *)

LOCAL INSTANCE WellFoundedInduction

\* Sequences have a last element of a kind, because numbers have a least one.
LEMMA LatestIn ==
  ASSUME NEW n \in Nat, NEW at \in SUBSET (1..n), at # {}
  PROVE  Latest(at) \in at /\ \A k \in at : k <= Latest(at)
<1>LeastElement. ASSUME NEW T \in SUBSET Nat, T # {}
                 PROVE  \E x \in T : \A y \in T : x <= y
  <2>1. IsWellFoundedOn({ss \in Nat \X Nat : ss[1] < ss[2]}, Nat)
    BY NatLessThanWellFounded, Zenon DEF OpToRel
  <2>2. PICK R : R = {ss \in Nat \X Nat : ss[1] < ss[2]}
    BY Zenon
  <2>3. PICK x \in T : \A y \in T : ~ (<<y, x>> \in R)
    BY <1>LeastElement, <2>1, <2>2, WFMin, Zenon
  <2>4. \A y \in T : y < x => <<y, x>> \in R
    BY <2>2
  <2>5. x \in Nat /\ \A y \in T : y \in Nat
    OBVIOUS
  <2>6. \A y \in T : ~ (y < x)
    BY <2>3, <2>4, Zenon
  <2> QED
    BY <2>5, <2>6
<1>1. PICK T : T = {n - i : i \in at}
  BY Zenon
<1>2. T \in SUBSET Nat /\ T # {}
  <2>1. \A i \in at : i \in 1..n
    OBVIOUS
  <2>2. \A i \in at : n - i \in Nat
    BY <2>1
  <2>3. T \subseteq Nat
    BY <1>1, <2>2
  <2>4. PICK i : i \in at
    OBVIOUS
  <2>5. n - i \in T
    BY <1>1, <2>4
  <2> QED
    BY <2>3, <2>5
<1>3. PICK x \in T : \A y \in T : x <= y
  BY <1>2, <1>LeastElement
<1>4. PICK i \in at : x = n - i
  BY <1>1, <1>3
<1>5. ASSUME NEW k \in at PROVE k <= i
  <2>1. n - k \in T
    BY <1>1
  <2>2. n - i <= n - k
    BY <1>3, <1>4, <2>1
  <2> QED
    BY <2>2
<1>6. \E m \in at : \A k \in at : k <= m
  BY <1>5
<1> QED
  BY <1>6, Zenon DEF Latest

\* The latest is unique.
LEMMA LatestIs ==
  ASSUME NEW n \in Nat, NEW at \in SUBSET (1..n), NEW i \in at, \A k \in at : k <= i
  PROVE  Latest(at) = i
<1>1. Latest(at) \in at /\ \A k \in at : k <= Latest(at)
  BY LatestIn
<1>2. Latest(at) <= i /\ i <= Latest(at)
  BY <1>1, Zenon
<1>3. Latest(at) \in 1..n /\ i \in 1..n
  BY <1>1, Zenon
<1> QED
  BY <1>2, <1>3

LEMMA CleanNext == JournalInv(Record)' => CleanLogReplays'
<1>1. JournalInv(Record) => CleanLogReplays
  BY InvReplays
<1> QED
  BY <1>1, PTL

\* Writing keeps memory and journal together.
LEMMA MirrorKept ==
  \A k \in Jobs : \A x : CrashInv /\ Wrote(k, x) /\ NowDue(k, x) /\ JournalInv(Record)' => Mirror'
<1>MoveInMore. ASSUME NEW recs \in Seq(Record), NEW r \in Record, NEW t
               PROVE  MoveIn(Append(recs, r), t) = IF IsMove(r, t) THEN r ELSE MoveIn(recs, t)
  <2>1. PICK all : all = Append(recs, r)
    BY Zenon
  <2>2. /\ all \in Seq(Record) /\ Len(recs) \in Nat /\ Len(all) = Len(recs) + 1
        /\ all[Len(all)] = r /\ \A i \in 1..Len(recs) : i \in 1..Len(all) /\ all[i] = recs[i]
        /\ \A i \in 1..Len(all) : i \in 1..Len(recs) \/ i = Len(all)
    BY <2>1, OneMore
  <2>3. CASE IsMove(r, t)
    <3>1. Len(all) \in MovesOf(all, t)
      BY <2>2, <2>3 DEF MovesOf, IsMove
    <3>2. MovesOf(all, t) \in SUBSET (1..Len(all)) /\ Len(all) \in Nat
      BY <2>2 DEF MovesOf
    <3>3. \A k \in MovesOf(all, t) : k <= Len(all)
      BY <3>2
    <3>4. Latest(MovesOf(all, t)) = Len(all)
      BY <3>1, <3>2, <3>3, LatestIs, Zenon
    <3> QED
      BY <2>1, <2>2, <2>3, <3>1, <3>4, Zenon DEF MoveIn
  <2>4. CASE ~ IsMove(r, t)
    <3>1. MovesOf(all, t) = MovesOf(recs, t)
      <4>1. ASSUME NEW i \in MovesOf(all, t) PROVE i \in MovesOf(recs, t)
        BY <2>2, <2>4 DEF MovesOf, IsMove
      <4>2. ASSUME NEW i \in MovesOf(recs, t) PROVE i \in MovesOf(all, t)
        BY <2>2 DEF MovesOf
      <4> QED
        BY <4>1, <4>2, Zenon
    <3>2. CASE MovesOf(recs, t) = {}
      BY <2>1, <2>4, <3>1, <3>2 DEF MoveIn
    <3>3. CASE MovesOf(recs, t) # {}
      <4>1. MovesOf(recs, t) \in SUBSET (1..Len(recs))
        BY DEF MovesOf
      <4>2. Latest(MovesOf(recs, t)) \in 1..Len(recs)
        BY <2>2, <3>3, <4>1, LatestIn, Zenon
      <4>3. all[Latest(MovesOf(recs, t))] = recs[Latest(MovesOf(recs, t))]
        BY <2>2, <4>2
      <4> QED
        BY <2>1, <2>4, <3>1, <3>3, <4>3 DEF MoveIn
    <3> QED
      BY <3>2, <3>3
  <2> QED
    BY <2>3, <2>4
<1>StatusInMore. ASSUME NEW recs \in Seq(Record), NEW r \in Record, NEW j
                 PROVE  StatusIn(Append(recs, r), j)
                           = IF r.kind = "status" /\ r.job = j THEN r.status ELSE StatusIn(recs, j)
  <2>1. PICK all : all = Append(recs, r)
    BY Zenon
  <2>2. /\ all \in Seq(Record) /\ Len(recs) \in Nat /\ Len(all) = Len(recs) + 1
        /\ all[Len(all)] = r /\ \A i \in 1..Len(recs) : i \in 1..Len(all) /\ all[i] = recs[i]
        /\ \A i \in 1..Len(all) : i \in 1..Len(recs) \/ i = Len(all)
    BY <2>1, OneMore
  <2>3. CASE r.kind = "status" /\ r.job = j
    <3>1. Len(all) \in ChangesOf(all, j)
      BY <2>2, <2>3 DEF ChangesOf
    <3>2. ChangesOf(all, j) \in SUBSET (1..Len(all)) /\ Len(all) \in Nat
      BY <2>2 DEF ChangesOf
    <3>3. \A k \in ChangesOf(all, j) : k <= Len(all)
      BY <3>2
    <3>4. Latest(ChangesOf(all, j)) = Len(all)
      BY <3>1, <3>2, <3>3, LatestIs, Zenon
    <3> QED
      BY <2>1, <2>2, <2>3, <3>1, <3>4, Zenon DEF StatusIn
  <2>4. CASE ~ (r.kind = "status" /\ r.job = j)
    <3>1. ChangesOf(all, j) = ChangesOf(recs, j)
      <4>1. ASSUME NEW i \in ChangesOf(all, j) PROVE i \in ChangesOf(recs, j)
        BY <2>2, <2>4 DEF ChangesOf
      <4>2. ASSUME NEW i \in ChangesOf(recs, j) PROVE i \in ChangesOf(all, j)
        BY <2>2 DEF ChangesOf
      <4> QED
        BY <4>1, <4>2, Zenon
    <3>2. CASE ChangesOf(recs, j) = {}
      BY <2>1, <2>4, <3>1, <3>2 DEF StatusIn
    <3>3. CASE ChangesOf(recs, j) # {}
      <4>1. ChangesOf(recs, j) \in SUBSET (1..Len(recs))
        BY DEF ChangesOf
      <4>2. Latest(ChangesOf(recs, j)) \in 1..Len(recs)
        BY <2>2, <3>3, <4>1, LatestIn, Zenon
      <4>3. all[Latest(ChangesOf(recs, j))] = recs[Latest(ChangesOf(recs, j))]
        BY <2>2, <4>2
      <4> QED
        BY <2>1, <2>4, <3>1, <3>3, <4>3, Zenon DEF StatusIn
    <3> QED
      BY <3>2, <3>3
  <2> QED
    BY <2>3, <2>4
<1>OfKindMore. ASSUME NEW recs \in Seq(Record), NEW r \in Record, NEW kind
               PROVE  OfKind(Append(recs, r), kind) = OfKind(recs, kind) \cup (IF r.kind = kind THEN {r} ELSE {})
  <2>1. PICK all : all = Append(recs, r)
    BY Zenon
  <2>2. /\ all \in Seq(Record) /\ Len(recs) \in Nat /\ Len(all) = Len(recs) + 1
        /\ all[Len(all)] = r /\ \A i \in 1..Len(recs) : i \in 1..Len(all) /\ all[i] = recs[i]
        /\ \A i \in 1..Len(all) : i \in 1..Len(recs) \/ i = Len(all)
    BY <2>1, OneMore
  <2>3. Len(all) \in 1..Len(all)
    BY <2>2
  <2>4. ASSUME NEW x \in OfKind(all, kind) PROVE x \in OfKind(recs, kind) \/ (r.kind = kind /\ x = r)
    BY <2>2 DEF OfKind
  <2>5. ASSUME NEW x \in OfKind(recs, kind) PROVE x \in OfKind(all, kind)
    BY <2>2 DEF OfKind
  <2>6. r.kind = kind => r \in OfKind(all, kind)
    BY <2>2, <2>3 DEF OfKind
  <2> QED
    BY <2>1, <2>4, <2>5, <2>6
<1>WriteMirror. ASSUME CrashInv, NEW j \in Jobs, NEW r, Wrote(j, r), NowDue(j, r), JournalInv(Record)'
                PROVE  Mirror'
  <2> SUFFICES ASSUME ~Glued' PROVE Mirror'
    BY DEF Mirror
  <2>1. Shapes /\ Mirror /\ JournalInv(Record)
    BY <1>WriteMirror, Zenon DEF CrashInv, Shapes
  <2>2. r \in Record /\ AppendRecord(r) /\ process = "up" /\ process' = "up" /\ attempt' = attempt
    BY <1>WriteMirror, Zenon DEF Wrote, Taken, Kept, NowDue, MoveDue
  <2>3. /\ lines \in Seq(Seq(Fragments(Record))) /\ tail \in Seq(Fragments(Record))
        /\ acked \in Seq(Record) /\ Len(lines) \in Nat
    BY <2>1 DEF JournalInv, JournalTypeOK
  <2>4. /\ lines' = Append(lines, Append(tail, Fragment(r, TRUE))) /\ tail' = <<>>
        /\ acked' = Append(acked, r)
    BY <2>2 DEF AppendRecord
  <2>5. /\ Len(lines') = Len(lines) + 1 /\ lines'[Len(lines')] = Append(tail, Fragment(r, TRUE))
        /\ \A i \in 1..Len(lines) : i \in 1..Len(lines') /\ lines'[i] = lines[i]
        /\ Len(lines') \in 1..Len(lines')
    BY <2>1, <2>2, NextLines, Zenon
  <2>6. \A i \in 1..Len(lines') : ~ (Len(lines'[i]) > 1)
    BY DEF Glued
  <2>7. tail = <<>>
    <3>1. ~ (Len(Append(tail, Fragment(r, TRUE))) > 1)
      BY <2>5, <2>6
    <3>2. /\ Len(tail) \in Nat /\ Len(Append(tail, Fragment(r, TRUE))) = Len(tail) + 1
          /\ Len(tail) = 0 => tail = <<>>
      BY <2>1, <2>2, NextLines
    <3> QED
      BY <3>1, <3>2
  <2>8. ~Glued
    BY <2>5, <2>6, <2>7 DEF Glued
  <2>9. Replayed = acked
    <3>1. CleanLogReplays
      BY <2>1, InvReplays
    <3>2. {tail[i].rec : i \in 1..Len(tail)} = {}
      BY <2>7
    <3> QED
      BY <2>8, <3>1, <3>2, Zenon DEF CleanLogReplays
  <2>10. Replayed' = Append(Replayed, r)
    <3>2. CleanLogReplays'
      BY <1>WriteMirror, CleanNext
    <3>3. {tail'[i].rec : i \in 1..Len(tail')} = {}
      BY <2>4
    <3>4. Replayed' = acked'
      BY <3>2, <3>3, Zenon DEF CleanLogReplays
    <3> QED
      BY <2>4, <2>9, <3>4
  <2>11. PICK old : old = Replayed
    OBVIOUS
  <2>12. old \in Seq(Record) /\ Replayed' = Append(old, r)
    BY <2>3, <2>9, <2>10, <2>11
  <2>13. /\ OfKind(Replayed', "planned") = OfKind(old, "planned") \cup (IF r.kind = "planned" THEN {r} ELSE {})
         /\ OfKind(Replayed', "result") = OfKind(old, "result") \cup (IF r.kind = "result" THEN {r} ELSE {})
         /\ OfKind(Replayed', "failure") = OfKind(old, "failure") \cup (IF r.kind = "failure" THEN {r} ELSE {})
         /\ OfKind(Replayed', "final") = OfKind(old, "final") \cup (IF r.kind = "final" THEN {r} ELSE {})
    BY <2>2, <2>12, <1>OfKindMore
  <2>14. /\ PlannedJobs = known /\ RestoredResults = results
         /\ RestoredFailures = failures /\ RestoredFinal = final
         /\ \A k \in Jobs : \/ LastStatus(k) = jobStatus[k]
                            \/ jobStatus[k] = "Planning" /\ LastStatus(k) \notin Finished
         /\ \A t \in Tasks :
               /\ \/ LastMove(t).to = state[t]
                  \/ state[t] = "Created" /\ LastMove(t).to \notin Terminal
               /\ LastMove(t).attempt = attempt[t] \/ state[t] \in {"Queued", "RetryScheduled"}
    BY <2>1, <2>2, <2>8, Zenon DEF Mirror
  <2>15. PlannedJobs' = known'
    BY <1>WriteMirror, <2>11, <2>13, <2>14 DEF PlannedJobs, Wrote, JobsWritten
  <2>16. RestoredResults' = results'
    BY <1>WriteMirror, <2>11, <2>13, <2>14 DEF RestoredResults, Wrote, OutputsWritten
  <2>17. RestoredFailures' = failures'
    <3>1. CASE r.kind = "failure"
      <4>1. OfKind(Replayed', "failure") = OfKind(Replayed, "failure") \cup {r}
        BY <2>11, <2>13, <3>1
      <4>2. RestoredFailures' = RestoredFailures \cup {<<r.task, r.attempt, r.dead>>}
        BY <4>1, Zenon DEF RestoredFailures
      <4> QED
        BY <1>WriteMirror, <2>14, <3>1, <4>2, Zenon DEF Wrote, Taken, Kept, JobsWritten, TasksWritten, OutputsWritten
    <3>2. CASE r.kind # "failure"
      <4>1. OfKind(Replayed', "failure") = OfKind(Replayed, "failure")
        BY <2>11, <2>13, <3>2
      <4>2. RestoredFailures' = RestoredFailures
        BY <4>1, Zenon DEF RestoredFailures
      <4> QED
        BY <1>WriteMirror, <2>14, <3>2, <4>2, Zenon DEF Wrote, Taken, Kept, JobsWritten, TasksWritten, OutputsWritten
    <3> QED
      BY <3>1, <3>2
  <2>18. RestoredFinal' = final'
    BY <1>WriteMirror, <2>11, <2>13, <2>14 DEF RestoredFinal, Wrote, OutputsWritten
  <2>19. ASSUME NEW k \in Jobs
         PROVE  \/ LastStatus(k)' = jobStatus'[k]
                \/ jobStatus'[k] = "Planning" /\ LastStatus(k)' \notin Finished
    <3>1. LastStatus(k)' = IF r.kind = "status" /\ r.job = k THEN r.status ELSE LastStatus(k)
      BY <2>2, <2>11, <2>12, <1>StatusInMore DEF LastStatus
    <3>2. jobStatus'[k] = IF r.kind = "status" /\ r.job = k THEN r.status ELSE jobStatus[k]
      BY <1>WriteMirror, <2>1, Zenon DEF Wrote, Taken, JobsWritten, NowDue, Shapes
    <3> QED
      BY <2>14, <3>1, <3>2
  <2>20. ASSUME NEW t \in Tasks
         PROVE  /\ \/ LastMove(t)'.to = state'[t]
                   \/ state'[t] = "Created" /\ LastMove(t)'.to \notin Terminal
                /\ LastMove(t)'.attempt = attempt'[t] \/ state'[t] \in {"Queued", "RetryScheduled"}
    <3>1. LastMove(t)' = IF IsMove(r, t) THEN r ELSE LastMove(t)
      BY <2>2, <2>11, <2>12, <1>MoveInMore DEF LastMove
    <3>2. CASE IsMove(r, t)
      <4>1. state'[t] = r.to /\ r.attempt = attempt'[t] /\ LastMove(t)' = r
        BY <1>WriteMirror, <2>1, <2>2, <3>1, <3>2, Zenon DEF Wrote, Kept, TasksWritten, NowDue, MoveDue, Shapes, IsMove
      <4> QED
        BY <4>1
    <3>3. CASE ~ IsMove(r, t)
      <4>1. state'[t] = state[t] /\ LastMove(t)' = LastMove(t)
        BY <1>WriteMirror, <2>1, <3>1, <3>3, Zenon DEF Wrote, TasksWritten, Shapes, IsMove
      <4> QED
        BY <2>2, <2>14, <4>1, Zenon
    <3> QED
      BY <3>2, <3>3, Zenon
  <2> QED
    BY <2>15, <2>16, <2>17, <2>18, <2>19, <2>20 DEF Mirror
<1> QED
  BY <1>WriteMirror

LEMMA WriteInv == ASSUME CrashInv, NEW j \in Jobs, WriteStep(j) PROVE CrashInv'
<1>1. PICK r : Wrote(j, r) /\ NowDue(j, r)
  BY WriteIs
<1>2. /\ Shapes' /\ Dead' /\ Programs' /\ Fresh' /\ GlueSparesMoves' /\ PlansSubmitted'
      /\ Budgeted' /\ SettledLast' /\ SettledStaysSettled' /\ StartsRecorded'
  BY <1>1, WriteKeeps
<1>3. JournalInv(Record)'
  BY <1>2 DEF Shapes
<1>4. Mirror'
  BY <1>1, <1>3, MirrorKept
<1> QED
  BY <1>2, <1>4 DEF CrashInv

\* The move of a task that replay ends with.
LEMMA MoveInIs ==
  ASSUME NEW recs \in Seq(Record), NEW t \in Tasks
  PROVE  /\ MoveIn(recs, t).to \in TaskStates /\ MoveIn(recs, t).attempt \in Nat
         /\ \/ /\ \A i \in 1..Len(recs) : ~ IsMove(recs[i], t)
               /\ MoveIn(recs, t).attempt = 0 /\ MoveIn(recs, t).to = "Created"
            \/ \E i \in 1..Len(recs) :
                  /\ MoveIn(recs, t) = recs[i] /\ IsMove(recs[i], t)
                  /\ \A k \in (i + 1)..Len(recs) : ~ IsMove(recs[k], t)
<1>1. MovesOf(recs, t) \in SUBSET (1..Len(recs)) /\ Len(recs) \in Nat
  BY DEF MovesOf
<1>2. \A i \in 1..Len(recs) : i \in MovesOf(recs, t) <=> IsMove(recs[i], t)
  BY DEF MovesOf, IsMove
<1>3. CASE MovesOf(recs, t) = {}
  <2>1. MoveIn(recs, t) = Moved(t, "Created", 0)
    BY <1>3 DEF MoveIn
  <2>2. MoveIn(recs, t).attempt = 0 /\ MoveIn(recs, t).to = "Created"
    BY <2>1, MovedRecord DEF TaskStates
  <2> QED
    BY <1>2, <1>3, <2>2 DEF TaskStates
<1>4. CASE MovesOf(recs, t) # {}
  <2>1. PICK i : i = Latest(MovesOf(recs, t))
    OBVIOUS
  <2>2. i \in MovesOf(recs, t) /\ \A k \in MovesOf(recs, t) : k <= i
    BY <1>1, <1>4, <2>1, LatestIn, Zenon
  <2>3. i \in 1..Len(recs) /\ MoveIn(recs, t) = recs[i] /\ IsMove(recs[i], t)
    BY <1>1, <1>2, <1>4, <2>1, <2>2 DEF MoveIn
  <2>4. \A k \in (i + 1)..Len(recs) : k \in 1..Len(recs) /\ ~ (k <= i)
    BY <1>1, <2>3
  <2>5. \A k \in (i + 1)..Len(recs) : ~ IsMove(recs[k], t)
    BY <1>2, <2>2, <2>4
  <2>6. recs[i] \in Record
    BY <2>3
  <2>7. recs[i].to \in TaskStates /\ recs[i].attempt \in Nat
    BY <2>3, <2>6, RecordFields DEF IsMove
  <2> QED
    BY <2>3, <2>5, <2>7, Zenon
<1> QED
  BY <1>3, <1>4, Zenon

LEMMA StatusInIs ==
  ASSUME NEW recs \in Seq(Record), NEW j \in Jobs
  PROVE  StatusIn(recs, j) \in JobStatuses
<1>1. ChangesOf(recs, j) \in SUBSET (1..Len(recs)) /\ Len(recs) \in Nat
  BY DEF ChangesOf
<1>2. CASE ChangesOf(recs, j) = {}
  BY <1>2 DEF StatusIn, JobStatuses
<1>3. CASE ChangesOf(recs, j) # {}
  <2>1. PICK i : i = Latest(ChangesOf(recs, j))
    OBVIOUS
  <2>2. i \in ChangesOf(recs, j)
    BY <1>1, <1>3, <2>1, LatestIn, Zenon
  <2>3. i \in 1..Len(recs) /\ recs[i].kind = "status"
    BY <2>2 DEF ChangesOf
  <2>4. recs[i] \in Record
    BY <2>3
  <2>5. recs[i].status \in JobStatuses
    BY <2>3, <2>4, RecordFields
  <2> QED
    BY <1>3, <2>1, <2>5 DEF StatusIn
<1> QED
  BY <1>2, <1>3

-----------------------------------------------------------------------------
(* Recovery.                                                               *)

\* What a readable journal replays: moves that were acknowledged are never
\* missing, and at most the torn record is added.
Replays(recs) ==
    /\ recs \in Seq(Record)
    /\ \A i \in 1..Len(recs) :
          \/ i \in 1..Len(acked) /\ recs[i] = acked[i]
          \/ i = Len(acked) + 1 /\ \E k \in 1..Len(tail) : recs[i] = tail[k].rec
    /\ \A i \in 1..Len(acked) : acked[i].kind = "moved" => i \in 1..Len(recs)

LEMMA RecoverPreserves == CrashInv /\ Recover => CrashInv'
<1>ReplayShape. ASSUME Shapes, GlueSparesMoves, Readable
                PROVE  Replays(Replayed)
  <2>1. JournalInv(Record) /\ acked \in Seq(Record) /\ Len(acked) \in Nat
    BY <1>ReplayShape DEF Shapes, JournalInv, JournalTypeOK
  <2>2. \/ Replayed = acked
        \/ \E i \in 1..Len(tail) : Replayed = Append(acked, tail[i].rec)
        \/ acked # <<>> /\ Replayed = SubSeq(acked, 1, Len(acked) - 1)
    BY <1>ReplayShape, <2>1, InvReplays DEF LossBounded
  <2>3. CASE Replayed = acked
    BY <2>1, <2>3 DEF Replays
  <2>4. CASE \E i \in 1..Len(tail) : Replayed = Append(acked, tail[i].rec)
    <3>1. PICK k \in 1..Len(tail) : Replayed = Append(acked, tail[k].rec)
      BY <2>4
    <3>2. PICK r : r = tail[k].rec
      OBVIOUS
    <3>3. r \in Record
      BY <1>ReplayShape, <3>2, WrittenTyped DEF Written
    <3>4. PICK all : all = Append(acked, r)
      BY Zenon
    <3>5. /\ all \in Seq(Record) /\ Len(all) = Len(acked) + 1
          /\ all[Len(all)] = r /\ \A i \in 1..Len(acked) : i \in 1..Len(all) /\ all[i] = acked[i]
          /\ \A i \in 1..Len(all) : i \in 1..Len(acked) \/ i = Len(all)
      BY <2>1, <3>3, <3>4, OneMore
    <3>6. Replays(all)
      BY <3>2, <3>5, Zenon DEF Replays
    <3> QED
      BY <3>1, <3>2, <3>4, <3>6
  <2>5. CASE acked # <<>> /\ Replayed = SubSeq(acked, 1, Len(acked) - 1)
    <3>1. PICK s : s = SubSeq(acked, 1, Len(acked) - 1)
      BY Zenon
    <3>2. Len(acked) >= 1
      BY <2>1, <2>5
    <3>3. /\ s \in Seq(Record) /\ Len(s) = Len(acked) - 1
          /\ \A i \in 1..(Len(acked) - 1) : s[i] = acked[i]
      <4>1. PICK n : n = Len(acked) - 1
        OBVIOUS
      <4>2. n \in Nat /\ \A i \in 1..n : i \in 1..Len(acked)
        BY <2>1, <3>2, <4>1
      <4>3. s = [i \in 1..n |-> acked[i]]
        BY <2>1, <3>1, <3>2, <4>1
      <4>4. \A i \in 1..n : acked[i] \in Record
        BY <2>1, <4>2
      <4>5. s \in Seq(Record) /\ Len(s) = n
        BY <4>2, <4>3, <4>4
      <4> QED
        BY <4>1, <4>3, <4>5, Zenon
    <3>4. acked[Len(acked)].kind \in {"planned", "status"}
      <4>1. LastGlued /\ Len(lines) = Len(acked)
        BY <2>1, InvReplays, Zenon DEF JournalInv, LinesEndAcknowledged
      <4>2. Len(Replayed) = Len(acked) - 1
        BY <2>5, <3>1, <3>3
      <4>3. Len(lines[Len(acked)]) > 1
        BY <1>ReplayShape, <2>5, <4>1, <4>2, Zenon DEF LastGlued
      <4>4. Len(acked) \in 1..Len(lines)
        BY <2>1, <3>2, <4>1
      <4> QED
        BY <1>ReplayShape, <4>3, <4>4, Zenon DEF GlueSparesMoves
    <3>5. \A i \in 1..Len(acked) : i \in 1..Len(s) \/ i = Len(acked)
      BY <2>1, <3>3
    <3>6. \A i \in 1..Len(s) : i \in 1..Len(acked) /\ i \in 1..(Len(acked) - 1)
      BY <2>1, <3>3
    <3>7. \A i \in 1..Len(acked) : acked[i].kind = "moved" => i \in 1..Len(s)
      BY <3>4, <3>5
    <3>8. Replays(s)
      BY <3>3, <3>6, <3>7 DEF Replays
    <3> QED
      BY <2>5, <3>1, <3>8
  <2> QED
    BY <2>2, <2>3, <2>4, <2>5
<1>Preserves. ASSUME CrashInv, Recover PROVE CrashInv'
  <2>1. /\ Shapes /\ Dead /\ GlueSparesMoves /\ PlansSubmitted /\ Budgeted /\ SettledLast
        /\ StartsRecorded
    BY <1>Preserves DEF CrashInv
  <2>2. /\ process = "down" /\ Readable /\ process' = "up" /\ UNCHANGED journalVars
        /\ running' = running /\ entry' = entry /\ todo' = todo /\ submitted' = submitted
        /\ crashes' = crashes /\ started' = started /\ known' = PlannedJobs
        /\ jobStatus' = [j \in Jobs |-> RestoredStatus(j)]
        /\ state' = [t \in Tasks |-> RestoredState(t)]
        /\ attempt' = [t \in Tasks |-> RestoredAttempt(t)]
        /\ results' = RestoredResults /\ failures' = RestoredFailures /\ final' = RestoredFinal
    BY <1>Preserves DEF Recover
  <2>3. lines' = lines /\ tail' = tail /\ acked' = acked
    BY <2>2 DEF journalVars
  <2>4. /\ running = {} /\ \A j \in Jobs : todo[j] = <<>>
        /\ \A t \in Tasks : entry[t] = NoEntry
    BY <2>1, <2>2, Zenon DEF Dead
  <2>5. PICK recs : recs = Replayed
    OBVIOUS
  <2>6. Replays(recs)
    BY <2>1, <2>2, <2>5, <1>ReplayShape
  <2>7. /\ recs \in Seq(Record) /\ Len(acked) \in Nat /\ Len(recs) \in Nat
        /\ \A i \in 1..Len(recs) : recs[i] \in Written /\ recs[i] \in Record
    <3>1. acked \in Seq(Record) /\ recs \in Seq(Record)
      BY <2>1, <2>6, Zenon DEF Shapes, JournalInv, JournalTypeOK, Replays
    <3>2. \A i \in 1..Len(recs) : recs[i] \in Written
      BY <2>6, Zenon DEF Replays, Written
    <3> QED
      BY <3>1, <3>2
  <2>8. \A t \in Tasks : LastMove(t) = MoveIn(recs, t) /\ attempt'[t] = MoveIn(recs, t).attempt
    BY <2>2, <2>5 DEF LastMove, RestoredAttempt
  <2>9. \A t \in Tasks :
          state'[t] = IF MoveIn(recs, t).to \in Terminal THEN MoveIn(recs, t).to ELSE "Created"
    BY <2>2, <2>5 DEF RestoredState, LastMove
  <2>10. \A j \in Jobs :
          jobStatus'[j] = IF StatusIn(recs, j) \in Finished THEN StatusIn(recs, j) ELSE "Planning"
    BY <2>2, <2>5 DEF RestoredStatus, LastStatus
  <2>11. Shapes'
    <3>1. state' \in [Tasks -> TaskStates]
      <4>1. \A t \in Tasks : state'[t] \in TaskStates
        BY <2>7, <2>9, MoveInIs, Zenon DEF TaskStates
      <4> QED
        BY <2>2, <4>1
    <3>2. attempt' \in [Tasks -> Nat]
      <4>1. \A t \in Tasks : attempt'[t] \in Nat
        BY <2>7, <2>8, MoveInIs, Zenon
      <4> QED
        BY <2>2, <4>1
    <3>3. jobStatus' \in [Jobs -> JobStatuses]
      <4>1. \A j \in Jobs : jobStatus'[j] \in JobStatuses
        BY <2>7, <2>10, StatusInIs DEF JobStatuses
      <4> QED
        BY <2>2, <4>1
    <3>4. PlannedJobs \subseteq submitted
      BY <2>1, <2>5, <2>7 DEF PlannedJobs, OfKind, PlansSubmitted
    <3>5. JournalInv(Record)'
      BY <2>1, <2>2, SameJournalInv, Zenon DEF Shapes
    <3> QED
      BY <2>1, <2>2, <2>4, <3>1, <3>2, <3>3, <3>4, <3>5 DEF Shapes
  <2>12. Dead'
    BY <2>2 DEF Dead
  <2>13. Programs'
    <3>1. ASSUME NEW k \in Jobs PROVE LinedUp(k, todo[k])'
      <4>1. todo'[k] = <<>> /\ Len(todo'[k]) = 0
        BY <2>2, <2>4
      <4>2. 1..Len(todo'[k]) = {} /\ 1..(Len(todo'[k]) - 1) = {}
        BY <4>1
      <4> QED
        BY <4>1, <4>2, Zenon DEF LinedUp
    <3>2. \A t \in Tasks : state'[t] \in AtRest
      BY <2>9 DEF AtRest, Terminal
    <3> QED
      BY <3>1, <3>2 DEF Programs
  <2>14. Fresh'
    BY <2>2, <2>4, Zenon DEF Fresh
  <2>15. GlueSparesMoves' /\ SettledLast'
    BY <2>1, <2>3, Zenon DEF GlueSparesMoves, SettledLast, IsMove
  <2>16. PlansSubmitted'
    BY <2>1, <2>2, SameJournal, Zenon DEF PlansSubmitted
  <2>17. Budgeted'
    <3>1. Written' = Written /\ \A t : Allowance(t)' = Allowance(t)
      BY <2>2, SameJournal, Zenon DEF Allowance
    <3>2. \A x \in Written : x.kind = "moved" => x.attempt <= Allowance(x.task) - 1
      BY <2>1, <2>2, Zenon DEF Budgeted
    <3>3. ASSUME NEW x \in Written, x.kind = "moved" PROVE x.attempt <= Allowance(x.task)
      <4>1. x.task \in Tasks /\ x.attempt \in Nat
        BY <2>1, <3>3, WrittenTyped, RecordFields
      <4>2. Allowance(x.task) \in Nat
        BY <2>1, <4>1, AllowanceNat
      <4>3. x.attempt <= Allowance(x.task) - 1
        BY <3>2, <3>3
      <4> QED
        BY <4>1, <4>2, <4>3
    <3>4. ASSUME NEW t \in Tasks
          PROVE  attempt'[t] <= Allowance(t) /\ attempt'[t] < Allowance(t) /\ entry'[t] < Allowance(t)
      <4>1. Allowance(t) \in Nat /\ Allowance(t) >= 1 /\ NoEntry < Allowance(t)
        BY <2>1, AllowanceNat
      <4>2. MoveIn(recs, t).attempt \in Nat
        BY <2>7, MoveInIs
      <4>3. MoveIn(recs, t).attempt = 0 \/ \E i \in 1..Len(recs) : MoveIn(recs, t) = recs[i] /\ IsMove(recs[i], t)
        BY <2>7, MoveInIs, Zenon
      <4>4. MoveIn(recs, t).attempt <= Allowance(t) - 1
        BY <2>7, <3>2, <4>1, <4>3 DEF IsMove
      <4> QED
        <5>1. attempt'[t] = MoveIn(recs, t).attempt /\ entry'[t] = NoEntry
          BY <2>2, <2>4, <2>8, Zenon
        <5>2. \A a \in Nat, n \in Nat : a <= n - 1 => a <= n /\ a < n
          OBVIOUS
        <5> QED
          BY <4>1, <4>2, <4>4, <5>1, <5>2, Zenon
    <3> QED
      BY <2>2, <3>1, <3>3, <3>4, Zenon DEF Budgeted
  <2>18. ASSUME NEW t \in Tasks, NEW i \in 1..Len(acked), IsMove(acked[i], t) PROVE i \in 1..Len(recs) /\ recs[i] = acked[i]
    <3>1. i \in 1..Len(recs)
      BY <2>6, <2>18 DEF Replays, IsMove
    <3>2. i # Len(acked) + 1
      BY <2>7
    <3> QED
      BY <2>6, <3>1, <3>2 DEF Replays
  <2>19. SettledStaysSettled'
    <3> SUFFICES ASSUME NEW i \in 1..Len(acked), acked[i].kind = "moved", acked[i].to \in Terminal
                 PROVE  state'[acked[i].task] = acked[i].to
      BY <2>3 DEF SettledStaysSettled
    <3>1. PICK t : t = acked[i].task
      OBVIOUS
    <3>2. acked[i] \in Record
      BY <2>1, WrittenTyped DEF Written
    <3>3. t \in Tasks /\ IsMove(acked[i], t)
      BY <3>1, <3>2, RecordFields DEF IsMove
    <3>4. i \in 1..Len(recs) /\ recs[i] = acked[i] /\ IsMove(recs[i], t)
      BY <2>18, <3>3
    <3>5. \A k \in (i + 1)..Len(recs) : ~ IsMove(recs[k], t)
      <4>1. \A k \in (i + 1)..Len(acked) : ~ IsMove(acked[k], t)
        BY <2>1, <3>1, Zenon DEF SettledLast
      <4>2. \A k \in 1..Len(tail) : ~ IsMove(tail[k].rec, t)
        BY <2>1, <3>1, Zenon DEF SettledLast
      <4>3. ASSUME NEW k \in (i + 1)..Len(recs) PROVE ~ IsMove(recs[k], t)
        <5>1. k \in 1..Len(recs) /\ (k \in 1..Len(acked) => k \in (i + 1)..Len(acked))
          BY <2>7, <3>4
        <5> QED
          BY <2>6, <4>1, <4>2, <5>1, Zenon DEF Replays
      <4> QED
        BY <4>3
    <3>6. MoveIn(recs, t) = recs[i]
      <4>1. PICK m \in 1..Len(recs) : /\ MoveIn(recs, t) = recs[m] /\ IsMove(recs[m], t)
                                      /\ \A k \in (m + 1)..Len(recs) : ~ IsMove(recs[k], t)
        BY <2>7, <3>3, <3>4, MoveInIs, Zenon
      <4>2. ~ (m \in (i + 1)..Len(recs)) /\ ~ (i \in (m + 1)..Len(recs))
        BY <3>4, <3>5, <4>1
      <4>3. m = i
        BY <2>7, <3>4, <4>2
      <4> QED
        BY <4>1, <4>3
    <3> QED
      BY <2>9, <3>1, <3>3, <3>4, <3>6
  <2>20. StartsRecorded'
    <3>1. ASSUME NEW t \in Tasks PROVE attempt'[t] >= started[t]
      <4>1. started[t] \in Nat /\ attempt'[t] = MoveIn(recs, t).attempt /\ MoveIn(recs, t).attempt \in Nat
        BY <2>1, <2>7, <2>8, MoveInIs, Zenon DEF Shapes
      <4>2. CASE /\ \A i \in 1..Len(recs) : ~ IsMove(recs[i], t)
                 /\ MoveIn(recs, t).attempt = 0
        <5>1. \A i \in 1..Len(acked) : ~ IsMove(acked[i], t)
          BY <2>18, <4>2
        <5>2. ~ (started[t] > 0)
          BY <2>1, <5>1, Zenon DEF StartsRecorded
        <5> QED
          BY <4>1, <4>2, <5>2
      <4>3. CASE \E i \in 1..Len(recs) : /\ MoveIn(recs, t) = recs[i] /\ IsMove(recs[i], t)
                                         /\ \A k \in (i + 1)..Len(recs) : ~ IsMove(recs[k], t)
        <5>1. PICK i \in 1..Len(recs) : /\ MoveIn(recs, t) = recs[i] /\ IsMove(recs[i], t)
                                        /\ \A k \in (i + 1)..Len(recs) : ~ IsMove(recs[k], t)
          BY <4>3
        <5>2. CASE i \in 1..Len(acked) /\ recs[i] = acked[i]
          <6>1. ASSUME NEW k \in (i + 1)..Len(acked) PROVE ~ IsMove(acked[k], t)
            <7>1. k \in 1..Len(acked)
              BY <2>7, <5>2
            <7>2. IsMove(acked[k], t) => k \in (i + 1)..Len(recs) /\ recs[k] = acked[k]
              BY <2>7, <2>18, <7>1
            <7> QED
              BY <5>1, <7>2
          <6> QED
            BY <2>1, <4>1, <5>1, <5>2, <6>1, Zenon DEF StartsRecorded
        <5>3. CASE \E k \in 1..Len(tail) : recs[i] = tail[k].rec
          BY <2>1, <4>1, <5>1, <5>3, Zenon DEF StartsRecorded
        <5> QED
          BY <2>6, <5>2, <5>3 DEF Replays
      <4> QED
        BY <2>7, <4>2, <4>3, MoveInIs, Zenon
    <3> QED
      BY <2>1, <2>2, <2>3, <3>1 DEF StartsRecorded, IsMove
  <2>21. Mirror'
    <3>1. /\ PlannedJobs' = known' /\ RestoredResults' = results'
          /\ RestoredFailures' = failures' /\ RestoredFinal' = final'
          /\ \A t : LastMove(t)' = LastMove(t)
          /\ \A j : LastStatus(j)' = LastStatus(j)
      BY <2>2, SameJournal, Zenon
    <3>2. \A j \in Jobs : LastStatus(j) = StatusIn(recs, j)
      BY <2>5 DEF LastStatus
    <3> QED
      BY <2>8, <2>9, <2>10, <3>1, <3>2, Zenon DEF Mirror
  <2> QED
    BY <2>11, <2>12, <2>13, <2>14, <2>15, <2>16, <2>17, <2>19, <2>20, <2>21 DEF CrashInv
<1> QED
  BY <1>Preserves

-----------------------------------------------------------------------------

LEMMA StartInv == Init => CrashInv
<1> SUFFICES ASSUME Init PROVE CrashInv
  OBVIOUS
<1>1. /\ lines = <<>> /\ tail = <<>> /\ acked = <<>> /\ JournalInit
      /\ process = "up" /\ crashes = 0 /\ submitted = {} /\ known = {} /\ running = {}
      /\ jobStatus = [j \in Jobs |-> "Planning"] /\ state = [t \in Tasks |-> "Created"]
      /\ attempt = [t \in Tasks |-> 0] /\ entry = [t \in Tasks |-> NoEntry]
      /\ started = [t \in Tasks |-> 0] /\ todo = [j \in Jobs |-> <<>>]
      /\ results = {} /\ failures = {} /\ final = {}
  BY DEF Init, JournalInit
<1>2. JournalInv(Record)
  BY <1>1, InitInv
<1>3. Shapes
  BY <1>1, <1>2 DEF Shapes, JobStatuses, TaskStates
<1>4. 1..Len(acked) = {} /\ 1..Len(tail) = {} /\ 1..Len(lines) = {} /\ ~ (Len(tail) > 1)
  BY <1>1
<1>5. Dead /\ Fresh /\ GlueSparesMoves /\ PlansSubmitted /\ SettledLast /\ SettledStaysSettled
  BY <1>1, <1>4, Zenon
  DEF Dead, Fresh, GlueSparesMoves, PlansSubmitted, Written, SettledLast, SettledStaysSettled
<1>6. Programs
  <2>1. ASSUME NEW k \in Jobs PROVE LinedUp(k, todo[k])
    BY <1>1 DEF LinedUp
  <2>2. \A t \in Tasks : state[t] \in AtRest
    BY <1>1 DEF AtRest
  <2> QED
    BY <2>1, <2>2 DEF Programs
<1>7. Budgeted
  <2>1. Written = {}
    BY <1>4 DEF Written
  <2>2. ASSUME NEW t \in Tasks
        PROVE  attempt[t] <= Allowance(t) /\ entry[t] < Allowance(t) /\ attempt[t] < Allowance(t)
    BY <1>1, <1>3, AllowanceNat
  <2> QED
    BY <1>1, <2>1, <2>2 DEF Budgeted
<1>8. StartsRecorded
  BY <1>1, <1>4 DEF StartsRecorded
<1>9. Replayed = <<>>
  <2>1. ~Glued
    BY <1>4 DEF Glued
  <2>2. CleanLogReplays
    BY <1>2, InvReplays
  <2>3. {tail[i].rec : i \in 1..Len(tail)} = {}
    BY <1>4
  <2> QED
    BY <1>1, <2>1, <2>2, <2>3 DEF CleanLogReplays
<1>10. PICK recs : recs = <<>>
  OBVIOUS
<1>11. recs \in Seq(Record) /\ Replayed = recs /\ 1..Len(recs) = {}
  BY <1>9, <1>10
<1>12. \A kind : OfKind(recs, kind) = {}
  BY <1>11 DEF OfKind
<1>13. /\ PlannedJobs = {} /\ RestoredResults = {} /\ RestoredFailures = {} /\ RestoredFinal = {}
  BY <1>11, <1>12 DEF PlannedJobs, RestoredResults, RestoredFailures, RestoredFinal
<1>14. \A j \in Jobs : LastStatus(j) = "Planning"
  BY <1>11, Zenon DEF LastStatus, StatusIn, ChangesOf
<1>15. \A t \in Tasks : LastMove(t).to = "Created" /\ LastMove(t).attempt = 0
  BY <1>11, MoveInIs DEF LastMove
<1>16. Mirror
  BY <1>1, <1>13, <1>14, <1>15, Zenon DEF Mirror
<1> QED
  BY <1>3, <1>5, <1>6, <1>7, <1>8, <1>16 DEF CrashInv

LEMMA NextInv == CrashInv /\ [Next]_vars => CrashInv'
<1> SUFFICES ASSUME CrashInv, [Next]_vars PROVE CrashInv'
  OBVIOUS
<1>1. ASSUME NEW j \in Jobs, Submit(j) \/ Cancel(j) \/ EngineStep(j) PROVE CrashInv'
  <2>1. Operation(j) \/ WriteStep(j)
    BY <1>1 DEF Operation, EngineStep
  <2> QED
    BY <2>1, OperationInv, WriteInv
<1>2. CASE Crash
  BY <1>2, CrashPreserves
<1>3. CASE Recover
  BY <1>3, RecoverPreserves
<1>4. CASE Refuse
  BY <1>4, IdleInv DEF Refuse, jobVars
<1>5. CASE UNCHANGED vars
  BY <1>5, IdleInv DEF vars, jobVars, worldVars
<1> QED
  BY <1>1, <1>2, <1>3, <1>4, <1>5 DEF Next

\* The inductive invariant holds.
THEOREM CrashInvariant == Spec => []CrashInv
<1>1. Init => CrashInv
  BY StartInv
<1>2. CrashInv /\ [Next]_vars => CrashInv'
  BY NextInv
<1> QED
  BY <1>1, <1>2, PTL DEF Spec

\* Types, and that no record an engine has lined up asks Job::transition or
\* TaskGraph::transition for an edge it does not have, through any number of
\* crashes.
THEOREM RecoveryTypes == Spec => []TypeOK
<1>1. CrashInv => TypeOK
  <2> SUFFICES ASSUME CrashInv PROVE TypeOK
    OBVIOUS
  <2>1. Shapes /\ Programs
    BY DEF CrashInv
  <2>2. ASSUME NEW j \in Jobs, todo[j] # <<>>
        PROVE  LET r == Head(todo[j])
               IN  /\ r.kind = "status" => LegalPath(JobAllowed, jobStatus[j], <<r.status>>)
                   /\ r.kind = "moved" => LegalPath(TaskAllowed, state[r.task], <<r.to>>)
    <3>1. PICK r : r = todo[j][1]
      OBVIOUS
    <3>2. Head(todo[j]) = r /\ Due(j, r)
      BY <2>1, <2>2, <3>1, TailOf DEF Shapes, Programs, LinedUp
    <3>3. \A allowed, from, to : to \in allowed[from] => LegalPath(allowed, from, <<to>>)
      BY DEF LegalPath
    <3> QED
      BY <3>2, <3>3, Zenon DEF Due
  <2> QED
    BY <2>1, <2>2, Zenon DEF TypeOK, Shapes
<1> QED
  BY <1>1, CrashInvariant, PTL

\* Recovering::build keeps the attempts that were journaled and grants one
\* more to what was in flight: a task's attempts stay within its policy plus
\* one for every crash.
THEOREM RestartsBudgeted == Spec => []RestartBudget
<1>1. CrashInv => RestartBudget
  BY DEF CrashInv, Budgeted, Allowance, RestartBudget
<1> QED
  BY <1>1, CrashInvariant, PTL

\* Once an append that settles a task returned, every coordinator that is up
\* has the task in that state, whatever was torn or glued afterwards.
THEOREM SettledForGood == Spec => []SettledStaysSettled
<1>1. CrashInv => SettledStaysSettled
  BY DEF CrashInv
<1> QED
  BY <1>1, CrashInvariant, PTL

\* As long as no append was glued to a torn one, a crash at any moment would
\* bring back what the coordinator holds.
THEOREM MirrorsAlways == Spec => []JournalMirrorsMemory
<1>1. CrashInv => JournalMirrorsMemory
  <2> SUFFICES ASSUME CrashInv, process = "up", ~Glued
               PROVE  /\ Readable
                      /\ PlannedJobs = known /\ RestoredResults = results
                      /\ RestoredFailures = failures /\ RestoredFinal = final
                      /\ \A j \in known : jobStatus[j] \in Finished <=> RestoredStatus(j) \in Finished
                      /\ \A t \in Tasks :
                          /\ state[t] \in Terminal \/ RestoredState(t) \in Terminal
                                  => RestoredState(t) = state[t]
                          /\ state[t] \notin {"Queued", "RetryScheduled"} => RestoredAttempt(t) = attempt[t]
    BY DEF JournalMirrorsMemory
  <2>1. Shapes /\ Mirror
    BY DEF CrashInv
  <2>2. Readable
    BY <2>1, InvReplays DEF Shapes, CleanLogReplays
  <2>3. \A j \in known : j \in Jobs
    BY <2>1 DEF Shapes
  <2>4. ASSUME NEW j \in known PROVE jobStatus[j] \in Finished <=> RestoredStatus(j) \in Finished
    BY <2>1, <2>3, Zenon DEF Mirror, RestoredStatus, Finished
  <2>5. ASSUME NEW t \in Tasks
        PROVE  /\ state[t] \in Terminal \/ RestoredState(t) \in Terminal => RestoredState(t) = state[t]
               /\ state[t] \notin {"Queued", "RetryScheduled"} => RestoredAttempt(t) = attempt[t]
    BY <2>1, Zenon DEF Mirror, RestoredState, RestoredAttempt, Terminal
  <2> QED
    BY <2>1, <2>2, <2>4, <2>5, Zenon DEF Mirror
<1> QED
  BY <1>1, CrashInvariant, PTL

\* A task that starts, starts under an attempt higher than any it started
\* under before, in this process or an earlier one.
THEOREM AttemptsOnlyAdvance == Spec => AttemptsAdvance
<1>1. CrashInv /\ [Next]_vars =>
        [\A t \in Tasks : state'[t] = "Running" /\ state[t] # "Running" => attempt[t] > started[t]]_vars
  <2> SUFFICES ASSUME CrashInv, Next, NEW t \in Tasks, state'[t] = "Running", state[t] # "Running"
               PROVE  attempt[t] > started[t]
    OBVIOUS
  <2>1. ASSUME NEW j \in Jobs, WriteStep(j) PROVE attempt[t] > started[t]
    <3>1. PICK r : Wrote(j, r) /\ NowDue(j, r)
      BY <2>1, WriteIs
    <3>2. Shapes /\ LinedUp(j, todo[j])
      BY DEF CrashInv, Programs
    <3>3. r.kind = "moved" /\ r.task = t /\ r.to = "Running"
      BY <3>1, <3>2, Zenon DEF Wrote, Taken, Kept, JobsWritten, TasksWritten, OutputsWritten, Shapes
    <3>4. r = todo[j][1] /\ 1 \in 1..Len(todo[j])
      BY <3>1, <3>2 DEF Wrote, Taken, Shapes
    <3> QED
      BY <3>2, <3>3, <3>4, Zenon DEF LinedUp
  <2>2. ASSUME NEW j \in Jobs,
               \/ Submit(j) \/ Cancel(j) \/ Run(j) \/ Finish(j)
               \/ \E u \in Owned(j) : Promote(u) \/ Lease(u) \/ Strand(u) \/ Abandon(u)
               \/ \E u \in Owned(j), outcome \in Outcomes : ApplyOutcome(u, outcome)
        PROVE  state' = state
    BY <2>2, Zenon DEF Submit, Cancel, Run, Finish, Promote, Lease, Strand, Abandon, ApplyOutcome, taskVars
  <2>3. Crash \/ Recover => state'[t] # "Running"
    BY Zenon DEF Crash, Recover, RestoredState, Terminal
  <2>4. Refuse => state' = state
    BY DEF Refuse, taskVars
  <2> QED
    BY <2>1, <2>2, <2>3, <2>4, Zenon DEF Next, EngineStep
<1> QED
  BY <1>1, CrashInvariant, PTL DEF Spec, AttemptsAdvance
=============================================================================
