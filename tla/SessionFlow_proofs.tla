------------------------- MODULE SessionFlow_proofs -------------------------
(***************************************************************************)
(* Which session a run resumes, for any runs, commands, sessions, places   *)
(* and any number of failing writes and restarts.                          *)
(***************************************************************************)
EXTENDS SessionFlow, TLAPS

\* What each command carries along, step by step.
CmdSteps == {"start", "setCWD", "interrupt", "interruptOwn", "archive", "clear", "clearIdle",
             "consume", "upsert", "set", "done"}
CmdKinds == {"none", "new", "cd", "resume"}
CmdRecords == [kind : CmdKinds, at : CmdSteps, place : Places \cup {None}, arg : Sids \cup Dirs \cup {None}]
CmdFits(v) ==
  /\ v.kind = "cd" /\ v.at = "setCWD" => v.arg \in Dirs
  /\ v.kind \in {"new", "cd"} /\ v.at \in {"setCWD", "interrupt", "archive"} => v.place \in Places
  /\ v.kind = "resume" /\ v.at # "done" => v.place \in Places /\ v.arg \in Sids
CmdOK ==
  /\ cmd \in [Commands -> CmdRecords]
  /\ \A c \in Commands : CmdFits(cmd[c])

\* A run that began has a place; it resumes nothing before it has looked; a
\* recorder has something to record.
RunOK ==
  /\ \A r \in Runs : run[r] # "new" => place[r] \in Places
  /\ \A r \in Runs : run[r] = "new" => announced[r] = None /\ recorder[r] = "none"
  /\ \A r \in Runs : run[r] \in {"new", "catalog", "store"} => resumed[r] = None
  /\ \A r \in Runs : recorder[r] \in {"set", "upsert"} => announced[r] \in Sids

TypeInv == TypeOK /\ CmdOK /\ RunOK

\* Failing writes and restarts are counted, and failing writes never undone.
Counted == faults \in Nat /\ restarts \in Nat /\ faults + restarts <= MaxTrouble
CountedOn == faults' \in Nat /\ faults' + restarts <= MaxTrouble /\ (faults' = 0 => faults = 0)

\* What a write does, whether or not the file takes it.
LEMMA Cleared ==
  ASSUME Counted, ClearSession
  PROVE  /\ store' = Empty /\ storeFile' \in {storeFile, Empty} /\ CountedOn
         /\ faults' = 0 /\ storeFile = store => storeFile' = Empty
  <1>1. CASE StoreBecomes(Empty)
    BY <1>1, FlowAssumption DEF Counted, CountedOn, StoreBecomes, Persist
  <1>2. CASE store = Empty /\ UNCHANGED <<storeVars, faults>>
    BY <1>2 DEF storeVars, Counted, CountedOn
  <1>3. QED
    BY <1>1, <1>2 DEF ClearSession

LEMMA EmptyIsEntry == Empty \in StoreEntries
  BY DEF Empty, StoreEntries

LEMMA CmdChanges ==
  ASSUME CmdOK, NEW c \in Commands, NEW v \in CmdRecords, CmdFits(v), cmd' = [cmd EXCEPT ![c] = v]
  PROVE  CmdOK'
  BY DEF CmdOK, CmdFits, CmdRecords, CmdKinds, CmdSteps

\* A command that goes to a later step keeps its place and argument.
LEMMA CmdGoes ==
  ASSUME CmdOK, NEW c \in Commands, NEW to \in CmdSteps, cmd' = [cmd EXCEPT ![c] = At(c, to)],
         cmd[c].kind = "resume" => cmd[c].at # "done",
         cmd[c].kind \in {"new", "cd"} =>
           to # "setCWD" /\ (to \in {"interrupt", "archive"} => cmd[c].place \in Places)
  PROVE  CmdOK'
  <1> cmd[c] \in CmdRecords /\ CmdFits(cmd[c])
    BY DEF CmdOK
  <1>1. At(c, to) \in CmdRecords
    BY DEF At, Done, Idle, CmdRecords, CmdKinds, CmdSteps
  <1>2. CmdFits(At(c, to))
    BY DEF At, Done, Idle, CmdRecords, CmdKinds, CmdSteps, CmdFits
  <1>3. QED
    BY <1>1, <1>2, CmdChanges

LEMMA CmdInit == cmd = [c \in Commands |-> Idle] => CmdOK
  BY DEF CmdOK, CmdFits, CmdRecords, CmdKinds, CmdSteps, Idle

THEOREM TypeInit == Init => TypeInv
  <1> SUFFICES ASSUME Init PROVE TypeInv
    OBVIOUS
  <1>1. TypeOK
    BY FlowAssumption, EmptyIsEntry DEF Init, TypeOK, Entries
  <1>2. CmdOK /\ RunOK
    BY CmdInit DEF Init, RunOK
  <1>3. QED
    BY <1>1, <1>2 DEF TypeInv

\* Each step of a run keeps the types; its commands do not move.
LEMMA TypeRun ==
  ASSUME TypeInv, NEW r \in Runs, RunStep(r)
  PROVE  TypeInv'
  <1>1. CASE RunStart(r)
    BY <1>1 DEF RunStart, RunGoes, Places, CmdOK, TypeInv, TypeOK, RunOK, Counted, CountedOn, storeVars, catalogVars, runVars, history
  <1>2. CASE LookCatalog(r)
    <2>1. place[r] \in Places /\ catalog[place[r]] \in Entries
      BY <1>2 DEF LookCatalog, TypeInv, TypeOK, RunOK
    <2>2. ActiveFor(place[r]) \in Sids \cup {None}
      BY <2>1 DEF ActiveFor, Entries, Absent
    <2>3. QED
      BY <1>2, <2>2 DEF LookCatalog, RunGoes, CmdOK, TypeInv, TypeOK, RunOK, Counted, CountedOn, storeVars, catalogVars, runVars, history
  <1>3. CASE LookStore(r)
    <2>1. ResumeFor(place[r][1]) \in Sids \cup {None}
      BY DEF ResumeFor, StoreEntries, TypeInv, TypeOK
    <2>2. QED
      BY <1>3, <2>1 DEF LookStore, RunGoes, CmdOK, TypeInv, TypeOK, RunOK, Counted, CountedOn, storeVars, catalogVars, runVars, history
  <1>4. CASE LookStale(r)
    BY <1>4 DEF LookStale, RunGoes, CmdOK, TypeInv, TypeOK, RunOK, Counted, CountedOn, storeVars, catalogVars, runVars, history
  <1>5. CASE ClearStale(r)
    <2>1. /\ {store', storeFile'} \subseteq StoreEntries
          /\ CountedOn
      BY <1>5, Cleared, EmptyIsEntry DEF ClearStale, TypeInv, TypeOK, Counted
    <2>2. QED
      BY <1>5, <2>1 DEF ClearStale, RunGoes, CmdOK, TypeInv, TypeOK, RunOK, Counted, CountedOn, storeVars, catalogVars, runVars, history
  <1>6. CASE Submit(r)
    BY <1>6 DEF Submit, RunGoes, CmdOK, TypeInv, TypeOK, RunOK, Counted, CountedOn, storeVars, catalogVars, runVars, history
  <1>7. CASE Announce(r)
    BY <1>7, FlowAssumption DEF Announce, CmdOK, TypeInv, TypeOK, RunOK, Counted, CountedOn, storeVars, catalogVars, runVars, history
  <1>8. CASE RunEnds(r)
    BY <1>8 DEF RunEnds, RunGoes, CmdOK, TypeInv, TypeOK, RunOK, Counted, CountedOn, storeVars, catalogVars, runVars, history
  <1>9. CASE RecordSet(r)
    <2>1. announced[r] \in Sids /\ place[r] \in Places
      BY <1>9 DEF RecordSet, TypeInv, TypeOK, RunOK
    <2>2. [sid |-> announced[r], dir |-> place[r][1]] \in StoreEntries
      BY <2>1, FlowAssumption DEF StoreEntries, Places
    <2>3. /\ {store', storeFile'} \subseteq StoreEntries
          /\ CountedOn
      BY FlowAssumption, <1>9, <2>2 DEF RecordSet, SetSession, TypeInv, TypeOK, Counted, CountedOn, StoreBecomes, Persist
    <2>4. QED
      BY <1>9, <2>1, <2>3 DEF RecordSet, Recorded, CmdOK, TypeInv, TypeOK, RunOK, Counted, CountedOn, storeVars, catalogVars, runVars, history
  <1>10. CASE RecordUpsert(r)
    <2>1. announced[r] \in Sids /\ place[r] \in Places
      BY <1>10 DEF RecordUpsert, TypeInv, TypeOK, RunOK
    <2>2. /\ {catalog', catalogFile'} \subseteq [Places -> Entries]
          /\ CountedOn
      BY FlowAssumption, <1>10, <2>1 DEF RecordUpsert, UpsertActive, TypeInv, TypeOK, Counted, Entries, CountedOn, CatalogBecomes, Persist
    <2>3. QED
      BY <1>10, <2>1, <2>2 DEF RecordUpsert, Recorded, CmdOK, TypeInv, TypeOK, RunOK, Counted, CountedOn, storeVars, catalogVars, runVars, history
  <1>11. QED
    BY <1>1, <1>2, <1>3, <1>4, <1>5, <1>6, <1>7, <1>8, <1>9, <1>10 DEF RunStep

LEMMA TypeCommand ==
  ASSUME TypeInv, NEW c \in Commands, CommandStep(c)
  PROVE  TypeInv'
  <1>0. cmd[c] \in CmdRecords /\ CmdFits(cmd[c]) /\ CmdOK
    BY DEF TypeInv, CmdOK
  <1>1. CASE CommandCall(c)
    <2>1. CmdOK'
      BY <1>0, <1>1, CmdChanges DEF CommandCall, CmdFits, CmdRecords, CmdKinds, CmdSteps, TypeInv, TypeOK, Places
    <2>2. QED
      BY <1>1, <2>1 DEF CommandCall, TypeInv, TypeOK, RunOK, Counted, CountedOn, storeVars, catalogVars, runVars, history
  <1>2. CASE SetCWD(c)
    <2>1. CmdOK'
      BY <1>0, <1>2, CmdGoes DEF SetCWD, Goes, CmdFits, CmdSteps
    <2>2. cmd[c].arg \in Dirs
      BY <1>0, <1>2 DEF SetCWD, Goes, CmdFits
    <2>3. QED
      BY <1>2, <2>1, <2>2, FlowAssumption DEF SetCWD, TypeInv, TypeOK, RunOK, Counted, CountedOn, storeVars, catalogVars, runVars, history
  <1>3. CASE InterruptRun(c)
    <2>1. CmdOK'
      BY <1>0, <1>3, CmdGoes DEF InterruptRun, Goes, CmdFits, CmdSteps
    <2>2. QED
      BY <1>3, <2>1 DEF InterruptRun, TypeInv, TypeOK, RunOK, Counted, CountedOn, storeVars, catalogVars, runVars, history
  <1>4. CASE ArchiveCurrent(c)
    <2>1. cmd[c].place \in Places
      BY <1>0, <1>4 DEF ArchiveCurrent, CmdFits
    <2>2. CASE /\ cmd' = [cmd EXCEPT ![c].at = "clear", ![c].place = None]
               /\ UNCHANGED <<catalogVars, faults, history>>
      <3>1. [cmd[c] EXCEPT !.at = "clear", !.place = None] \in CmdRecords
        BY <1>0 DEF CmdRecords, CmdSteps
      <3>2. CmdOK'
        BY <1>0, <1>4, <2>2, <3>1, CmdChanges DEF ArchiveCurrent, CmdFits, CmdRecords, CmdOK
      <3>3. QED
        BY <1>4, <2>2, <3>2 DEF ArchiveCurrent, TypeInv, TypeOK, RunOK, Counted, CountedOn, storeVars, catalogVars, runVars, history
    <2>3. CASE LET p == <<cwd, cmd[c].place[2]>> IN
                 /\ ArchiveActive(p)
                 /\ cmd' = [cmd EXCEPT ![c].at = "clear", ![c].place = p]
                 /\ left' = [left EXCEPT ![p] = {announced[r] : r \in Runs} \ {None}]
                 /\ revived' = {x \in revived : x[1] # p}
                 /\ last' = [last EXCEPT ![p] = None]
      <3> DEFINE p == <<cwd, cmd[c].place[2]>>
      <3>1. p \in Places
        BY <2>1 DEF Places, TypeInv, TypeOK
      <3>2. [cmd[c] EXCEPT !.at = "clear", !.place = p] \in CmdRecords
        BY <1>0, <3>1 DEF CmdRecords, CmdSteps
      <3>3. CmdOK'
        BY <1>0, <1>4, <2>3, <3>2, CmdChanges DEF ArchiveCurrent, CmdFits, CmdRecords, CmdOK
      <3>4. {announced[r] : r \in Runs} \ {None} \subseteq Sids
        BY DEF TypeInv, TypeOK
      <3>5. left' \in [Places -> SUBSET Sids] /\ last' \in [Places -> Sids \cup {None}]
        BY <2>3, <3>1, <3>4 DEF TypeInv, TypeOK
      <3>6. {catalog', catalogFile'} \subseteq [Places -> Entries] /\ CountedOn
        <4>1. CASE catalog[p].status = "active" /\ CatalogBecomes([catalog EXCEPT ![p].status = "archived"])
          <5>1. catalog[p] \in Entries
            BY <3>1 DEF TypeInv, TypeOK
          <5>2. [catalog[p] EXCEPT !.status = "archived"] \in Entries
            BY <4>1, <5>1 DEF Entries, Absent
          <5>3. [catalog EXCEPT ![p].status = "archived"] \in [Places -> Entries]
            BY <3>1, <5>2 DEF TypeInv, TypeOK
          <5>4. /\ catalog' = [catalog EXCEPT ![p].status = "archived"] /\ CountedOn
                /\ catalogFile' \in {catalogFile, [catalog EXCEPT ![p].status = "archived"]}
            BY <4>1, FlowAssumption DEF CatalogBecomes, Persist, CountedOn, TypeInv, TypeOK
          <5>5. QED
            BY <5>3, <5>4 DEF TypeInv, TypeOK
        <4>2. CASE catalog[p].status # "active" /\ UNCHANGED <<catalogVars, faults>>
          BY <4>2 DEF catalogVars, TypeInv, TypeOK, CountedOn
        <4>3. QED
          BY <2>3, <4>1, <4>2 DEF ArchiveActive
      <3>7. QED
        BY <1>4, <2>3, <3>3, <3>5, <3>6 DEF ArchiveCurrent, TypeInv, TypeOK, RunOK, Counted, CountedOn, storeVars, catalogVars, runVars, history
    <2>4. QED
      BY <1>4, <2>2, <2>3 DEF ArchiveCurrent
  <1>5. CASE ClearCurrent(c)
    <2>1. CmdOK'
      BY <1>0, <1>5, CmdGoes DEF ClearCurrent, Goes, CmdFits, CmdSteps
    <2>2. QED
      BY <1>5, <2>1, Cleared, EmptyIsEntry DEF ClearCurrent, TypeInv, TypeOK, RunOK, Counted, CountedOn, storeVars, catalogVars, runVars, history
  <1>6. CASE ClearIdle(c)
    <2>1. CmdOK'
      BY <1>0, <1>6, CmdGoes DEF ClearIdle, Goes, CmdFits, CmdSteps
    <2>2. QED
      BY FlowAssumption, <1>6, <2>1 DEF ClearIdle, TypeInv, TypeOK, RunOK, Counted, CountedOn, storeVars, catalogVars, runVars, history, StoreBecomes, Persist
  <1>7. CASE ResumeConsume(c)
    <2>1. CmdOK'
      BY <1>0, <1>7, CmdGoes DEF ResumeConsume, CmdFits, CmdSteps
    <2>2. QED
      BY <1>7, <2>1 DEF ResumeConsume, TypeInv, TypeOK, RunOK, Counted, CountedOn, storeVars, catalogVars, runVars, history
  <1>8. CASE ResumeUpsert(c)
    <2>1. CmdOK'
      BY <1>0, <1>8, CmdGoes DEF ResumeUpsert, CmdFits, CmdSteps
    <2>2. cmd[c].place \in Places /\ cmd[c].arg \in Sids
      BY <1>0, <1>8 DEF ResumeUpsert, CmdFits
    <2>3. /\ {catalog', catalogFile'} \subseteq [Places -> Entries]
          /\ CountedOn
      BY FlowAssumption, <1>8, <2>2 DEF ResumeUpsert, UpsertActive, TypeInv, TypeOK, Counted, Entries, CountedOn, CatalogBecomes, Persist
    <2>4. QED
      BY <1>8, <2>1, <2>2, <2>3 DEF ResumeUpsert, Chosen, TypeInv, TypeOK, RunOK, Counted, CountedOn, storeVars, catalogVars, runVars, history
  <1>9. CASE ResumeSet(c)
    <2>1. CmdOK'
      BY <1>0, <1>9, CmdGoes DEF ResumeSet, Goes, CmdFits, CmdSteps
    <2>2. cmd[c].place \in Places /\ cmd[c].arg \in Sids
      BY <1>0, <1>9 DEF ResumeSet, Goes, CmdFits
    <2>3. [sid |-> cmd[c].arg, dir |-> cmd[c].place[1]] \in StoreEntries
      BY <2>2, FlowAssumption DEF StoreEntries, Places
    <2>4. QED
      BY FlowAssumption, <1>9, <2>1, <2>2, <2>3 DEF ResumeSet, SetSession, Chosen, TypeInv, TypeOK, RunOK, Counted, CountedOn, storeVars, catalogVars, runVars, history, StoreBecomes, Persist
  <1>10. QED
    BY <1>1, <1>2, <1>3, <1>4, <1>5, <1>6, <1>7, <1>8, <1>9 DEF CommandStep

LEMMA TypeStep == TypeInv /\ [Next]_vars => TypeInv'
  <1> SUFFICES ASSUME TypeInv, [Next]_vars PROVE TypeInv'
    OBVIOUS
  <1>1. CASE ResumeList
    BY <1>1 DEF ResumeList, CmdOK, Places, TypeInv, TypeOK, RunOK, Counted, CountedOn, storeVars, catalogVars, runVars, history
  <1>2. CASE CandidateExpires
    BY <1>2 DEF CandidateExpires, CmdOK, TypeInv, TypeOK, RunOK, Counted, CountedOn, storeVars, catalogVars, runVars, history
  <1>3. CASE Timeout
    BY FlowAssumption, <1>3 DEF Timeout, CmdOK, TypeInv, TypeOK, RunOK, Counted, CountedOn, storeVars, catalogVars, runVars, history, StoreBecomes, Persist
  <1>4. CASE Reconfigure
    BY <1>4 DEF Reconfigure, CmdOK, TypeInv, TypeOK, RunOK, Counted, CountedOn, storeVars, catalogVars, runVars, history
  <1>5. CASE Restart
    <2>1. CmdOK'
      BY <1>5 DEF Restart, CmdOK, CmdFits, CmdRecords, CmdKinds, CmdSteps, Idle, Done, TypeInv
    <2>2. QED
      BY <1>5, <2>1, FlowAssumption DEF Restart, TypeInv, TypeOK, RunOK, Counted, CountedOn, storeVars, catalogVars, runVars, history
  <1>6. CASE UNCHANGED vars
    BY <1>6 DEF vars, CmdOK, TypeInv, TypeOK, RunOK, Counted, CountedOn, storeVars, catalogVars, runVars, history
  <1>7. QED
    BY <1>1, <1>2, <1>3, <1>4, <1>5, <1>6, TypeRun, TypeCommand DEF Next

\* TypeOK, and what commands and runs carry along, hold in every state.
THEOREM FlowTypes == Spec => []TypeInv
  BY TypeInit, TypeStep, PTL DEF Spec
-----------------------------------------------------------------------------
\* Session s worked in directory d.
Worked(s, d) == \E q \in Runs : announced[q] = s /\ place[q] \in Places /\ place[q][1] = d

\* Whatever names a session beside a directory names one that worked there:
\* the two files and their copies, the candidates, the commands, the runs.
StoreWorked == \A s \in Sids, d \in Dirs : [sid |-> s, dir |-> d] \in {store, storeFile} => Worked(s, d)
CatalogWorked == \A p \in Places, s \in Sids : s \in {catalog[p].sid, catalogFile[p].sid} => Worked(s, p[1])
OffersWorked == \A p \in Places, s \in Sids : <<p, s>> \in candidates => Worked(s, p[1])
Carries(v, p, s) == v.kind = "resume" /\ v.at \in {"interrupt", "upsert", "interruptOwn", "set"} /\ v.place = p /\ v.arg = s
CommandsWorked == \A c \in Commands, p \in Places, s \in Sids : Carries(cmd[c], p, s) => Worked(s, p[1])
RunsWorked == \A r \in Runs, p \in Places, s \in Sids : resumed[r] = s /\ place[r] = p => Worked(s, p[1])
WorkedInv == StoreWorked /\ CatalogWorked /\ OffersWorked /\ CommandsWorked /\ RunsWorked

\* A run announces once, after its place is settled, so what worked has worked.
LEMMA WorkedStays ==
  ASSUME TypeInv, [Next]_vars, NEW s \in Sids, NEW d, Worked(s, d)
  PROVE  Worked(s, d)'
  <1> PICK q \in Runs : announced[q] = s /\ place[q] \in Places /\ place[q][1] = d
    BY DEF Worked
  <1> SUFFICES announced'[q] = announced[q] /\ place'[q] = place[q]
    BY DEF Worked
  <1> announced[q] # None /\ run[q] # "new" /\ announced \in [Runs -> Sids \cup {None}] /\ place \in [Runs -> Places \cup {None}]
    BY FlowAssumption DEF TypeInv, TypeOK, RunOK
  <1>1. ASSUME NEW r \in Runs, RunStep(r) PROVE announced'[q] = announced[q] /\ place'[q] = place[q]
    <2>1. CASE RunStart(r) BY <2>1 DEF RunStart, RunGoes
    <2>2. CASE Announce(r) BY <2>2 DEF Announce
    <2>3. CASE ~RunStart(r) /\ ~Announce(r)
      BY <1>1, <2>3 DEF RunStep, LookCatalog, LookStore, LookStale, ClearStale, Submit, RunEnds, RecordSet, RecordUpsert, runVars
    <2>4. QED BY <2>1, <2>2, <2>3
  <1>2. ASSUME NEW c \in Commands, CommandStep(c) PROVE announced' = announced /\ place' = place
    BY <1>2 DEF CommandStep, CommandCall, SetCWD, InterruptRun, ArchiveCurrent, ClearCurrent, ClearIdle,
                ResumeConsume, ResumeUpsert, ResumeSet, runVars
  <1>3. CASE ResumeList \/ CandidateExpires \/ Timeout \/ Reconfigure \/ Restart \/ UNCHANGED vars
    BY <1>3 DEF ResumeList, CandidateExpires, Timeout, Reconfigure, Restart, vars, runVars
  <1>4. QED
    BY <1>1, <1>2, <1>3 DEF Next

\* What a step leaves alone stays true of it.
LEMMA WorkedFrame ==
  ASSUME TypeInv, [Next]_vars, WorkedInv
  PROVE  /\ {store', storeFile'} \subseteq {store, storeFile, Empty} => StoreWorked'
         /\ {catalog', catalogFile'} \subseteq {catalog, catalogFile} => CatalogWorked'
         /\ candidates' \subseteq candidates => OffersWorked'
         /\ cmd' = cmd => CommandsWorked'
         /\ resumed' = resumed /\ place' = place => RunsWorked'
  <1>1. ASSUME {store', storeFile'} \subseteq {store, storeFile, Empty} PROVE StoreWorked'
    <2> SUFFICES ASSUME NEW s \in Sids, NEW d \in Dirs, [sid |-> s, dir |-> d] \in {store', storeFile'}
                 PROVE  Worked(s, d)'
      BY DEF StoreWorked
    <2>1. [sid |-> s, dir |-> d] # Empty
      BY FlowAssumption DEF Empty
    <2>2. QED
      BY <1>1, <2>1, WorkedStays DEF WorkedInv, StoreWorked
  <1>2. ASSUME {catalog', catalogFile'} \subseteq {catalog, catalogFile} PROVE CatalogWorked'
    BY <1>2, WorkedStays DEF WorkedInv, CatalogWorked
  <1>3. ASSUME candidates' \subseteq candidates PROVE OffersWorked'
    BY <1>3, WorkedStays DEF WorkedInv, OffersWorked
  <1>4. ASSUME cmd' = cmd PROVE CommandsWorked'
    BY <1>4, WorkedStays DEF WorkedInv, CommandsWorked
  <1>5. ASSUME resumed' = resumed, place' = place PROVE RunsWorked'
    BY <1>5, WorkedStays DEF WorkedInv, RunsWorked
  <1>6. QED
    BY <1>1, <1>2, <1>3, <1>4, <1>5

LEMMA WorkedRun ==
  ASSUME TypeInv, WorkedInv, NEW r \in Runs, RunStep(r), [Next]_vars
  PROVE  WorkedInv'
  <1>0. CommandsWorked' /\ OffersWorked'
    <2>1. cmd' = cmd /\ candidates' = candidates
      BY DEF RunStep, RunStart, LookCatalog, LookStore, LookStale, ClearStale, Submit, Announce, RunEnds,
             RecordSet, RecordUpsert
    <2>2. QED BY <2>1, WorkedFrame
  <1>1. CASE RunStart(r)
    <2>1. UNCHANGED <<store, storeFile, catalog, catalogFile, resumed>> /\ resumed[r] = None /\ place' = [place EXCEPT ![r] = <<cwd, policy>>]
      BY <1>1 DEF RunStart, RunGoes, storeVars, catalogVars, TypeInv, RunOK
    <2>2. RunsWorked'
      BY <2>1, WorkedStays, FlowAssumption DEF WorkedInv, RunsWorked, TypeInv, TypeOK
    <2>3. QED BY <1>0, <2>1, <2>2, WorkedFrame DEF WorkedInv
  <1>2. CASE LookCatalog(r)
    <2>1. UNCHANGED <<store, storeFile, catalog, catalogFile, place>> /\ place[r] \in Places
      BY <1>2 DEF LookCatalog, storeVars, catalogVars, TypeInv, RunOK
    <2>2. resumed' = [resumed EXCEPT ![r] = ActiveFor(place[r])] \/ resumed' = resumed
      BY <1>2 DEF LookCatalog
    <2>3. ActiveFor(place[r]) \in {catalog[place[r]].sid, None}
      BY DEF ActiveFor
    <2>4. RunsWorked'
      <3> SUFFICES ASSUME NEW q \in Runs, NEW p \in Places, NEW s \in Sids, resumed'[q] = s, place'[q] = p
                   PROVE  Worked(s, p[1])'
        BY DEF RunsWorked
      <3>1. resumed[q] = s \/ (q = r /\ catalog[p].sid = s)
        BY <2>1, <2>2, <2>3, FlowAssumption DEF TypeInv, TypeOK
      <3>2. Worked(s, p[1])
        BY <2>1, <3>1 DEF WorkedInv, RunsWorked, CatalogWorked
      <3>3. QED BY <3>2, WorkedStays
    <2>5. QED BY <1>0, <2>1, <2>4, WorkedFrame DEF WorkedInv
  <1>3. CASE LookStore(r)
    <2>1. UNCHANGED <<store, storeFile, catalog, catalogFile, place>> /\ place[r] \in Places
      BY <1>3 DEF LookStore, storeVars, catalogVars, TypeInv, RunOK
    <2>2. resumed' = [resumed EXCEPT ![r] = ResumeFor(place[r][1])] \/ resumed' = resumed
      BY <1>3 DEF LookStore
    <2>3. RunsWorked'
      <3> SUFFICES ASSUME NEW q \in Runs, NEW p \in Places, NEW s \in Sids, resumed'[q] = s, place'[q] = p
                   PROVE  Worked(s, p[1])'
        BY DEF RunsWorked
      <3>1. resumed[q] = s \/ (q = r /\ ResumeFor(p[1]) = s)
        BY <2>1, <2>2 DEF TypeInv, TypeOK
      <3>2. ASSUME ResumeFor(p[1]) = s PROVE store = [sid |-> s, dir |-> p[1]]
        BY <3>2, FlowAssumption DEF ResumeFor, TypeInv, TypeOK, StoreEntries
      <3>3. p[1] \in Dirs
        BY DEF Places
      <3>4. Worked(s, p[1])
        BY <2>1, <3>1, <3>2, <3>3 DEF WorkedInv, RunsWorked, StoreWorked
      <3>5. QED BY <3>4, WorkedStays
    <2>4. QED BY <1>0, <2>1, <2>3, WorkedFrame DEF WorkedInv
  <1>4. CASE ClearStale(r)
    <2>1. UNCHANGED <<catalog, catalogFile, place, resumed>> /\ ClearSession
      BY <1>4 DEF ClearStale, catalogVars
    <2>2. {store', storeFile'} \subseteq {store, storeFile, Empty}
      BY <2>1, Cleared DEF TypeInv, TypeOK, Counted
    <2>3. QED BY <1>0, <2>1, <2>2, WorkedFrame DEF WorkedInv
  <1>5. CASE LookStale(r) \/ Submit(r) \/ Announce(r) \/ RunEnds(r)
    <2>1. UNCHANGED <<store, storeFile, catalog, catalogFile, place, resumed>>
      BY <1>5 DEF LookStale, Submit, Announce, RunEnds, storeVars, catalogVars
    <2>2. QED BY <1>0, <2>1, WorkedFrame DEF WorkedInv
  <1>6. CASE RecordSet(r)
    <2>1. UNCHANGED <<catalog, catalogFile, place, resumed>> /\ announced[r] \in Sids /\ place[r] \in Places
      BY <1>6 DEF RecordSet, catalogVars, runVars, TypeInv, RunOK, TypeOK
    <2>2. {store', storeFile'} \subseteq {store, storeFile, [sid |-> announced[r], dir |-> place[r][1]]}
      BY <1>6 DEF RecordSet, SetSession, StoreBecomes, Persist
    <2>3. Worked(announced[r], place[r][1])
      BY <2>1 DEF Worked
    <2>4. StoreWorked'
      <3> SUFFICES ASSUME NEW s \in Sids, NEW d \in Dirs, [sid |-> s, dir |-> d] \in {store', storeFile'}
                   PROVE  Worked(s, d)'
        BY DEF StoreWorked
      <3>1. [sid |-> s, dir |-> d] \in {store, storeFile} \/ (s = announced[r] /\ d = place[r][1])
        BY <2>2
      <3>2. Worked(s, d)
        BY <2>3, <3>1 DEF WorkedInv, StoreWorked
      <3>3. QED BY <3>2, WorkedStays
    <2>5. QED BY <1>0, <2>1, <2>4, WorkedFrame DEF WorkedInv
  <1>7. CASE RecordUpsert(r)
    <2>1. UNCHANGED <<store, storeFile, place, resumed>> /\ announced[r] \in Sids /\ place[r] \in Places
      BY <1>7 DEF RecordUpsert, storeVars, runVars, TypeInv, RunOK, TypeOK
    <2>2. {catalog', catalogFile'} \subseteq
            {catalog, catalogFile, [catalog EXCEPT ![place[r]] = [sid |-> announced[r], status |-> "active"]]}
      BY <1>7 DEF RecordUpsert, UpsertActive, CatalogBecomes, Persist
    <2>3. CatalogWorked'
      <3> SUFFICES ASSUME NEW p \in Places, NEW s \in Sids, s \in {catalog'[p].sid, catalogFile'[p].sid}
                   PROVE  Worked(s, p[1])'
        BY DEF CatalogWorked
      <3>1. s \in {catalog[p].sid, catalogFile[p].sid} \/ (s = announced[r] /\ p = place[r])
        BY <2>1, <2>2 DEF TypeInv, TypeOK
      <3>2. Worked(s, p[1])
        BY <2>1, <3>1 DEF WorkedInv, CatalogWorked, Worked
      <3>3. QED BY <3>2, WorkedStays
    <2>4. QED BY <1>0, <2>1, <2>3, WorkedFrame DEF WorkedInv
  <1>8. QED
    BY <1>1, <1>2, <1>3, <1>4, <1>5, <1>6, <1>7 DEF RunStep

\* What a command carries after a step it carried before, or the step put there.
LEMMA WorkedCommand ==
  ASSUME TypeInv, WorkedInv, NEW c \in Commands, CommandStep(c), [Next]_vars
  PROVE  WorkedInv'
  <1>0. cmd[c] \in CmdRecords /\ CmdFits(cmd[c]) /\ CmdOK
    BY DEF TypeInv, CmdOK
  <1>1. RunsWorked'
    <2>1. resumed' = resumed /\ place' = place
      BY DEF CommandStep, CommandCall, SetCWD, InterruptRun, ArchiveCurrent, ClearCurrent, ClearIdle,
             ResumeConsume, ResumeUpsert, ResumeSet, runVars
    <2>2. QED BY <2>1, WorkedFrame
  <1>2. OffersWorked'
    <2>1. candidates' \subseteq candidates
      BY DEF CommandStep, CommandCall, SetCWD, InterruptRun, ArchiveCurrent, ClearCurrent, ClearIdle,
             ResumeConsume, ResumeUpsert, ResumeSet
    <2>2. QED BY <2>1, WorkedFrame
  <1>4. CASE CommandCall(c) \/ SetCWD(c) \/ InterruptRun(c) \/ ClearCurrent(c) \/ ClearIdle(c)
    <2>1. CommandsWorked'
      <3> SUFFICES ASSUME NEW b \in Commands, NEW p \in Places, NEW s \in Sids, Carries(cmd'[b], p, s)
                   PROVE  Worked(s, p[1])'
        BY DEF CommandsWorked
      <3>1. Carries(cmd[b], p, s)
        BY <1>0, <1>4 DEF CommandCall, SetCWD, InterruptRun, ClearCurrent, ClearIdle, Goes, At, Done, Idle, Carries,
                          CmdOK, CmdRecords, CmdKinds, CmdSteps
      <3>2. QED BY <3>1, WorkedStays DEF WorkedInv, CommandsWorked
    <2>2. UNCHANGED <<catalog, catalogFile>>
      BY <1>4 DEF CommandCall, SetCWD, InterruptRun, ClearCurrent, ClearIdle, catalogVars
    <2>3. {store', storeFile'} \subseteq {store, storeFile, Empty}
      BY <1>4, Cleared DEF CommandCall, SetCWD, InterruptRun, ClearCurrent, ClearIdle, storeVars,
                           TypeInv, TypeOK, Counted, StoreBecomes, Persist
    <2>4. QED BY <1>1, <1>2, <2>1, <2>2, <2>3, WorkedFrame DEF WorkedInv
  <1>5. CASE ArchiveCurrent(c)
    <2>1. CommandsWorked'
      <3> SUFFICES ASSUME NEW b \in Commands, NEW p \in Places, NEW s \in Sids, Carries(cmd'[b], p, s)
                   PROVE  Worked(s, p[1])'
        BY DEF CommandsWorked
      <3>1. Carries(cmd[b], p, s)
        BY <1>0, <1>5 DEF ArchiveCurrent, Carries, CmdOK, CmdRecords, CmdKinds, CmdSteps
      <3>2. QED BY <3>1, WorkedStays DEF WorkedInv, CommandsWorked
    <2>2. UNCHANGED <<store, storeFile>>
      BY <1>5 DEF ArchiveCurrent, storeVars
    <2>3. CatalogWorked'
      <3> SUFFICES ASSUME NEW p \in Places, NEW s \in Sids, s \in {catalog'[p].sid, catalogFile'[p].sid}
                   PROVE  Worked(s, p[1])'
        BY DEF CatalogWorked
      <3> DEFINE q == <<cwd, cmd[c].place[2]>>
                 archived == [catalog EXCEPT ![q].status = "archived"]
      <3>0. {catalog', catalogFile'} \subseteq {catalog, catalogFile, archived}
        BY <1>5 DEF ArchiveCurrent, ArchiveActive, CatalogBecomes, Persist, catalogVars
      <3>1. archived[p].sid = catalog[p].sid
        BY DEF TypeInv, TypeOK, Entries, Absent
      <3>2. s \in {catalog[p].sid, catalogFile[p].sid}
        BY <3>0, <3>1
      <3>3. QED BY <3>2, WorkedStays DEF WorkedInv, CatalogWorked
    <2>4. QED BY <1>1, <1>2, <2>1, <2>2, <2>3, WorkedFrame DEF WorkedInv
  <1>6. CASE ResumeConsume(c)
    <2>1. UNCHANGED <<store, storeFile, catalog, catalogFile>>
      BY <1>6 DEF ResumeConsume, storeVars, catalogVars
    <2>2. CommandsWorked'
      <3> SUFFICES ASSUME NEW b \in Commands, NEW p \in Places, NEW s \in Sids, Carries(cmd'[b], p, s)
                   PROVE  Worked(s, p[1])'
        BY DEF CommandsWorked
      <3>1. CASE b # c
        <4>1. Carries(cmd[b], p, s)
          BY <1>0, <1>6, <3>1 DEF ResumeConsume, CmdOK
        <4>2. QED BY <4>1, WorkedStays DEF WorkedInv, CommandsWorked
      <3>2. CASE b = c
        <4>1. cmd[c].place = p /\ cmd[c].arg = s
          BY <1>0, <1>6, <3>2 DEF ResumeConsume, Carries, At, Done, Idle, CmdOK, CmdRecords, CmdKinds, CmdSteps
        <4>2. <<p, s>> \in candidates \/ ActiveFor(p) = s
          BY <1>0, <1>6, <3>2, <4>1 DEF ResumeConsume, Carries, At, Done, Idle, CmdOK, CmdRecords, CmdKinds, CmdSteps,
                                        TypeInv, TypeOK
        <4>3. ActiveFor(p) = s => catalog[p].sid = s
          BY FlowAssumption DEF ActiveFor
        <4>4. QED BY <4>2, <4>3, WorkedStays DEF WorkedInv, OffersWorked, CatalogWorked
      <3>3. QED BY <3>1, <3>2
    <2>3. QED BY <1>1, <1>2, <2>1, <2>2, WorkedFrame DEF WorkedInv
  <1>7. CASE ResumeUpsert(c)
    <2>1. UNCHANGED <<store, storeFile>> /\ cmd[c].place \in Places /\ cmd[c].arg \in Sids /\ cmd[c].kind = "resume" /\ cmd[c].at = "upsert"
      BY <1>0, <1>7 DEF ResumeUpsert, storeVars, CmdFits
    <2>2. Worked(cmd[c].arg, cmd[c].place[1])
      BY <2>1 DEF WorkedInv, CommandsWorked, Carries
    <2>3. CommandsWorked'
      <3> SUFFICES ASSUME NEW b \in Commands, NEW p \in Places, NEW s \in Sids, Carries(cmd'[b], p, s)
                   PROVE  Worked(s, p[1])'
        BY DEF CommandsWorked
      <3>1. Carries(cmd[b], p, s)
        BY <1>0, <1>7 DEF ResumeUpsert, At, Done, Idle, Carries, CmdOK, CmdRecords, CmdKinds, CmdSteps
      <3>2. QED BY <3>1, WorkedStays DEF WorkedInv, CommandsWorked
    <2>4. CatalogWorked'
      <3> SUFFICES ASSUME NEW p \in Places, NEW s \in Sids, s \in {catalog'[p].sid, catalogFile'[p].sid}
                   PROVE  Worked(s, p[1])'
        BY DEF CatalogWorked
      <3>1. s \in {catalog[p].sid, catalogFile[p].sid} \/ (s = cmd[c].arg /\ p = cmd[c].place)
        BY <1>7, <2>1 DEF ResumeUpsert, UpsertActive, CatalogBecomes, Persist, TypeInv, TypeOK
      <3>2. Worked(s, p[1])
        BY <2>2, <3>1 DEF WorkedInv, CatalogWorked
      <3>3. QED BY <3>2, WorkedStays
    <2>5. QED BY <1>1, <1>2, <2>1, <2>3, <2>4, WorkedFrame DEF WorkedInv
  <1>8. CASE ResumeSet(c)
    <2>1. UNCHANGED <<catalog, catalogFile>> /\ cmd[c].place \in Places /\ cmd[c].arg \in Sids /\ cmd[c].kind = "resume" /\ cmd[c].at = "set"
      BY <1>0, <1>8 DEF ResumeSet, Goes, catalogVars, CmdFits
    <2>2. Worked(cmd[c].arg, cmd[c].place[1])
      BY <2>1 DEF WorkedInv, CommandsWorked, Carries
    <2>3. CommandsWorked'
      <3> SUFFICES ASSUME NEW b \in Commands, NEW p \in Places, NEW s \in Sids, Carries(cmd'[b], p, s)
                   PROVE  Worked(s, p[1])'
        BY DEF CommandsWorked
      <3>1. Carries(cmd[b], p, s)
        BY <1>0, <1>8 DEF ResumeSet, Goes, At, Done, Idle, Carries, CmdOK, CmdRecords, CmdKinds, CmdSteps
      <3>2. QED BY <3>1, WorkedStays DEF WorkedInv, CommandsWorked
    <2>4. StoreWorked'
      <3> SUFFICES ASSUME NEW s \in Sids, NEW d \in Dirs, [sid |-> s, dir |-> d] \in {store', storeFile'}
                   PROVE  Worked(s, d)'
        BY DEF StoreWorked
      <3>0. {store', storeFile'} \subseteq {store, storeFile, [sid |-> cmd[c].arg, dir |-> cmd[c].place[1]]}
        BY <1>8 DEF ResumeSet, SetSession, StoreBecomes, Persist
      <3>1. [sid |-> s, dir |-> d] \in {store, storeFile} \/ (s = cmd[c].arg /\ d = cmd[c].place[1])
        BY <3>0
      <3>2. Worked(s, d)
        BY <2>2, <3>1 DEF WorkedInv, StoreWorked
      <3>3. QED BY <3>2, WorkedStays
    <2>5. QED BY <1>1, <1>2, <2>1, <2>3, <2>4, WorkedFrame DEF WorkedInv
  <1>9. QED
    BY <1>4, <1>5, <1>6, <1>7, <1>8 DEF CommandStep

LEMMA WorkedStep == TypeInv /\ WorkedInv /\ [Next]_vars => WorkedInv'
  <1> SUFFICES ASSUME TypeInv, WorkedInv, [Next]_vars PROVE WorkedInv'
    OBVIOUS
  <1>1. CASE ResumeList
    <2>1. UNCHANGED <<store, storeFile, catalog, catalogFile, cmd, resumed, place>>
      BY <1>1 DEF ResumeList, storeVars, catalogVars, runVars
    <2>2. OffersWorked'
      <3> SUFFICES ASSUME NEW p \in Places, NEW s \in Sids, <<p, s>> \in candidates' PROVE Worked(s, p[1])'
        BY DEF OffersWorked
      <3>1. <<p, s>> \in candidates \/ \E r \in Runs : announced[r] = s /\ place[r] # None /\ place[r][1] = cwd /\ p[1] = cwd
        BY <1>1 DEF ResumeList
      <3>2. Worked(s, p[1])
        BY <3>1 DEF WorkedInv, OffersWorked, Worked, TypeInv, TypeOK
      <3>3. QED BY <3>2, WorkedStays
    <2>3. QED BY <2>1, <2>2, WorkedFrame DEF WorkedInv
  <1>2. CASE CandidateExpires
    <2>1. UNCHANGED <<store, storeFile, catalog, catalogFile, cmd, resumed, place>> /\ candidates' \subseteq candidates
      BY <1>2 DEF CandidateExpires, storeVars, catalogVars, runVars
    <2>2. QED BY <2>1, WorkedFrame DEF WorkedInv
  <1>3. CASE Timeout
    <2>1. UNCHANGED <<catalog, catalogFile, cmd, resumed, place, candidates>> /\ {store', storeFile'} \subseteq {store, storeFile}
      BY <1>3 DEF Timeout, catalogVars, runVars, StoreBecomes, Persist
    <2>2. QED BY <2>1, WorkedFrame DEF WorkedInv
  <1>4. CASE Reconfigure
    <2>1. UNCHANGED <<store, storeFile, catalog, catalogFile, cmd, resumed, place, candidates>>
      BY <1>4 DEF Reconfigure, storeVars, catalogVars, runVars
    <2>2. QED BY <2>1, WorkedFrame DEF WorkedInv
  <1>5. CASE Restart
    <2>1. {store', storeFile'} \subseteq {store, storeFile} /\ {catalog', catalogFile'} \subseteq {catalog, catalogFile}
          /\ candidates' \subseteq candidates /\ UNCHANGED <<resumed, place>>
      BY <1>5 DEF Restart
    <2>2. CommandsWorked'
      BY <1>5 DEF Restart, CommandsWorked, Carries, Idle, Done
    <2>3. QED BY <2>1, <2>2, WorkedFrame DEF WorkedInv
  <1>6. CASE UNCHANGED vars
    BY <1>6, WorkedFrame DEF vars, storeVars, catalogVars, runVars, WorkedInv
  <1>7. QED
    BY <1>1, <1>2, <1>3, <1>4, <1>5, <1>6, WorkedRun, WorkedCommand DEF Next

LEMMA WorkedInit == Init => WorkedInv
  <1> SUFFICES ASSUME Init PROVE WorkedInv
    OBVIOUS
  <1>1. StoreWorked /\ OffersWorked /\ RunsWorked
    BY FlowAssumption DEF Init, StoreWorked, OffersWorked, RunsWorked, Empty
  <1>2. CatalogWorked /\ CommandsWorked
    BY FlowAssumption DEF Init, CatalogWorked, CommandsWorked, Absent, Carries, Idle
  <1>3. QED
    BY <1>1, <1>2 DEF WorkedInv

\* A run resumes only a session that worked in its directory, however many
\* commands, recorders, failing writes and restarts came between.
THEOREM ResumesOfPlace == Spec => []ResumedIsOfPlace
  <1>1. TypeInv /\ WorkedInv => ResumedIsOfPlace
    <2> SUFFICES ASSUME TypeInv, WorkedInv, NEW r \in Runs, resumed[r] # None
                 PROVE  \E q \in Runs : announced[q] = resumed[r] /\ place[q][1] = place[r][1]
      BY DEF ResumedIsOfPlace
    <2>1. resumed[r] \in Sids /\ place[r] \in Places
      BY DEF TypeInv, TypeOK, RunOK
    <2>2. Worked(resumed[r], place[r][1])
      BY <2>1 DEF WorkedInv, RunsWorked
    <2>3. QED BY <2>2 DEF Worked
  <1>2. QED
    BY <1>1, FlowTypes, WorkedInit, WorkedStep, PTL DEF Spec
-----------------------------------------------------------------------------
\* As long as every write reached its file: the files are what the bridge holds;
\* the session recorded last at a place is the active one there; and a session a
\* reset left behind is neither active nor stored unless it was recorded again,
\* or the reset has yet to clear the store.
FilesCurrent == storeFile = store /\ catalogFile = catalog
LastActive == \A p \in Places : last[p] # None => catalog[p] = [sid |-> last[p], status |-> "active"]
LeftInactive == \A p \in Places, s \in Sids :
  s \in left[p] /\ catalog[p] = [sid |-> s, status |-> "active"] => <<p, s>> \in revived
ClearingAt(p) == \E c \in Commands : Clearing(c) /\ cmd[c].place = p
LeftUnstored == \A p \in Places, s \in Sids :
  s \in left[p] /\ store = [sid |-> s, dir |-> p[1]] => <<p, s>> \in revived \/ ClearingAt(p)
HistoryHolds == FilesCurrent /\ LastActive /\ LeftInactive /\ LeftUnstored
HistoryInv == faults = 0 => HistoryHolds

LEMMA EmptyStoresNothing == \A s \in Sids : \A d : [sid |-> s, dir |-> d] # Empty
  BY FlowAssumption DEF Empty

LEMMA HistoryRun ==
  ASSUME TypeInv, HistoryInv, NEW r \in Runs, RunStep(r)
  PROVE  HistoryInv'
  <1> SUFFICES ASSUME faults' = 0 PROVE HistoryHolds'
    BY DEF HistoryInv
  <1>1. CASE RunStart(r) \/ LookCatalog(r) \/ LookStore(r) \/ LookStale(r) \/ Submit(r) \/ Announce(r) \/ RunEnds(r)
    <2>1. UNCHANGED <<store, storeFile, catalog, catalogFile, cmd, faults, left, revived, last>>
      BY <1>1 DEF RunStart, LookCatalog, LookStore, LookStale, Submit, Announce, RunEnds, storeVars, catalogVars, history
    <2>2. QED
      BY <2>1 DEF HistoryInv, HistoryHolds, FilesCurrent, LastActive, LeftInactive, LeftUnstored, ClearingAt, Clearing
  <1>2. CASE ClearStale(r)
    <2>1. UNCHANGED <<catalog, catalogFile, cmd, left, revived, last>> /\ ClearSession
      BY <1>2 DEF ClearStale, catalogVars, history
    <2>2. faults = 0 /\ store' = Empty /\ (storeFile = store => storeFile' = Empty)
      BY <2>1, Cleared DEF TypeInv, TypeOK, Counted, CountedOn
    <2>3. QED
      BY <2>1, <2>2, EmptyStoresNothing DEF HistoryInv, HistoryHolds, FilesCurrent, LastActive, LeftInactive, LeftUnstored
  <1>3. CASE RecordSet(r)
    <2>1. UNCHANGED <<catalog, catalogFile, cmd, left, last>> /\ announced[r] \in Sids /\ place[r] \in Places
      BY <1>3 DEF RecordSet, Recorded, catalogVars, TypeInv, RunOK, TypeOK
    <2>2. faults = 0 /\ store' = [sid |-> announced[r], dir |-> place[r][1]] /\ storeFile' = store'
      BY <1>3, FlowAssumption DEF RecordSet, SetSession, StoreBecomes, Persist, TypeInv, TypeOK
    <2>3. revived \subseteq revived' /\ \A p \in Places : announced[r] \in left[p] => <<p, announced[r]>> \in revived'
      BY <1>3, <2>1 DEF RecordSet, Recorded
    <2>4. LeftUnstored'
      BY <2>1, <2>2, <2>3 DEF LeftUnstored
    <2>5. QED
      BY <2>1, <2>2, <2>3, <2>4 DEF HistoryInv, HistoryHolds, FilesCurrent, LastActive, LeftInactive
  <1>4. CASE RecordUpsert(r)
    <2>1. UNCHANGED <<store, storeFile, cmd, left>> /\ announced[r] \in Sids /\ place[r] \in Places
      BY <1>4 DEF RecordUpsert, Recorded, storeVars, TypeInv, RunOK, TypeOK
    <2>2. /\ faults = 0 /\ catalogFile' = catalog'
          /\ catalog' = [catalog EXCEPT ![place[r]] = [sid |-> announced[r], status |-> "active"]]
      BY <1>4, FlowAssumption DEF RecordUpsert, UpsertActive, CatalogBecomes, Persist, TypeInv, TypeOK
    <2>3. revived \subseteq revived' /\ \A p \in Places : announced[r] \in left[p] => <<p, announced[r]>> \in revived'
      BY <1>4, <2>1 DEF RecordUpsert, Recorded
    <2>4. LastActive'
      BY <1>4, <2>1, <2>2 DEF RecordUpsert, HistoryInv, HistoryHolds, LastActive, TypeInv, TypeOK
    <2>5. LeftInactive'
      BY <2>1, <2>2, <2>3 DEF HistoryInv, HistoryHolds, LeftInactive, TypeInv, TypeOK
    <2>6. LeftUnstored'
      BY <2>1, <2>2, <2>3 DEF HistoryInv, HistoryHolds, LeftUnstored, ClearingAt, Clearing
    <2>7. QED
      BY <2>1, <2>2, <2>4, <2>5, <2>6 DEF HistoryInv, HistoryHolds, FilesCurrent
  <1>5. QED
    BY <1>1, <1>2, <1>3, <1>4 DEF RunStep

LEMMA HistoryCommand ==
  ASSUME TypeInv, HistoryInv, NEW c \in Commands, CommandStep(c)
  PROVE  HistoryInv'
  <1> SUFFICES ASSUME faults' = 0 PROVE HistoryHolds'
    BY DEF HistoryInv
  <1>0. cmd \in [Commands -> CmdRecords] /\ CmdFits(cmd[c])
    BY DEF TypeInv, CmdOK
  <1>1. CASE CommandCall(c) \/ SetCWD(c) \/ InterruptRun(c) \/ ClearIdle(c) \/ ResumeConsume(c)
    <2>1. UNCHANGED <<catalog, catalogFile, left, revived, last>> /\ store' = store /\ cmd[c].at # "clear"
      BY <1>1 DEF CommandCall, SetCWD, InterruptRun, ClearIdle, ResumeConsume, Goes, Idle, storeVars, catalogVars, history, StoreBecomes
    <2>2. faults = 0 /\ (storeFile = store => storeFile' = store)
      BY <1>1, FlowAssumption DEF CommandCall, SetCWD, InterruptRun, ClearIdle, ResumeConsume, storeVars, StoreBecomes, Persist,
                                  TypeInv, TypeOK
    <2>3. \A b \in Commands \ {c} : cmd'[b] = cmd[b]
      BY <1>0, <1>1 DEF CommandCall, SetCWD, InterruptRun, ClearIdle, ResumeConsume, Goes
    <2>4. LeftUnstored'
      BY <2>1, <2>2, <2>3 DEF HistoryInv, HistoryHolds, LeftUnstored, ClearingAt, Clearing
    <2>5. QED
      BY <2>1, <2>2, <2>4 DEF HistoryInv, HistoryHolds, FilesCurrent, LastActive, LeftInactive
  <1>2. CASE ClearCurrent(c)
    <2>1. UNCHANGED <<catalog, catalogFile, left, revived, last>> /\ ClearSession
      BY <1>2 DEF ClearCurrent, catalogVars, history
    <2>2. faults = 0 /\ store' = Empty /\ (storeFile = store => storeFile' = Empty)
      BY <2>1, Cleared DEF TypeInv, TypeOK, Counted, CountedOn
    <2>3. QED
      BY <2>1, <2>2, EmptyStoresNothing DEF HistoryInv, HistoryHolds, FilesCurrent, LastActive, LeftInactive, LeftUnstored
  <1>3. CASE ArchiveCurrent(c)
    <2>1. UNCHANGED <<store, storeFile>> /\ cmd[c].at = "archive" /\ cmd[c].place \in Places /\ \A b \in Commands \ {c} : cmd'[b] = cmd[b]
      BY <1>0, <1>3 DEF ArchiveCurrent, storeVars, CmdFits
    <2>2. CASE UNCHANGED <<catalogVars, faults, history>>
      BY <2>1, <2>2 DEF catalogVars, history, HistoryInv, HistoryHolds, FilesCurrent, LastActive, LeftInactive,
                        LeftUnstored, ClearingAt, Clearing
    <2>3. CASE LET p == <<cwd, cmd[c].place[2]>> IN
                 /\ ArchiveActive(p)
                 /\ cmd' = [cmd EXCEPT ![c].at = "clear", ![c].place = p]
                 /\ left' = [left EXCEPT ![p] = {announced[r] : r \in Runs} \ {None}]
                 /\ revived' = {x \in revived : x[1] # p}
                 /\ last' = [last EXCEPT ![p] = None]
      <3> DEFINE p == <<cwd, cmd[c].place[2]>>
                 archived == [catalog EXCEPT ![p].status = "archived"]
      <3>1. p \in Places
        BY <2>1 DEF Places, TypeInv, TypeOK
      <3>2. faults = 0 /\ (catalogFile = catalog => catalogFile' = catalog')
        BY <2>3, FlowAssumption DEF ArchiveActive, CatalogBecomes, Persist, catalogVars, TypeInv, TypeOK
      <3>3. catalog' = archived \/ (catalog' = catalog /\ catalog[p].status # "active")
        BY <2>3 DEF ArchiveActive, CatalogBecomes, catalogVars
      <3>4. catalog'[p].status # "active" /\ \A q \in Places \ {p} : catalog'[q] = catalog[q]
        BY <3>1, <3>3 DEF TypeInv, TypeOK, Entries, Absent
      <3>5. \A q \in Places \ {p} : left'[q] = left[q] /\ last'[q] = last[q]
        BY <2>3, <3>1 DEF TypeInv, TypeOK
      <3>6. last'[p] = None
        BY <2>3, <3>1 DEF TypeInv, TypeOK
      <3>7. \A q \in Places \ {p}, s \in Sids : <<q, s>> \in revived => <<q, s>> \in revived'
        BY <2>3
      <3>8. cmd'[c].at = "clear" /\ cmd'[c].place = p
        BY <1>0, <2>3 DEF CmdRecords
      <3>9. LastActive'
        BY <3>2, <3>4, <3>5, <3>6 DEF HistoryInv, HistoryHolds, LastActive
      <3>10. LeftInactive'
        BY <3>2, <3>4, <3>5, <3>7 DEF HistoryInv, HistoryHolds, LeftInactive
      <3>11. LeftUnstored'
        BY <2>1, <3>2, <3>5, <3>7, <3>8 DEF HistoryInv, HistoryHolds, LeftUnstored, ClearingAt, Clearing
      <3>12. QED
        BY <2>1, <3>2, <3>9, <3>10, <3>11 DEF HistoryInv, HistoryHolds, FilesCurrent
    <2>4. QED
      BY <1>3, <2>2, <2>3 DEF ArchiveCurrent
  <1>4. CASE ResumeUpsert(c)
    <2>1. UNCHANGED <<store, storeFile, revived>> /\ cmd[c].at = "upsert" /\ cmd[c].place \in Places /\ cmd[c].arg \in Sids
          /\ \A b \in Commands \ {c} : cmd'[b] = cmd[b]
      BY <1>0, <1>4 DEF ResumeUpsert, Chosen, storeVars, CmdFits
    <2>2. /\ faults = 0 /\ catalogFile' = catalog'
          /\ catalog' = [catalog EXCEPT ![cmd[c].place] = [sid |-> cmd[c].arg, status |-> "active"]]
      BY <1>4, FlowAssumption DEF ResumeUpsert, UpsertActive, CatalogBecomes, Persist, TypeInv, TypeOK
    <2>3. \A p \in Places : left'[p] = left[p] \ {cmd[c].arg}
      BY <1>4 DEF ResumeUpsert, Chosen
    <2>4. LastActive'
      BY <1>4, <2>1, <2>2 DEF ResumeUpsert, HistoryInv, HistoryHolds, LastActive, TypeInv, TypeOK
    <2>5. LeftInactive'
      BY <2>1, <2>2, <2>3 DEF HistoryInv, HistoryHolds, LeftInactive, TypeInv, TypeOK
    <2>6. LeftUnstored'
      BY <2>1, <2>2, <2>3 DEF HistoryInv, HistoryHolds, LeftUnstored, ClearingAt, Clearing
    <2>7. QED
      BY <2>1, <2>2, <2>4, <2>5, <2>6 DEF HistoryInv, HistoryHolds, FilesCurrent
  <1>5. CASE ResumeSet(c)
    <2>1. UNCHANGED <<catalog, catalogFile, revived, last>> /\ cmd[c].at = "set" /\ cmd[c].place \in Places /\ cmd[c].arg \in Sids
          /\ \A b \in Commands \ {c} : cmd'[b] = cmd[b]
      BY <1>0, <1>5 DEF ResumeSet, Goes, Chosen, catalogVars, CmdFits
    <2>2. faults = 0 /\ store' = [sid |-> cmd[c].arg, dir |-> cmd[c].place[1]] /\ storeFile' = store'
      BY <1>5, FlowAssumption DEF ResumeSet, SetSession, StoreBecomes, Persist, TypeInv, TypeOK
    <2>3. \A p \in Places : left'[p] = left[p] \ {cmd[c].arg}
      BY <1>5 DEF ResumeSet, Chosen
    <2>4. LeftUnstored'
      BY <2>1, <2>2, <2>3 DEF LeftUnstored
    <2>5. QED
      BY <2>1, <2>2, <2>3, <2>4 DEF HistoryInv, HistoryHolds, FilesCurrent, LastActive, LeftInactive
  <1>6. QED
    BY <1>1, <1>2, <1>3, <1>4, <1>5 DEF CommandStep

LEMMA HistoryStep == TypeInv /\ HistoryInv /\ [Next]_vars => HistoryInv'
  <1> SUFFICES ASSUME TypeInv, HistoryInv, [Next]_vars PROVE HistoryInv'
    OBVIOUS
  <1>1. CASE ResumeList \/ CandidateExpires \/ Timeout \/ Reconfigure \/ UNCHANGED vars
    <2> SUFFICES ASSUME faults' = 0 PROVE HistoryHolds'
      BY DEF HistoryInv
    <2>1. UNCHANGED <<catalog, catalogFile, cmd, left, revived, last, store>>
      BY <1>1 DEF ResumeList, CandidateExpires, Timeout, Reconfigure, vars, catalogVars, storeVars, history, StoreBecomes
    <2>2. faults = 0 /\ (storeFile = store => storeFile' = store)
      BY <1>1, FlowAssumption DEF ResumeList, CandidateExpires, Timeout, Reconfigure, vars, storeVars, StoreBecomes, Persist,
                                  TypeInv, TypeOK
    <2>3. QED
      BY <2>1, <2>2 DEF HistoryInv, HistoryHolds, FilesCurrent, LastActive, LeftInactive, LeftUnstored, ClearingAt, Clearing
  <1>2. CASE Restart
    <2> SUFFICES ASSUME faults' = 0 PROVE HistoryHolds'
      BY DEF HistoryInv
    <2>1. HistoryHolds
      BY <1>2 DEF Restart, HistoryInv
    <2>2. store' = store /\ storeFile' = store /\ catalog' = catalog /\ catalogFile' = catalog /\ UNCHANGED <<revived, last>>
      BY <1>2, <2>1 DEF Restart, HistoryHolds, FilesCurrent
    <2>3. \A p \in Places : left'[p] = IF ClearingAt(p) THEN {} ELSE left[p]
      BY <1>2 DEF Restart, ClearingAt
    <2>4. LeftInactive' /\ LeftUnstored'
      BY <2>1, <2>2, <2>3 DEF HistoryHolds, LeftInactive, LeftUnstored
    <2>5. QED
      BY <2>1, <2>2, <2>4 DEF HistoryHolds, FilesCurrent, LastActive
  <1>3. QED
    BY <1>1, <1>2, HistoryRun, HistoryCommand DEF Next

LEMMA HistoryInit == Init => HistoryInv
  BY FlowAssumption DEF Init, HistoryInv, HistoryHolds, FilesCurrent, LastActive, LeftInactive, LeftUnstored

\* While no write failed: after a reset, or a restart behind it, no run resumes a
\* session the reset left behind, unless a late recorder wrote it again.
THEOREM NewStays == Spec => NewStaysNew
  <1> DEFINE Stays == \A r \in Runs, s \in Sids :
        faults = 0 /\ Finds(r, s) /\ s \in left[place[r]] => <<place[r], s>> \in revived
  <1>1. TypeInv /\ HistoryInv /\ [Next]_vars => [Stays]_vars
    <2> SUFFICES ASSUME TypeInv, HistoryInv, Next, NEW r \in Runs, NEW s \in Sids,
                        faults = 0, Finds(r, s), s \in left[place[r]]
                 PROVE  <<place[r], s>> \in revived
      OBVIOUS
    <2>1. HistoryHolds /\ place[r] \in Places /\ resumed[r] = None
      BY DEF HistoryInv, TypeInv, RunOK, Finds
    <2>2. LookCatalog(r) \/ LookStore(r)
      <3>1. ASSUME NEW q \in Runs, RunStep(q) PROVE LookCatalog(r) \/ LookStore(r)
        BY <3>1 DEF Finds, TypeInv, TypeOK, RunStep, RunStart, LookCatalog, LookStore, LookStale, ClearStale, Submit,
                    Announce, RunEnds, RecordSet, RecordUpsert, RunGoes, runVars
      <3>2. ASSUME NEW c \in Commands, CommandStep(c) PROVE run' = run
        BY <3>2 DEF CommandStep, CommandCall, SetCWD, InterruptRun, ArchiveCurrent, ClearCurrent, ClearIdle,
                    ResumeConsume, ResumeUpsert, ResumeSet, runVars
      <3>3. CASE ResumeList \/ CandidateExpires \/ Timeout \/ Reconfigure
        BY <3>3 DEF ResumeList, CandidateExpires, Timeout, Reconfigure, runVars, Finds
      <3>4. CASE Restart
        BY <3>4 DEF Restart, Finds
      <3>5. QED
        BY <3>1, <3>2, <3>3, <3>4 DEF Next, Finds
    <2>3. CASE LookCatalog(r)
      <3>1. resumed'[r] = ActiveFor(place[r])
        BY <2>1, <2>3, FlowAssumption DEF LookCatalog, Finds, TypeInv, TypeOK
      <3>2. catalog[place[r]] = [sid |-> s, status |-> "active"]
        BY <2>1, <3>1, FlowAssumption DEF Finds, ActiveFor, TypeInv, TypeOK, Entries, Absent
      <3>3. QED
        BY <2>1, <3>2 DEF HistoryHolds, LeftInactive
    <2>4. CASE LookStore(r)
      <3>1. resumed'[r] = ResumeFor(place[r][1])
        BY <2>1, <2>4, FlowAssumption DEF LookStore, Finds, TypeInv, TypeOK
      <3>2. store = [sid |-> s, dir |-> place[r][1]]
        BY <3>1, FlowAssumption DEF Finds, ResumeFor, TypeInv, TypeOK, StoreEntries
      <3>3. QED
        BY <2>1, <3>2 DEF HistoryHolds, LeftUnstored, ClearingAt, Finds
    <2>5. QED
      BY <2>2, <2>3, <2>4
  <1>2. QED
    BY <1>1, FlowTypes, HistoryInit, HistoryStep, PTL DEF Spec, NewStaysNew

\* While no write failed: the next run at a place resumes the session recorded or
\* chosen last there, after a restart too.
THEOREM LastIsResumed == Spec => ResumesLast
  <1> DEFINE Resumes == \A r \in Runs :
        /\ faults = 0 /\ run[r] = "catalog" /\ run'[r] \in {"store", "submit"}
        /\ last[place[r]] # None
        => resumed'[r] = last[place[r]]
  <1>1. TypeInv /\ HistoryInv /\ [Next]_vars => [Resumes]_vars
    <2> SUFFICES ASSUME TypeInv, HistoryInv, Next, NEW r \in Runs, faults = 0, run[r] = "catalog",
                        run'[r] \in {"store", "submit"}, last[place[r]] # None
                 PROVE  resumed'[r] = last[place[r]]
      OBVIOUS
    <2>1. LastActive /\ place[r] \in Places
      BY DEF HistoryInv, HistoryHolds, TypeInv, RunOK
    <2>2. LookCatalog(r)
      <3>1. ASSUME NEW q \in Runs, RunStep(q) PROVE LookCatalog(r)
        BY <3>1 DEF TypeInv, TypeOK, RunStep, RunStart, LookCatalog, LookStore, LookStale, ClearStale, Submit,
                    Announce, RunEnds, RecordSet, RecordUpsert, RunGoes, runVars
      <3>2. ASSUME NEW c \in Commands, CommandStep(c) PROVE run' = run
        BY <3>2 DEF CommandStep, CommandCall, SetCWD, InterruptRun, ArchiveCurrent, ClearCurrent, ClearIdle,
                    ResumeConsume, ResumeUpsert, ResumeSet, runVars
      <3>3. CASE ResumeList \/ CandidateExpires \/ Timeout \/ Reconfigure
        BY <3>3 DEF ResumeList, CandidateExpires, Timeout, Reconfigure, runVars
      <3>4. CASE Restart
        BY <3>4 DEF Restart
      <3>5. QED
        BY <3>1, <3>2, <3>3, <3>4 DEF Next
    <2>3. catalog[place[r]] = [sid |-> last[place[r]], status |-> "active"]
      BY <2>1 DEF LastActive
    <2>4. ActiveFor(place[r]) = last[place[r]]
      BY <2>3 DEF ActiveFor
    <2>5. QED
      BY <2>2, <2>4 DEF LookCatalog, TypeInv, TypeOK
  <1>2. QED
    BY <1>1, FlowTypes, HistoryInit, HistoryStep, PTL DEF Spec, ResumesLast
=============================================================================
