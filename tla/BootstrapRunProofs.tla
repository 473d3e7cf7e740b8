-------------------------- MODULE BootstrapRunProofs --------------------------
(***************************************************************************)
(* Theorems about BootstrapRun for any set of roles and specification ids, *)
(* any number of write lanes, failing calls, kills and reruns.             *)
(***************************************************************************)
EXTENDS BootstrapRun, TLAPS

Begun == run.pc \notin Ended \cup {"preflight"}

\* Nothing is left in the locals from an earlier run.
StartsFresh == At("preflight") => run = FreshRun

\* A write is in flight only in the write stage.
WritesEnd == run.pc \notin {"write"} \cup Ended => run.writing = {}

\* The locals agree with the state file that the run read, which nothing but
\* its Save changes.
LocalsAgree ==
    Begun => /\ start.file = file /\ run.reuse = file.roles
             /\ run.update <=> file.spec # None
             /\ run.update => /\ run.spec = file.spec
                              /\ run.prev = start.specs[file.spec]
                              /\ run.prev \in Contents
             /\ run.created => ~run.update /\ run.spec \in SpecIds
             /\ run.unchanged => run.update

\* After the specification stage the run holds an existing specification, of
\* this document unless it was unchanged.
SpecHeld ==
    run.pc \in {"convert", "snapshot", "write", "verify", "link", "tag", "save"} =>
        /\ run.spec \in SpecIds /\ specs[run.spec] # Absent
        /\ ~run.unchanged => specs[run.spec] = "New"

\* A reused collection is as the run found it or registered for rollback, with
\* a snapshot of what was found.
Recoverable ==
    Begun => /\ run.attempted \subseteq run.reuse
             /\ \A r \in run.reuse :
                  /\ r \notin run.attempted => coll[r] = start.coll[r]
                  /\ run.snaps[r] # None => run.snaps[r] = start.coll[r]
             /\ \A r \in run.attempted : run.snaps[r] \in Contents
             /\ run.pc \in {"spec", "convert", "snapshot"} =>
                  run.attempted = {} /\ run.proved = {}
             /\ run.pc = "write" => \A r \in run.reuse : run.snaps[r] # None

\* The rollback routes have restored what they have taken off their list,
\* unless they know better.
Restoring ==
    /\ run.pc \in {"ownedRestore", "catchRestore"} =>
         /\ run.todo \subseteq run.attempted
         /\ ~run.restoreFailed => \A r \in run.attempted \ run.todo : coll[r] = start.coll[r]
    /\ run.pc = "restoreSpec" => run.attempted = {}

\* Verified collections are current.
ProvedCurrent ==
    /\ run.pc = "write" =>
         /\ \A r \in run.attempted : run.snaps[r] # "New"
         /\ \A r \in run.proved : r \in run.reuse /\ run.snaps[r] = "New"
         /\ \A r \in (run.writing \cap run.reuse) \ run.attempted : run.snaps[r] = "New"
    /\ run.pc = "verify" => \A r \in run.proved : coll[r] = "New"
    /\ run.pc \in {"link", "tag", "save"} /\ Full /\ ~run.unchanged =>
         \A r \in Roles : coll[r] = "New"
    /\ run.pc \in {"tag", "save"} /\ Full /\ ~run.unchanged =>
         \A r \in Roles : link[r] = run.spec

IInv == /\ TypeOK /\ StateNeverDangles /\ RerunsNeverDuplicate /\ FailedRunRestores
        /\ StartsFresh /\ WritesEnd /\ LocalsAgree /\ SpecHeld /\ Recoverable /\ Restoring
        /\ ProvedCurrent



LEMMA FreshTyped == FreshRun \in RunState
BY SMT DEF FreshRun, RunState, Stages, Contents, Results

LEMMA InitOK == Init => IInv
<1> SUFFICES ASSUME Init PROVE IInv
  OBVIOUS
<1>1. TypeOK
  BY FreshTyped, RunAssumption, SMT DEF Init, TypeOK, Contents
<1>2. StateNeverDangles /\ RerunsNeverDuplicate
  BY SMT DEF Init, StateNeverDangles, RerunsNeverDuplicate
<1>3. FailedRunRestores /\ WritesEnd /\ LocalsAgree /\ SpecHeld /\ Recoverable
      /\ Restoring /\ ProvedCurrent
  BY SMT DEF Init, FreshRun, FailedRunRestores, WritesEnd, LocalsAgree, SpecHeld,
      Recoverable, Restoring, ProvedCurrent, Begun, Ended, At, Full
<1>4. StartsFresh
  BY DEF Init, StartsFresh
<1> QED
  BY <1>1, <1>2, <1>3, <1>4 DEF IInv

-----------------------------------------------------------------------------
(* The record of the run: what an update keeps.                             *)

LEMMA FieldTypes ==
    ASSUME NEW s \in RunState
    PROVE  /\ \A v \in Stages : [s EXCEPT !.pc = v] \in RunState
           /\ \A v \in {"full", "spec-only"} : [s EXCEPT !.scope = v] \in RunState
           /\ \A v \in SpecIds \cup {None} : [s EXCEPT !.spec = v] \in RunState
           /\ \A v \in BOOLEAN : [s EXCEPT !.update = v] \in RunState
           /\ \A v \in Contents \cup {None} : [s EXCEPT !.prev = v] \in RunState
           /\ \A v \in BOOLEAN : [s EXCEPT !.unchanged = v] \in RunState
           /\ \A v \in BOOLEAN : [s EXCEPT !.created = v] \in RunState
           /\ \A v \in SUBSET Roles : [s EXCEPT !.reuse = v] \in RunState
           /\ \A r \in Roles, v \in Contents \cup {None} : [s EXCEPT !.snaps[r] = v] \in RunState
           /\ \A v \in SUBSET Roles : [s EXCEPT !.attempted = v] \in RunState
           /\ \A v \in 1..Len(RoleOrder) + 1 : [s EXCEPT !.next = v] \in RunState
           /\ \A v \in SUBSET Roles : [s EXCEPT !.writing = v] \in RunState
           /\ \A v \in BOOLEAN : [s EXCEPT !.lost = v] \in RunState
           /\ \A r \in Roles, v \in Results \cup {None} : [s EXCEPT !.result[r] = v] \in RunState
           /\ \A v \in SUBSET Roles : [s EXCEPT !.proved = v] \in RunState
           /\ \A v \in SUBSET Roles : [s EXCEPT !.todo = v] \in RunState
           /\ \A v \in BOOLEAN : [s EXCEPT !.restoreFailed = v] \in RunState
           /\ \A v \in BOOLEAN : [s EXCEPT !.ownedFailed = v] \in RunState
<1>1. \A v \in Stages : [s EXCEPT !.pc = v] \in RunState
  BY SMT DEF RunState
<1>2. \A v \in {"full", "spec-only"} : [s EXCEPT !.scope = v] \in RunState
  BY SMT DEF RunState
<1>3. \A v \in SpecIds \cup {None} : [s EXCEPT !.spec = v] \in RunState
  BY SMT DEF RunState
<1>4. \A v \in BOOLEAN : [s EXCEPT !.update = v] \in RunState
  BY SMT DEF RunState
<1>5. \A v \in Contents \cup {None} : [s EXCEPT !.prev = v] \in RunState
  BY SMT DEF RunState
<1>6. \A v \in BOOLEAN : [s EXCEPT !.unchanged = v] \in RunState
  BY SMT DEF RunState
<1>7. \A v \in BOOLEAN : [s EXCEPT !.created = v] \in RunState
  BY SMT DEF RunState
<1>8. \A v \in SUBSET Roles : [s EXCEPT !.reuse = v] \in RunState
  BY SMT DEF RunState
<1>9. \A r \in Roles, v \in Contents \cup {None} : [s EXCEPT !.snaps[r] = v] \in RunState
  BY SMT DEF RunState
<1>10. \A v \in SUBSET Roles : [s EXCEPT !.attempted = v] \in RunState
  BY SMT DEF RunState
<1>11. \A v \in 1..Len(RoleOrder) + 1 : [s EXCEPT !.next = v] \in RunState
  BY SMT DEF RunState
<1>12. \A v \in SUBSET Roles : [s EXCEPT !.writing = v] \in RunState
  BY SMT DEF RunState
<1>13. \A v \in BOOLEAN : [s EXCEPT !.lost = v] \in RunState
  BY SMT DEF RunState
<1>14. \A r \in Roles, v \in Results \cup {None} : [s EXCEPT !.result[r] = v] \in RunState
  BY SMT DEF RunState
<1>15. \A v \in SUBSET Roles : [s EXCEPT !.proved = v] \in RunState
  BY SMT DEF RunState
<1>16. \A v \in SUBSET Roles : [s EXCEPT !.todo = v] \in RunState
  BY SMT DEF RunState
<1>17. \A v \in BOOLEAN : [s EXCEPT !.restoreFailed = v] \in RunState
  BY SMT DEF RunState
<1>18. \A v \in BOOLEAN : [s EXCEPT !.ownedFailed = v] \in RunState
  BY SMT DEF RunState
<1> QED
  BY <1>1, <1>2, <1>3, <1>4, <1>5, <1>6, <1>7, <1>8, <1>9, <1>10, <1>11, <1>12, <1>13, <1>14, <1>15, <1>16, <1>17, <1>18

\* The groups of locals that most steps leave alone.
SamePlan ==
    /\ run'.scope = run.scope /\ run'.spec = run.spec /\ run'.update = run.update
    /\ run'.prev = run.prev /\ run'.created = run.created /\ run'.reuse = run.reuse
    /\ run'.unchanged = run.unchanged
SameWork ==
    /\ run'.snaps = run.snaps /\ run'.attempted = run.attempted
    /\ run'.writing = run.writing /\ run'.proved = run.proved

LEMMA GotoOK ==
    ASSUME TypeOK, NEW p \in Stages, Goto(p)
    PROVE  run' \in RunState /\ run'.pc = p /\ SamePlan /\ SameWork
<1>1. run \in RunState /\ run' = [run EXCEPT !.pc = p]
  BY DEF TypeOK, Goto
<1>2. run' \in RunState
  BY <1>1, FieldTypes
<1> QED
  BY <1>1, <1>2, SMT DEF RunState, SamePlan, SameWork

LEMMA FailOwnedOK ==
    ASSUME TypeOK, FailOwned
    PROVE  /\ run' \in RunState /\ run'.pc = "ownedRestore" /\ SamePlan /\ SameWork
           /\ run'.todo = run.attempted
<1>1. /\ run \in RunState
      /\ run' = [run EXCEPT !.pc = "ownedRestore", !.todo = run.attempted,
                            !.restoreFailed = FALSE]
  BY DEF TypeOK, FailOwned
<1>2. run.attempted \in SUBSET Roles /\ "ownedRestore" \in Stages /\ FALSE \in BOOLEAN
  BY <1>1, SMT DEF RunState, Stages
<1>3. run' \in RunState
  BY <1>1, <1>2, FieldTypes
<1> QED
  BY <1>1, <1>3, SMT DEF RunState, SamePlan, SameWork

LEMMA KeepSpecOK == IInv /\ KeepSpec => IInv'
<1> SUFFICES ASSUME IInv, KeepSpec PROVE IInv'
  OBVIOUS
<1> DEFINE p == IF Full THEN "link" ELSE "save"
<1>1. run \in RunState /\ run' = [run EXCEPT !.unchanged = TRUE, !.pc = p]
  BY DEF KeepSpec, IInv, TypeOK
<1>2. p \in Stages /\ TRUE \in BOOLEAN
  BY DEF Stages
<1>3. run' \in RunState
  BY <1>1, <1>2, FieldTypes
<1>4. /\ run'.pc \in {"link", "save"} /\ run'.unchanged = TRUE
      /\ run'.scope = run.scope /\ run'.spec = run.spec /\ run'.update = run.update
      /\ run'.prev = run.prev /\ run'.created = run.created /\ run'.reuse = run.reuse
      /\ SameWork
  BY <1>1, SMT DEF RunState, SameWork
<1> HIDE DEF p
<1> USE <1>3, <1>4 DEF IInv, KeepSpec, At, TypeOK, RunState
<1>5. TypeOK' /\ StateNeverDangles' /\ RerunsNeverDuplicate' /\ FailedRunRestores'
  BY SMT DEF cloud, Works, StateNeverDangles, RerunsNeverDuplicate, FailedRunRestores, Existing
<1>6. StartsFresh' /\ WritesEnd' /\ LocalsAgree'
  BY SMT DEF cloud, StartsFresh, WritesEnd, LocalsAgree, Begun, Ended, SameWork
<1>7. SpecHeld' /\ Recoverable'
  BY SMT DEF cloud, SpecHeld, LocalsAgree, StateNeverDangles, Recoverable, Begun, Ended, SameWork
<1>8. Restoring' /\ ProvedCurrent'
  BY SMT DEF cloud, Restoring, ProvedCurrent, Full, SameWork
<1> QED
  BY <1>5, <1>6, <1>7, <1>8

LEMMA FaultsOK == ASSUME TypeOK, Fails \/ Works PROVE faults' \in 0..MaxFaults
BY RunAssumption, SMT DEF TypeOK, Fails, Works

-----------------------------------------------------------------------------
(* The two ways into rollback                                               *)

\* Entering the catch block keeps the invariant, whatever the failed call did
\* to specifications and links.
LEMMA ThrowOK ==
    ASSUME IInv, Throw, run.pc \in {"spec", "link", "tag", "save"},
           UNCHANGED <<coll, file, start, crashes>>, Fails \/ Works,
           specs' \in [SpecIds -> Contents \cup {Absent}],
           link' \in [Roles -> SpecIds \cup {None}],
           StateNeverDangles', RerunsNeverDuplicate'
    PROVE  IInv'
<1> USE DEF IInv
<1>1. run' \in RunState /\ run'.pc = "catch" /\ SamePlan /\ SameWork
  BY GotoOK DEF Throw, Stages
<1>2. TypeOK'
  BY <1>1, FaultsOK DEF TypeOK
<1>3. FailedRunRestores' /\ StartsFresh' /\ WritesEnd' /\ SpecHeld' /\ Restoring' /\ ProvedCurrent'
  BY <1>1, SMT DEF StartsFresh, FailedRunRestores, WritesEnd, SpecHeld, Restoring, ProvedCurrent, At,
      SameWork, Ended
<1>4. LocalsAgree'
  BY <1>1, SMT DEF LocalsAgree, Begun, Ended, SamePlan, TypeOK, RunState
<1>5. Recoverable'
  BY <1>1, SMT DEF Recoverable, Begun, Ended, SamePlan, SameWork
<1> QED
  BY <1>2, <1>3, <1>4, <1>5

LEMMA FailOwnedKeeps ==
    ASSUME IInv, FailOwned, run.pc \in {"convert", "snapshot", "write", "verify"},
           run.writing = {}, UNCHANGED <<cloud, file, start, crashes>>, Fails \/ Works
    PROVE  IInv'
<1> USE DEF IInv
<1>1. /\ run' \in RunState /\ run'.pc = "ownedRestore" /\ SamePlan /\ SameWork
      /\ run'.todo = run.attempted
  BY FailOwnedOK
<1>2. TypeOK'
  BY <1>1, FaultsOK DEF TypeOK, cloud
<1>3. StateNeverDangles' /\ RerunsNeverDuplicate'
  BY SMT DEF StateNeverDangles, RerunsNeverDuplicate, Existing, cloud
<1>4. FailedRunRestores' /\ StartsFresh' /\ WritesEnd' /\ SpecHeld' /\ Restoring' /\ ProvedCurrent'
  BY <1>1, SMT DEF StartsFresh, FailedRunRestores, WritesEnd, SpecHeld, Restoring, ProvedCurrent, At,
      SameWork, Ended
<1>5. LocalsAgree'
  BY <1>1, SMT DEF LocalsAgree, Begun, Ended, SamePlan, TypeOK, RunState
<1>6. Recoverable'
  BY <1>1, SMT DEF Recoverable, Begun, Ended, SamePlan, SameWork, cloud
<1> QED
  BY <1>2, <1>3, <1>4, <1>5, <1>6

-----------------------------------------------------------------------------
(* The stages up to the writes                                              *)

LEMMA PreflightOK == IInv /\ Preflight => IInv'
<1> SUFFICES ASSUME IInv, Preflight PROVE IInv'
  OBVIOUS
<1> USE DEF IInv
<1>0. /\ run = FreshRun /\ FreshRun \in RunState /\ faults' \in 0..MaxFaults
      /\ start' = [specs |-> specs, coll |-> coll, file |-> file]
      /\ UNCHANGED <<specs, coll, link, file, crashes>>
  <2>1. faults' \in 0..MaxFaults
    BY FaultsOK DEF Preflight
  <2>2. run = FreshRun /\ FreshRun \in RunState
    BY FreshTyped DEF Preflight, StartsFresh
  <2> QED
    BY <2>1, <2>2 DEF Preflight, cloud
<1>1. start'.specs = specs /\ start'.coll = coll /\ start'.file = file
  BY <1>0, SMT
<1>2. StateNeverDangles' /\ RerunsNeverDuplicate'
  BY <1>0, SMT DEF StateNeverDangles, RerunsNeverDuplicate, Existing
<1>3. CASE Fails /\ Goto("failed")
  <2>1. run' \in RunState /\ run'.pc = "failed"
    BY <1>3, GotoOK DEF Stages
  <2>2. TypeOK'
    BY <1>0, <1>1, <2>1, SMT DEF TypeOK
  <2>3. FailedRunRestores'
    BY <1>0, <1>1, SMT DEF FailedRunRestores
  <2>4. /\ StartsFresh' /\ WritesEnd' /\ LocalsAgree' /\ SpecHeld' /\ Recoverable' /\ Restoring'
        /\ ProvedCurrent'
    BY <2>1, SMT DEF StartsFresh, WritesEnd, LocalsAgree, SpecHeld, Recoverable, Restoring,
        ProvedCurrent, At, Begun, Ended
  <2> QED
    BY <1>2, <2>2, <2>3, <2>4
<1>4. CASE Works /\ ~(Fails /\ Goto("failed"))
  <2> DEFINE update == file.spec # None
             prev == IF file.spec = None THEN None ELSE specs[file.spec]
  <2>1. PICK scope \in Scopes :
          run' = [run EXCEPT !.pc = "spec", !.scope = scope, !.spec = file.spec,
                    !.update = update, !.reuse = file.roles, !.prev = prev]
    BY <1>4 DEF Preflight
  <2>2. /\ scope \in {"full", "spec-only"} /\ file.spec \in SpecIds \cup {None}
        /\ file.roles \in SUBSET Roles /\ "spec" \in Stages
    BY RunAssumption, SMT DEF TypeOK, Stages
  <2>3. prev \in Contents \cup {None} /\ (update => prev \in Contents /\ prev = specs[file.spec])
    BY <2>2, SMT DEF TypeOK, StateNeverDangles
  <2>4. update \in BOOLEAN /\ (update <=> file.spec # None)
    OBVIOUS
  <2> HIDE DEF update, prev
  <2>5. run' \in RunState
    BY <1>0, <2>1, <2>2, <2>3, <2>4, FieldTypes
  <2>6. /\ run'.pc = "spec" /\ run'.spec = file.spec /\ run'.update = update
        /\ run'.reuse = file.roles /\ run'.prev = prev /\ run'.created = FALSE
        /\ run'.unchanged = FALSE /\ run'.snaps = [r \in Roles |-> None]
        /\ run'.attempted = {} /\ run'.writing = {} /\ run'.proved = {}
    BY <1>0, <2>1, SMT DEF FreshRun
  <2>7. TypeOK'
    BY <1>0, <1>1, <2>5, SMT DEF TypeOK
  <2>8. LocalsAgree'
    BY <1>0, <1>1, <2>2, <2>3, <2>4, <2>6, SMT DEF LocalsAgree, TypeOK
  <2>9. Recoverable'
    BY <1>0, <1>1, <2>2, <2>6, SMT DEF Recoverable, TypeOK
  <2>10. /\ FailedRunRestores' /\ StartsFresh' /\ WritesEnd' /\ SpecHeld' /\ Restoring'
         /\ ProvedCurrent'
    BY <2>6, SMT DEF FailedRunRestores, StartsFresh, WritesEnd, SpecHeld, Restoring,
        ProvedCurrent, At, Ended
  <2> QED
    BY <1>2, <2>7, <2>8, <2>9, <2>10
<1> QED
  BY <1>3, <1>4 DEF Preflight

LEMMA UpdateSpecOK == IInv /\ UpdateSpec => IInv'
<1> SUFFICES ASSUME IInv, UpdateSpec PROVE IInv'
  OBVIOUS
<1> USE DEF IInv
<1>1. /\ run.pc = "spec" /\ run.spec \in SpecIds /\ run.spec = file.spec
      /\ specs[run.spec] # Absent
      /\ UNCHANGED <<coll, link, file, start, crashes>>
  BY SMT DEF UpdateSpec, LocalsAgree, StateNeverDangles, TypeOK, At, Begun, Ended
<1>2. specs' \in {specs, [specs EXCEPT ![run.spec] = "New"]}
  BY DEF UpdateSpec
<1>3. specs' \in [SpecIds -> Contents \cup {Absent}]
  BY <1>1, <1>2, SMT DEF TypeOK, Contents
<1>4. StateNeverDangles' /\ RerunsNeverDuplicate'
  BY <1>1, <1>2, RunAssumption, SMT DEF StateNeverDangles, RerunsNeverDuplicate, Existing, TypeOK, Contents
<1>5. CASE Fails /\ Throw
  BY <1>1, <1>3, <1>4, <1>5, ThrowOK DEF TypeOK
<1>6. CASE Works /\ specs' = [specs EXCEPT ![run.spec] = "New"] /\ Goto(AfterSpec)
  <2>1. AfterSpec \in {"convert", "save"} /\ AfterSpec \in Stages /\ (Full => AfterSpec = "convert")
    BY DEF AfterSpec, Stages
  <2>2. run' \in RunState /\ run'.pc = AfterSpec /\ SamePlan /\ SameWork
    BY <1>6, <2>1, GotoOK
  <2>3. TypeOK'
    BY <1>1, <1>3, <1>6, <2>2, FaultsOK DEF TypeOK
  <2>4. LocalsAgree'
    BY <1>1, <2>1, <2>2, SMT DEF LocalsAgree, Begun, Ended, SamePlan, TypeOK, RunState
  <2>5. Recoverable'
    BY <1>1, <2>1, <2>2, SMT DEF Recoverable, Begun, Ended, SamePlan, SameWork
  <2>6. SpecHeld'
    BY <1>1, <1>6, <2>1, <2>2, RunAssumption, SMT DEF SpecHeld, SamePlan, TypeOK, Contents
  <2>7. ProvedCurrent'
    BY <1>1, <2>1, <2>2, SMT DEF ProvedCurrent, Full, SamePlan
  <2>8. FailedRunRestores' /\ StartsFresh' /\ WritesEnd' /\ Restoring'
    BY <1>1, <2>1, <2>2, SMT DEF FailedRunRestores, StartsFresh, WritesEnd, Restoring, At,
        SameWork, Ended
  <2> QED
    BY <1>4, <2>3, <2>4, <2>5, <2>6, <2>7, <2>8
<1> QED
  BY <1>5, <1>6 DEF UpdateSpec

LEMMA UploadSpecOK == IInv /\ UploadSpec => IInv'
<1> SUFFICES ASSUME IInv, UploadSpec PROVE IInv'
  OBVIOUS
<1> USE DEF IInv
<1>1. /\ run.pc = "spec" /\ run.update = FALSE /\ file.spec = None
      /\ UNCHANGED <<coll, link, file, start, crashes>>
  BY SMT DEF UploadSpec, LocalsAgree, TypeOK, RunState, At, Begun, Ended
<1>2. PICK i \in SpecIds :
        /\ Existing \subseteq {i}
        /\ \/ /\ Works /\ specs' = [specs EXCEPT ![i] = "New"]
              /\ run' = [run EXCEPT !.pc = AfterSpec, !.spec = i, !.created = (Existing = {})]
           \/ Fails /\ specs' \in {specs, [specs EXCEPT ![i] = "New"]} /\ Throw
  BY DEF UploadSpec
<1>3. specs' \in [SpecIds -> Contents \cup {Absent}]
  BY <1>2, SMT DEF TypeOK, Contents
<1>4. StateNeverDangles'
  BY <1>1, SMT DEF StateNeverDangles
<1>5. RerunsNeverDuplicate'
  BY <1>2, SMT DEF RerunsNeverDuplicate, Existing, TypeOK
<1>6. CASE Fails /\ Throw
  BY <1>1, <1>3, <1>4, <1>5, <1>6, ThrowOK DEF TypeOK
<1>7. CASE /\ Works /\ specs' = [specs EXCEPT ![i] = "New"]
           /\ run' = [run EXCEPT !.pc = AfterSpec, !.spec = i, !.created = (Existing = {})]
  <2> DEFINE created == Existing = {}
  <2>1. /\ run \in RunState
        /\ run' = [run EXCEPT !.pc = AfterSpec, !.spec = i, !.created = created]
    BY <1>7 DEF TypeOK
  <2>2. /\ AfterSpec \in {"convert", "save"} /\ AfterSpec \in Stages
        /\ Full => AfterSpec = "convert"
    BY DEF AfterSpec, Stages
  <2>3. created \in BOOLEAN
    OBVIOUS
  <2> HIDE DEF created
  <2>4. run' \in RunState
    BY <2>1, <2>2, <2>3, FieldTypes
  <2>5. /\ run'.pc = AfterSpec /\ run'.spec = i /\ run'.scope = run.scope
        /\ run'.update = run.update /\ run'.reuse = run.reuse
        /\ run'.unchanged = run.unchanged /\ SameWork
    BY <2>1, SMT DEF RunState, SameWork
  <2>6. TypeOK'
    BY <1>1, <1>3, <1>7, <2>4, FaultsOK DEF TypeOK
  <2>7. LocalsAgree'
    BY <1>1, <2>2, <2>5, SMT DEF LocalsAgree, Begun, Ended, TypeOK, RunState
  <2>8. Recoverable'
    BY <1>1, <2>2, <2>5, SMT DEF Recoverable, Begun, Ended, SameWork
  <2>9. SpecHeld'
    BY <1>1, <1>7, <2>2, <2>5, RunAssumption, SMT DEF SpecHeld, TypeOK, Contents
  <2>10. ProvedCurrent'
    BY <1>1, <2>2, <2>5, SMT DEF ProvedCurrent, Full
  <2>11. FailedRunRestores' /\ StartsFresh' /\ WritesEnd' /\ Restoring'
    BY <1>1, <2>2, <2>5, SMT DEF FailedRunRestores, StartsFresh, WritesEnd, Restoring, At,
        SameWork, Ended
  <2> QED
    BY <1>4, <1>5, <2>6, <2>7, <2>8, <2>9, <2>10, <2>11
<1> QED
  BY <1>2, <1>6, <1>7

\* A step of the run that touches nothing outside it but the count of faults.
Silent == UNCHANGED <<specs, coll, link, file, start, crashes>> /\ (Fails \/ Works)

\* It keeps what does not depend on the stage that it moves to.
LEMMA SilentOK ==
    ASSUME IInv, Silent, run' \in RunState, Begun, Begun', SamePlan,
           run'.pc # "failed"
    PROVE  TypeOK' /\ StateNeverDangles' /\ RerunsNeverDuplicate' /\ FailedRunRestores'
           /\ StartsFresh' /\ LocalsAgree'
<1> USE DEF IInv
<1>1. TypeOK'
  BY FaultsOK DEF Silent, TypeOK
<1>2. StateNeverDangles' /\ RerunsNeverDuplicate'
  BY SMT DEF Silent, StateNeverDangles, RerunsNeverDuplicate, Existing
<1>3. FailedRunRestores' /\ StartsFresh'
  BY SMT DEF FailedRunRestores, StartsFresh, Begun, At
<1>4. LocalsAgree'
  BY SMT DEF Silent, LocalsAgree, SamePlan, TypeOK, RunState
<1> QED
  BY <1>1, <1>2, <1>3, <1>4

LEMMA ConvertOK == IInv /\ Convert => IInv'
<1> SUFFICES ASSUME IInv, Convert PROVE IInv'
  OBVIOUS
<1> USE DEF IInv
<1>1. run.pc = "convert" /\ run.writing = {} /\ Silent
  BY SMT DEF Convert, At, WritesEnd, Ended, Silent, cloud
<1>2. CASE Fails /\ FailOwned
  BY <1>1, <1>2, FailOwnedKeeps DEF Convert
<1>3. CASE Works /\ Goto("snapshot")
  <2>1. run' \in RunState /\ run'.pc = "snapshot" /\ SamePlan /\ SameWork
    BY <1>3, GotoOK DEF Stages
  <2>2. TypeOK' /\ StateNeverDangles' /\ RerunsNeverDuplicate' /\ FailedRunRestores'
        /\ StartsFresh' /\ LocalsAgree'
    BY <1>1, <2>1, SilentOK DEF Begun, Ended
  <2>3. WritesEnd' /\ SpecHeld' /\ Restoring' /\ ProvedCurrent'
    BY <1>1, <2>1, SMT DEF Silent, WritesEnd, SpecHeld, Restoring, ProvedCurrent, SamePlan, SameWork
  <2>4. Recoverable'
    BY <1>1, <2>1, SMT DEF Silent, Recoverable, Begun, Ended, SamePlan, SameWork
  <2> QED
    BY <2>2, <2>3, <2>4
<1> QED
  BY <1>2, <1>3 DEF Convert

LEMMA SnapshotOK == IInv /\ Snapshot => IInv'
<1> SUFFICES ASSUME IInv, Snapshot PROVE IInv'
  OBVIOUS
<1> USE DEF IInv
<1>1. run.pc = "snapshot" /\ run.writing = {} /\ Silent
  BY SMT DEF Snapshot, At, WritesEnd, Ended, Silent, cloud
<1>2. run.attempted = {} /\ run.proved = {}
  BY <1>1, SMT DEF Recoverable, Begun, Ended
<1>3. CASE Unread = {} /\ Works /\ Goto("write")
  <2>1. run' \in RunState /\ run'.pc = "write" /\ SamePlan /\ SameWork
    BY <1>3, GotoOK DEF Stages
  <2>2. TypeOK' /\ StateNeverDangles' /\ RerunsNeverDuplicate' /\ FailedRunRestores'
        /\ StartsFresh' /\ LocalsAgree'
    BY <1>1, <2>1, SilentOK DEF Begun, Ended
  <2>3. WritesEnd' /\ SpecHeld' /\ Restoring' /\ ProvedCurrent'
    BY <1>1, <1>2, <2>1, SMT DEF Silent, WritesEnd, SpecHeld, Restoring, ProvedCurrent,
        SamePlan, SameWork
  <2>4. \A r \in run.reuse : run.snaps[r] # None
    BY <1>3, SMT DEF Unread
  <2>5. Recoverable'
    BY <1>1, <2>1, <2>4, SMT DEF Silent, Recoverable, Begun, Ended, SamePlan, SameWork
  <2> QED
    BY <2>2, <2>3, <2>5
<1>4. CASE \E r \in Unread : Fails /\ FailOwned
  BY <1>1, <1>4, FailOwnedKeeps DEF Snapshot
<1>5. ASSUME NEW r \in Unread, Works, coll[r] # Absent, run' = [run EXCEPT !.snaps[r] = coll[r]]
      PROVE  IInv'
  <2>1. run \in RunState /\ r \in Roles /\ r \in run.reuse /\ coll[r] \in Contents
    BY <1>5, SMT DEF TypeOK, RunState, Unread
  <2>2. run' \in RunState
    BY <1>5, <2>1, FieldTypes
  <2>3. /\ run'.pc = run.pc /\ SamePlan /\ run'.attempted = run.attempted
        /\ run'.writing = run.writing /\ run'.proved = run.proved
        /\ run'.snaps = [run.snaps EXCEPT ![r] = coll[r]]
    BY <1>5, <2>1, SMT DEF RunState, SamePlan
  <2>4. TypeOK' /\ StateNeverDangles' /\ RerunsNeverDuplicate' /\ FailedRunRestores'
        /\ StartsFresh' /\ LocalsAgree'
    BY <1>1, <2>2, <2>3, SilentOK DEF Begun, Ended
  <2>5. WritesEnd' /\ SpecHeld' /\ Restoring' /\ ProvedCurrent'
    BY <1>1, <2>3, SMT DEF Silent, WritesEnd, SpecHeld, Restoring, ProvedCurrent, SamePlan
  <2>6. coll[r] = start.coll[r]
    BY <1>1, <1>2, <2>1, SMT DEF Recoverable, Begun, Ended
  <2>7. Recoverable'
    BY <1>1, <1>2, <2>1, <2>3, <2>6, SMT DEF Silent, Recoverable, Begun, Ended, SamePlan, TypeOK,
        RunState
  <2> QED
    BY <2>4, <2>5, <2>7
<1> QED
  BY <1>3, <1>4, <1>5 DEF Snapshot

-----------------------------------------------------------------------------
(* The role writes                                                          *)

LEMMA StartWriteOK == IInv /\ StartWrite => IInv'
<1> SUFFICES ASSUME IInv, StartWrite PROVE IInv'
  OBVIOUS
<1> USE DEF IInv
<1> DEFINE more == IF Role \in run.reuse /\ run.snaps[Role] # "New"
                   THEN run.attempted \cup {Role} ELSE run.attempted
<1>1. run.pc = "write" /\ Silent /\ Left
  BY SMT DEF StartWrite, At, Silent, cloud
<1>2. /\ run \in RunState
      /\ run' = [run EXCEPT !.next = run.next + 1, !.writing = run.writing \cup {Role},
                            !.attempted = more]
  BY SMT DEF StartWrite, TypeOK
<1>3. Role \in Roles /\ run.next + 1 \in 1..Len(RoleOrder) + 1
  BY <1>1, <1>2, RunAssumption, SMT DEF Left, Role, RunState
<1>4. run.writing \cup {Role} \in SUBSET Roles /\ more \in SUBSET Roles
  BY <1>2, <1>3, SMT DEF RunState
<1>5. more \subseteq run.attempted \cup {Role}
      /\ (\A r \in more : r \notin run.attempted => r \in run.reuse /\ run.snaps[r] # "New")
      /\ run.attempted \subseteq more
      /\ (Role \in run.reuse /\ Role \notin more => run.snaps[Role] = "New")
  OBVIOUS
<1> HIDE DEF more
<1>6. run' \in RunState
  BY <1>2, <1>3, <1>4, FieldTypes
<1>7. /\ run'.pc = run.pc /\ SamePlan /\ run'.attempted = more
      /\ run'.writing = run.writing \cup {Role}
      /\ run'.proved = run.proved /\ run'.snaps = run.snaps
  BY <1>2, SMT DEF RunState, SamePlan
<1>8. TypeOK' /\ StateNeverDangles' /\ RerunsNeverDuplicate' /\ FailedRunRestores'
      /\ StartsFresh' /\ LocalsAgree'
  BY <1>1, <1>6, <1>7, SilentOK DEF Begun, Ended
<1>9. WritesEnd' /\ SpecHeld' /\ Restoring'
  BY <1>1, <1>7, SMT DEF Silent, WritesEnd, SpecHeld, Restoring, SamePlan
<1>10. ProvedCurrent'
  BY <1>1, <1>5, <1>7, SMT DEF ProvedCurrent, SamePlan
<1>11. Recoverable'
  BY <1>1, <1>2, <1>5, <1>7, SMT DEF Silent, Recoverable, Begun, Ended, SamePlan, RunState
<1> QED
  BY <1>8, <1>9, <1>10, <1>11

LEMMA FinishedTyped ==
    ASSUME NEW s \in RunState, NEW w \in SUBSET Roles, NEW r \in Roles,
           NEW res \in Results \cup {None}, NEW b \in BOOLEAN, NEW p \in SUBSET Roles
    PROVE  [s EXCEPT !.writing = w, !.result[r] = res, !.lost = b, !.proved = p] \in RunState
BY FieldTypes

\* What one role's end does to the locals.
LEMMA FinishedOK ==
    ASSUME TypeOK, NEW r \in Roles, NEW res \in Results, run' = Finished(r, res)
    PROVE  /\ run' \in RunState /\ run'.pc = run.pc /\ SamePlan
           /\ run'.snaps = run.snaps /\ run'.attempted = run.attempted
           /\ run'.writing = run.writing \ {r}
           /\ run'.proved = IF res = "unchanged" THEN run.proved \cup {r} ELSE run.proved
<1> DEFINE lost == run.lost \/ res = "rejected"
           more == IF res = "unchanged" THEN run.proved \cup {r} ELSE run.proved
           rest == run.writing \ {r}
<1>1. /\ run \in RunState
      /\ run' = [run EXCEPT !.writing = rest, !.result[r] = res, !.lost = lost,
                            !.proved = more]
  BY DEF TypeOK, Finished
<1>2. lost \in BOOLEAN /\ res \in Results \cup {None}
  OBVIOUS
<1>3. rest \in SUBSET Roles /\ more \in SUBSET Roles
  BY <1>1, SMT DEF RunState
<1>4. /\ more = IF res = "unchanged" THEN run.proved \cup {r} ELSE run.proved
      /\ rest = run.writing \ {r}
  OBVIOUS
<1> HIDE DEF lost, more, rest
<1>5. [run EXCEPT !.writing = rest, !.result[r] = res, !.lost = lost, !.proved = more]
        \in RunState
  BY <1>1, <1>2, <1>3, FinishedTyped
<1>6. run' \in RunState
  BY <1>1, <1>5
<1>7. /\ run'.pc = run.pc /\ SamePlan /\ run'.snaps = run.snaps
      /\ run'.attempted = run.attempted /\ run'.proved = more /\ run'.writing = rest
  BY <1>1, SMT DEF RunState, SamePlan
<1> QED
  BY <1>4, <1>6, <1>7

LEMMA SkipRoleOK == ASSUME IInv, NEW r \in Roles, SkipRole(r) PROVE IInv'
<1> USE DEF IInv
<1>1. run.pc = "write" /\ Silent /\ r \in run.writing /\ r \in run.reuse \ run.attempted
  BY SMT DEF SkipRole, At, Silent, cloud
<1>2. /\ run' \in RunState /\ run'.pc = run.pc /\ SamePlan /\ run'.snaps = run.snaps
      /\ run'.attempted = run.attempted /\ run'.proved = run.proved \cup {r}
      /\ run'.writing = run.writing \ {r}
  BY FinishedOK DEF SkipRole, Results
<1>3. TypeOK' /\ StateNeverDangles' /\ RerunsNeverDuplicate' /\ FailedRunRestores'
      /\ StartsFresh' /\ LocalsAgree'
  BY <1>1, <1>2, SilentOK DEF Begun, Ended
<1>4. WritesEnd' /\ SpecHeld' /\ Restoring' /\ Recoverable'
  BY <1>1, <1>2, SMT DEF Silent, WritesEnd, SpecHeld, Restoring, Recoverable, Begun, Ended, SamePlan
<1>5. ProvedCurrent'
  BY <1>1, <1>2, SMT DEF ProvedCurrent, SamePlan
<1> QED
  BY <1>3, <1>4, <1>5

LEMMA WriteRoleOK == ASSUME IInv, NEW r \in Roles, WriteRole(r) PROVE IInv'
<1> USE DEF IInv
<1>1. /\ run.pc = "write" /\ r \in run.writing /\ r \in run.attempted \cup (Roles \ run.reuse)
      /\ UNCHANGED <<specs, link, file, start, crashes>> /\ (Fails \/ Works)
  BY SMT DEF WriteRole, At
<1>2. /\ \E c \in {coll[r], "New", "Mixed"} : coll' = [coll EXCEPT ![r] = c]
      /\ \E res \in {"update", "import", "rejected"} : run' = Finished(r, res)
  <2>1. coll = [coll EXCEPT ![r] = coll[r]]
    BY SMT DEF TypeOK
  <2> QED
    BY <2>1 DEF WriteRole, Written
<1>3. /\ run' \in RunState /\ run'.pc = run.pc /\ SamePlan /\ run'.snaps = run.snaps
      /\ run'.attempted = run.attempted /\ run'.proved = run.proved
      /\ run'.writing = run.writing \ {r}
  BY <1>2, FinishedOK DEF Results
<1>4. TypeOK'
  BY <1>1, <1>2, <1>3, FaultsOK, SMT DEF TypeOK, Contents
<1>5. StateNeverDangles' /\ RerunsNeverDuplicate'
  BY <1>1, <1>2, RunAssumption, SMT DEF TypeOK, StateNeverDangles, RerunsNeverDuplicate, Existing,
      Contents
<1>6. FailedRunRestores' /\ StartsFresh' /\ WritesEnd' /\ SpecHeld' /\ Restoring'
  BY <1>1, <1>3, SMT DEF FailedRunRestores, StartsFresh, WritesEnd, SpecHeld, Restoring, At, SamePlan
<1>7. LocalsAgree'
  BY <1>1, <1>3, SMT DEF LocalsAgree, Begun, Ended, SamePlan, TypeOK, RunState
<1>8. Recoverable'
  BY <1>1, <1>2, <1>3, SMT DEF Recoverable, Begun, Ended, SamePlan, TypeOK, RunState
<1>9. ProvedCurrent'
  BY <1>1, <1>3, SMT DEF ProvedCurrent, SamePlan
<1> QED
  BY <1>4, <1>5, <1>6, <1>7, <1>8, <1>9

LEMMA CollectWritesOK == IInv /\ CollectWrites => IInv'
<1> SUFFICES ASSUME IInv, CollectWrites PROVE IInv'
  OBVIOUS
<1> USE DEF IInv
<1>1. run.pc = "write" /\ run.writing = {} /\ Silent
  BY SMT DEF CollectWrites, At, Silent, cloud
<1>2. CASE FailOwned
  BY <1>1, <1>2, FailOwnedKeeps DEF CollectWrites
<1>3. CASE Goto("verify")
  <2>1. run' \in RunState /\ run'.pc = "verify" /\ SamePlan /\ SameWork
    BY <1>3, GotoOK DEF Stages
  <2>2. TypeOK' /\ StateNeverDangles' /\ RerunsNeverDuplicate' /\ FailedRunRestores'
        /\ StartsFresh' /\ LocalsAgree'
    BY <1>1, <2>1, SilentOK DEF Begun, Ended
  <2>3. WritesEnd' /\ SpecHeld' /\ Restoring' /\ Recoverable'
    BY <1>1, <2>1, SMT DEF Silent, WritesEnd, SpecHeld, Restoring, Recoverable, Begun, Ended,
        SamePlan, SameWork
  <2>4. \A r \in run.proved : coll[r] = "New"
    BY <1>1, RunAssumption, SMT DEF ProvedCurrent, Recoverable, Begun, Ended, Contents
  <2>5. ProvedCurrent'
    BY <1>1, <2>1, <2>4, SMT DEF Silent, ProvedCurrent, SamePlan, SameWork
  <2> QED
    BY <2>2, <2>3, <2>5
<1> QED
  BY <1>2, <1>3 DEF CollectWrites

LEMMA VerifyOK == IInv /\ Verify => IInv'
<1> SUFFICES ASSUME IInv, Verify PROVE IInv'
  OBVIOUS
<1> USE DEF IInv
<1>1. run.pc = "verify" /\ run.writing = {} /\ Silent
  BY SMT DEF Verify, At, Silent, WritesEnd, Ended, cloud
<1>2. CASE FailOwned
  BY <1>1, <1>2, FailOwnedKeeps DEF Verify
<1>3. CASE run.proved = Roles /\ Goto("link")
  <2>1. run' \in RunState /\ run'.pc = "link" /\ SamePlan /\ SameWork
    BY <1>3, GotoOK DEF Stages
  <2>2. TypeOK' /\ StateNeverDangles' /\ RerunsNeverDuplicate' /\ FailedRunRestores'
        /\ StartsFresh' /\ LocalsAgree'
    BY <1>1, <2>1, SilentOK DEF Begun, Ended
  <2>3. WritesEnd' /\ SpecHeld' /\ Restoring' /\ Recoverable'
    BY <1>1, <2>1, SMT DEF Silent, WritesEnd, SpecHeld, Restoring, Recoverable, Begun, Ended,
        SamePlan, SameWork
  <2>4. ProvedCurrent'
    BY <1>1, <1>3, <2>1, SMT DEF Silent, ProvedCurrent, SamePlan, SameWork
  <2> QED
    BY <2>2, <2>3, <2>4
<1>4. ASSUME NEW r \in Roles \ run.proved, coll[r] = "New",
             run' = [run EXCEPT !.proved = run.proved \cup {r}]
      PROVE  IInv'
  <2>1. run \in RunState /\ run.proved \cup {r} \in SUBSET Roles
    BY SMT DEF TypeOK, RunState
  <2>2. run' \in RunState
    BY <1>4, <2>1, FieldTypes
  <2>3. /\ run'.pc = run.pc /\ SamePlan /\ run'.snaps = run.snaps
        /\ run'.attempted = run.attempted /\ run'.writing = run.writing
        /\ run'.proved = run.proved \cup {r}
    BY <1>4, <2>1, SMT DEF RunState, SamePlan
  <2>4. TypeOK' /\ StateNeverDangles' /\ RerunsNeverDuplicate' /\ FailedRunRestores'
        /\ StartsFresh' /\ LocalsAgree'
    BY <1>1, <2>2, <2>3, SilentOK DEF Begun, Ended
  <2>5. WritesEnd' /\ SpecHeld' /\ Restoring' /\ Recoverable'
    BY <1>1, <2>3, SMT DEF Silent, WritesEnd, SpecHeld, Restoring, Recoverable, Begun, Ended, SamePlan
  <2>6. ProvedCurrent'
    BY <1>1, <1>4, <2>3, SMT DEF Silent, ProvedCurrent, SamePlan
  <2> QED
    BY <2>4, <2>5, <2>6
<1> QED
  BY <1>2, <1>3, <1>4 DEF Verify

-----------------------------------------------------------------------------
(* Publication                                                              *)

LEMMA LinkOK == IInv /\ Link => IInv'
<1> SUFFICES ASSUME IInv, Link PROVE IInv'
  OBVIOUS
<1> USE DEF IInv
<1>1. /\ run.pc = "link" /\ UNCHANGED <<specs, coll, file, start, crashes>> /\ (Fails \/ Works)
      /\ run.spec \in SpecIds
  BY SMT DEF Link, At, SpecHeld
<1>2. LinkedNow \in [Roles -> SpecIds \cup {None}]
  BY <1>1, SMT DEF LinkedNow, TypeOK
<1>3. link' \in [Roles -> SpecIds \cup {None}]
  BY <1>2, SMT DEF Link, TypeOK
<1>4. StateNeverDangles' /\ RerunsNeverDuplicate'
  BY <1>1, SMT DEF StateNeverDangles, RerunsNeverDuplicate, Existing
<1>5. CASE Throw
  BY <1>1, <1>3, <1>4, <1>5, ThrowOK DEF TypeOK
<1>6. CASE Goto("tag") /\ (Linked = Roles => link' = LinkedNow)
  <2>1. run' \in RunState /\ run'.pc = "tag" /\ SamePlan /\ SameWork
    BY <1>6, GotoOK DEF Stages
  <2>2. TypeOK'
    BY <1>1, <1>3, <2>1, FaultsOK DEF TypeOK
  <2>3. LocalsAgree'
    BY <1>1, <2>1, SMT DEF LocalsAgree, Begun, Ended, SamePlan, TypeOK, RunState
  <2>4. /\ FailedRunRestores' /\ StartsFresh' /\ WritesEnd' /\ SpecHeld' /\ Restoring'
        /\ Recoverable'
    BY <1>1, <2>1, SMT DEF FailedRunRestores, StartsFresh, WritesEnd, SpecHeld, Restoring,
        Recoverable, Begun, Ended, At, SamePlan, SameWork
  <2>5. ~run.unchanged => \A r \in Roles : link'[r] = run.spec
    BY <1>6, SMT DEF Linked, LinkedNow
  <2>6. ProvedCurrent'
    BY <1>1, <2>1, <2>5, SMT DEF ProvedCurrent, Full, SamePlan, SameWork
  <2> QED
    BY <1>4, <2>2, <2>3, <2>4, <2>6
<1> QED
  <2>1. (Goto("tag") /\ (Linked = Roles => link' = LinkedNow)) \/ Throw
        \/ (Linked = {} /\ Goto("tag"))
    BY DEF Link
  <2>2. CASE Linked = {} /\ Linked = Roles /\ Goto("tag")
    <3>1. link' = LinkedNow
      BY <1>3, <2>2, <1>2, SMT
    <3> QED
      BY <1>6, <2>2, <3>1
  <2> QED
    BY <1>5, <1>6, <2>1, <2>2

LEMMA TagOK == IInv /\ Tag => IInv'
<1> SUFFICES ASSUME IInv, Tag PROVE IInv'
  OBVIOUS
<1> USE DEF IInv
<1>1. run.pc = "tag" /\ Silent
  BY SMT DEF Tag, At, Silent, cloud
<1>2. CASE Throw
  <2>1. StateNeverDangles' /\ RerunsNeverDuplicate'
    BY <1>1, SMT DEF Silent, StateNeverDangles, RerunsNeverDuplicate, Existing
  <2>2. /\ specs' \in [SpecIds -> Contents \cup {Absent}]
        /\ link' \in [Roles -> SpecIds \cup {None}]
    BY <1>1, SMT DEF Silent, TypeOK
  <2> QED
    BY <1>1, <1>2, <2>1, <2>2, ThrowOK DEF Silent
<1>3. CASE Linked = Roles /\ Goto("save")
  <2>1. run' \in RunState /\ run'.pc = "save" /\ SamePlan /\ SameWork
    BY <1>3, GotoOK DEF Stages
  <2>2. TypeOK' /\ StateNeverDangles' /\ RerunsNeverDuplicate' /\ FailedRunRestores'
        /\ StartsFresh' /\ LocalsAgree'
    BY <1>1, <2>1, SilentOK DEF Begun, Ended
  <2>3. WritesEnd' /\ SpecHeld' /\ Restoring' /\ Recoverable'
    BY <1>1, <2>1, SMT DEF Silent, WritesEnd, SpecHeld, Restoring, Recoverable, Begun, Ended,
        SamePlan, SameWork
  <2>4. ProvedCurrent'
    BY <1>1, <2>1, SMT DEF Silent, ProvedCurrent, Full, SamePlan
  <2> QED
    BY <2>2, <2>3, <2>4
<1> QED
  BY <1>2, <1>3 DEF Tag

\* What Save writes: the ids of assets that exist.
LEMMA SaveOK == IInv /\ Save => IInv'
<1> SUFFICES ASSUME IInv, Save PROVE IInv'
  OBVIOUS
<1> USE DEF IInv
<1>1. /\ run.pc = "save" /\ UNCHANGED <<specs, coll, link, start, crashes>> /\ (Fails \/ Works)
      /\ run.spec \in SpecIds /\ specs[run.spec] # Absent
  BY SMT DEF Save, At, SpecHeld, cloud
<1>2. RerunsNeverDuplicate'
  BY <1>1, SMT DEF RerunsNeverDuplicate, Existing
<1>3. CASE Throw /\ UNCHANGED file
  <2>1. StateNeverDangles'
    BY <1>1, <1>3, SMT DEF StateNeverDangles
  <2>2. /\ specs' \in [SpecIds -> Contents \cup {Absent}]
        /\ link' \in [Roles -> SpecIds \cup {None}]
    BY <1>1, SMT DEF TypeOK
  <2> QED
    BY <1>1, <1>2, <1>3, <2>1, <2>2, ThrowOK
<1> DEFINE roles == IF Full THEN file.roles \cup Linked ELSE file.roles
<1>4. CASE /\ file' = [spec |-> run.spec, roles |-> roles]
           /\ run' = [run EXCEPT !.pc = "published", !.created = FALSE]
  <2>1. run \in RunState /\ "published" \in Stages /\ FALSE \in BOOLEAN
    BY DEF TypeOK, Stages
  <2>2. run' \in RunState
    BY <1>4, <2>1, FieldTypes
  <2>3. run'.pc = "published"
    BY <1>4, <2>1, SMT DEF RunState
  <2>4. roles \in SUBSET Roles
    BY <2>1, SMT DEF TypeOK, RunState, Linked
  <2>5. \A r \in roles : coll[r] # Absent
    <3>1. \A r \in file.roles : coll[r] # Absent
      BY DEF StateNeverDangles
    <3>2. Full /\ run.unchanged => Linked = file.roles
      BY <1>1, SMT DEF Linked, LocalsAgree, Begun, Ended
    <3>3. Full /\ ~run.unchanged => \A r \in Roles : coll[r] # Absent
      BY <1>1, RunAssumption, SMT DEF ProvedCurrent, Contents
    <3> QED
      BY <2>4, <3>1, <3>2, <3>3
  <2>6. file'.spec = run.spec /\ file'.roles = roles /\ file' \in [spec : SpecIds \cup {None}, roles : SUBSET Roles]
    BY <1>1, <1>4, <2>4, SMT
  <2>7. TypeOK'
    BY <1>1, <2>2, <2>6, FaultsOK DEF TypeOK
  <2>8. StateNeverDangles'
    BY <1>1, <2>5, <2>6, SMT DEF StateNeverDangles
  <2>9. /\ FailedRunRestores' /\ StartsFresh' /\ WritesEnd' /\ LocalsAgree' /\ SpecHeld'
        /\ Recoverable' /\ Restoring' /\ ProvedCurrent'
    BY <2>3, SMT DEF FailedRunRestores, StartsFresh, WritesEnd, LocalsAgree, SpecHeld,
        Recoverable, Restoring, ProvedCurrent, At, Begun, Ended
  <2> QED
    BY <1>2, <2>7, <2>8, <2>9
<1> QED
  BY <1>3, <1>4 DEF Save

-----------------------------------------------------------------------------
(* Rollback and the runner                                                  *)

LEMMA RestoreOneOK == ASSUME IInv, NEW r \in Roles, RestoreOne(r) PROVE IInv'
<1> USE DEF IInv
<1>1. /\ run.pc \in {"ownedRestore", "catchRestore"} /\ r \in run.todo
      /\ UNCHANGED <<specs, link, file, start, crashes>> /\ (Fails \/ Works)
  BY DEF RestoreOne
<1>2. /\ r \in run.attempted /\ r \in run.reuse /\ run.snaps[r] \in Contents
      /\ run.snaps[r] = start.coll[r]
  BY <1>1, RunAssumption, SMT DEF Restoring, Recoverable, Begun, Ended
<1>3. /\ run \in RunState /\ run.todo \ {r} \in SUBSET Roles /\ TRUE \in BOOLEAN
  BY SMT DEF TypeOK, RunState
<1>4. /\ run' \in RunState /\ run'.pc = run.pc /\ SamePlan /\ SameWork
      /\ run'.todo = run.todo \ {r}
      /\ \/ /\ coll' = [coll EXCEPT ![r] = run.snaps[r]]
            /\ run'.restoreFailed = run.restoreFailed
         \/ /\ coll' \in {coll, [coll EXCEPT ![r] = run.snaps[r]]}
            /\ run'.restoreFailed = TRUE
  <2>1. CASE /\ coll' = [coll EXCEPT ![r] = run.snaps[r]]
             /\ run' = [run EXCEPT !.todo = run.todo \ {r}]
    <3>1. run' \in RunState
      BY <1>3, <2>1, FieldTypes
    <3> QED
      BY <1>3, <2>1, <3>1, SMT DEF RunState, SamePlan, SameWork
  <2>2. CASE /\ coll' \in {coll, [coll EXCEPT ![r] = run.snaps[r]]}
             /\ run' = [run EXCEPT !.todo = run.todo \ {r}, !.restoreFailed = TRUE]
    <3>1. run' \in RunState
      BY <1>3, <2>2, FieldTypes
    <3>2. /\ run'.pc = run.pc /\ SamePlan /\ SameWork /\ run'.todo = run.todo \ {r}
          /\ run'.restoreFailed = TRUE
      BY <1>3, <2>2, SMT DEF RunState, SamePlan, SameWork
    <3> QED
      BY <2>2, <3>1, <3>2
  <2> QED
    BY <2>1, <2>2 DEF RestoreOne
<1>5. coll' \in {coll, [coll EXCEPT ![r] = run.snaps[r]]}
  BY <1>4
<1>6. TypeOK'
  BY <1>1, <1>2, <1>4, <1>5, FaultsOK, SMT DEF TypeOK
<1>7. StateNeverDangles' /\ RerunsNeverDuplicate'
  <2>1. \A x \in Roles : coll[x] # Absent => coll'[x] # Absent
    <3>1. coll \in [Roles -> Contents \cup {Absent}] /\ run.snaps[r] # Absent
      BY <1>2, RunAssumption DEF TypeOK
    <3> QED
      BY <1>5, <3>1
  <2>2. file.roles \subseteq Roles
    BY SMT DEF TypeOK
  <2>3. StateNeverDangles'
    BY <1>1, <2>1, <2>2 DEF StateNeverDangles
  <2> QED
    BY <1>1, <2>3 DEF RerunsNeverDuplicate, Existing
<1>8. FailedRunRestores' /\ StartsFresh' /\ WritesEnd' /\ SpecHeld' /\ ProvedCurrent'
  BY <1>1, <1>4, SMT DEF FailedRunRestores, StartsFresh, WritesEnd, SpecHeld, ProvedCurrent,
      At, Ended, SameWork
<1>9. LocalsAgree'
  BY <1>1, <1>4, SMT DEF LocalsAgree, Begun, Ended, SamePlan, TypeOK, RunState
<1>10. Recoverable'
  <2>1. run'.pc = run.pc /\ SamePlan /\ SameWork
    BY <1>4
  <2>2. \A q \in Roles : q # r => coll'[q] = coll[q]
    BY <1>5, SMT DEF TypeOK
  <2>3. run.reuse \subseteq Roles
    BY <1>3, SMT DEF RunState
  <2> QED
    BY <1>1, <1>2, <2>1, <2>2, <2>3, SMT DEF Recoverable, Begun, Ended, SamePlan, SameWork
<1>11. Restoring'
  <2>1. /\ run.todo \subseteq run.attempted
        /\ ~run.restoreFailed => \A q \in run.attempted \ run.todo : coll[q] = start.coll[q]
    BY <1>1 DEF Restoring
  <2>2. run'.pc # "restoreSpec" /\ run'.attempted = run.attempted /\ start' = start
    BY <1>1, <1>4, SMT DEF SameWork
  <2>3. CASE run'.restoreFailed = TRUE
    BY <1>4, <2>1, <2>2, <2>3 DEF Restoring
  <2>4. CASE /\ coll' = [coll EXCEPT ![r] = run.snaps[r]]
             /\ run'.restoreFailed = run.restoreFailed
    <3>1. ~run.restoreFailed =>
            \A q \in run.attempted \ (run.todo \ {r}) : coll'[q] = start.coll[q]
      BY <1>2, <2>1, <2>4, SMT DEF TypeOK, RunState
    <3> QED
      BY <1>4, <2>1, <2>2, <2>4, <3>1 DEF Restoring
  <2> QED
    BY <1>4, <2>3, <2>4
<1> QED
  BY <1>6, <1>7, <1>8, <1>9, <1>10, <1>11

LEMMA OwnedDoneOK == IInv /\ OwnedDone => IInv'
<1> SUFFICES ASSUME IInv, OwnedDone PROVE IInv'
  OBVIOUS
<1> USE DEF IInv
<1> DEFINE kept == IF run.restoreFailed THEN run.attempted ELSE {}
           failed == run.restoreFailed
<1>1. run.pc = "ownedRestore" /\ run.todo = {} /\ Silent
  BY SMT DEF OwnedDone, At, Silent, cloud
<1>2. /\ run \in RunState
      /\ run' = [run EXCEPT !.pc = "catch", !.ownedFailed = failed, !.attempted = kept]
  BY DEF TypeOK, OwnedDone
<1>3. failed \in BOOLEAN /\ kept \in SUBSET Roles /\ kept \subseteq run.attempted /\ "catch" \in Stages
  BY <1>2, SMT DEF RunState, Stages
<1>4. \A r \in run.attempted \ kept : coll[r] = start.coll[r]
  BY <1>1, SMT DEF Restoring
<1> HIDE DEF kept, failed
<1>5. run' \in RunState
  BY <1>2, <1>3, FieldTypes
<1>6. /\ run'.pc = "catch" /\ SamePlan /\ run'.attempted = kept /\ run'.snaps = run.snaps
      /\ run'.writing = run.writing
  BY <1>2, SMT DEF RunState, SamePlan
<1>7. TypeOK' /\ StateNeverDangles' /\ RerunsNeverDuplicate' /\ FailedRunRestores'
      /\ StartsFresh' /\ LocalsAgree'
  BY <1>1, <1>5, <1>6, SilentOK DEF Begun, Ended
<1>8. WritesEnd' /\ SpecHeld' /\ Restoring' /\ ProvedCurrent'
  BY <1>1, <1>6, SMT DEF WritesEnd, SpecHeld, Restoring, ProvedCurrent, Ended
<1>9. Recoverable'
  BY <1>1, <1>3, <1>4, <1>6, SMT DEF Silent, Recoverable, Begun, Ended, SamePlan
<1> QED
  BY <1>7, <1>8, <1>9

LEMMA CatchOK == IInv /\ Catch => IInv'
<1> SUFFICES ASSUME IInv, Catch PROVE IInv'
  OBVIOUS
<1> USE DEF IInv
<1>1. run.pc = "catch" /\ Silent
  BY SMT DEF Catch, At, Silent, cloud
<1>2. /\ run \in RunState
      /\ run' = [run EXCEPT !.pc = "catchRestore", !.todo = run.attempted,
                            !.restoreFailed = FALSE]
  BY DEF TypeOK, Catch
<1>3. run.attempted \in SUBSET Roles /\ "catchRestore" \in Stages /\ FALSE \in BOOLEAN
  BY <1>2, SMT DEF RunState, Stages
<1>4. run' \in RunState
  BY <1>2, <1>3, FieldTypes
<1>5. run'.pc = "catchRestore" /\ SamePlan /\ SameWork /\ run'.todo = run.attempted
  BY <1>2, SMT DEF RunState, SamePlan, SameWork
<1>6. TypeOK' /\ StateNeverDangles' /\ RerunsNeverDuplicate' /\ FailedRunRestores'
      /\ StartsFresh' /\ LocalsAgree'
  BY <1>1, <1>4, <1>5, SilentOK DEF Begun, Ended
<1>7. WritesEnd' /\ SpecHeld' /\ Restoring' /\ ProvedCurrent' /\ Recoverable'
  BY <1>1, <1>5, SMT DEF Silent, WritesEnd, SpecHeld, Restoring, ProvedCurrent, Recoverable,
      Begun, Ended, SamePlan, SameWork
<1> QED
  BY <1>6, <1>7

\* A run that has ended, otherwise than as an ordinary failure, claims nothing.
LEMMA EndedOK ==
    ASSUME TypeOK', StateNeverDangles', RerunsNeverDuplicate',
           run'.pc \in {"published", "rollbackFailed", "crashed"}
    PROVE  IInv'
BY SMT DEF IInv, FailedRunRestores, StartsFresh, WritesEnd, LocalsAgree, SpecHeld, Recoverable,
    Restoring, ProvedCurrent, At, Begun, Ended

LEMMA CatchDoneOK == IInv /\ CatchDone => IInv'
<1> SUFFICES ASSUME IInv, CatchDone PROVE IInv'
  OBVIOUS
<1> USE DEF IInv
<1>1. run.pc = "catchRestore" /\ run.todo = {} /\ Silent /\ run \in RunState
  BY SMT DEF CatchDone, At, Silent, TypeOK, cloud
<1>2. StateNeverDangles' /\ RerunsNeverDuplicate'
  BY <1>1, SMT DEF Silent, StateNeverDangles, RerunsNeverDuplicate, Existing
<1>3. CASE run.restoreFailed
  <2>1. run' = [run EXCEPT !.pc = "rollbackFailed"]
    BY <1>3 DEF CatchDone
  <2>2. run' \in RunState
    BY <1>1, <2>1, FieldTypes DEF Stages
  <2>3. run'.pc = "rollbackFailed"
    BY <1>1, <2>1, SMT DEF RunState
  <2>4. TypeOK'
    BY <1>1, <2>2, FaultsOK DEF Silent, TypeOK
  <2> QED
    BY <1>2, <2>3, <2>4, EndedOK
<1>4. CASE ~run.restoreFailed
  <2>1. run' = [run EXCEPT !.pc = "restoreSpec", !.attempted = {}]
    BY <1>4 DEF CatchDone
  <2>2. "restoreSpec" \in Stages /\ {} \in SUBSET Roles
    BY DEF Stages
  <2>3. run' \in RunState
    BY <1>1, <2>1, <2>2, FieldTypes
  <2>4. /\ run'.pc = "restoreSpec" /\ SamePlan /\ run'.attempted = {} /\ run'.snaps = run.snaps
        /\ run'.writing = run.writing
    BY <1>1, <2>1, SMT DEF RunState, SamePlan
  <2>5. TypeOK' /\ StateNeverDangles' /\ RerunsNeverDuplicate' /\ FailedRunRestores'
        /\ StartsFresh' /\ LocalsAgree'
    BY <1>1, <2>3, <2>4, SilentOK DEF Begun, Ended
  <2>6. \A r \in run.attempted : coll[r] = start.coll[r]
    BY <1>1, <1>4 DEF Restoring
  <2>7. Recoverable'
    BY <1>1, <2>4, <2>6, SMT DEF Silent, Recoverable, Begun, Ended, SamePlan
  <2>8. WritesEnd' /\ SpecHeld' /\ Restoring' /\ ProvedCurrent'
    BY <1>1, <2>4, SMT DEF WritesEnd, SpecHeld, Restoring, ProvedCurrent, Ended
  <2> QED
    BY <2>5, <2>7, <2>8
<1> QED
  BY <1>3, <1>4

\* The last rollback step leaves what the run found, or says that it did not.
LEMMA RestoreSpecOK == IInv /\ RestoreSpec => IInv'
<1> SUFFICES ASSUME IInv, RestoreSpec PROVE IInv'
  OBVIOUS
<1> USE DEF IInv
<1>1. /\ run.pc = "restoreSpec" /\ UNCHANGED <<coll, link, file, start, crashes>>
      /\ (Fails \/ Works) /\ start.file = file /\ run.reuse = file.roles
      /\ \A r \in file.roles : coll[r] = start.coll[r]
  BY SMT DEF RestoreSpec, At, LocalsAgree, Recoverable, Restoring, Begun, Ended
<1>2. \/ run.created /\ file.spec = None /\ run.spec \in SpecIds
      \/ /\ ~run.created /\ run.update /\ run.spec = file.spec /\ run.spec \in SpecIds
         /\ run.prev \in Contents /\ run.prev = start.specs[run.spec]
      \/ ~run.created /\ ~run.update /\ file.spec = None
  BY <1>1, SMT DEF LocalsAgree, TypeOK, Begun, Ended
<1>3. /\ specs' \in [SpecIds -> Contents \cup {Absent}] /\ StateNeverDangles'
      /\ RerunsNeverDuplicate'
      /\ (specs' = SpecRestored /\ file.spec # None)
           => specs'[file.spec] = start.specs[file.spec]
  <2>1. specs' \in {specs, SpecRestored}
    BY DEF RestoreSpec
  <2>2. CASE specs' = specs /\ specs # SpecRestored
    BY <1>1, <2>2, SMT DEF StateNeverDangles, RerunsNeverDuplicate, Existing, TypeOK
  <2>3. CASE specs' = SpecRestored
    <3>1. CASE run.created /\ file.spec = None /\ run.spec \in SpecIds
      <4>1. specs' = [specs EXCEPT ![run.spec] = Absent]
        BY <2>3, <3>1 DEF SpecRestored
      <4> QED
        BY <1>1, <3>1, <4>1, SMT DEF StateNeverDangles, RerunsNeverDuplicate, Existing, TypeOK
    <3>2. CASE /\ ~run.created /\ run.update /\ run.spec = file.spec /\ run.spec \in SpecIds
               /\ run.prev \in Contents /\ run.prev = start.specs[run.spec]
      <4>1. specs' = [specs EXCEPT ![run.spec] = run.prev]
        BY <2>3, <3>2 DEF SpecRestored
      <4>2. file.spec # None /\ specs[run.spec] # Absent
        BY <3>2, RunAssumption DEF StateNeverDangles
      <4>3. run.spec = file.spec /\ run.spec \in SpecIds /\ run.prev \in Contents
            /\ run.prev = start.specs[run.spec]
        BY <3>2
      <4> QED
        BY <1>1, <4>1, <4>2, <4>3, RunAssumption, SMT DEF StateNeverDangles,
            RerunsNeverDuplicate, Existing, TypeOK
    <3>3. CASE ~run.created /\ ~run.update /\ file.spec = None
      <4>1. specs' = specs /\ file.spec = None
        BY <2>3, <3>3 DEF SpecRestored
      <4> QED
        BY <1>1, <4>1, SMT DEF StateNeverDangles, RerunsNeverDuplicate, Existing, TypeOK
    <3> QED
      BY <1>2, <3>1, <3>2, <3>3
  <2> QED
    BY <2>1, <2>2, <2>3
<1>4. CASE Goto("rollbackFailed")
  <2>1. run' \in RunState /\ run'.pc = "rollbackFailed"
    BY <1>4, GotoOK DEF Stages
  <2>2. TypeOK'
    BY <1>1, <1>3, <2>1, FaultsOK DEF TypeOK
  <2> QED
    BY <1>3, <2>1, <2>2, EndedOK
<1>5. CASE Goto("failed") /\ specs' = SpecRestored
  <2>1. run' \in RunState /\ run'.pc = "failed"
    BY <1>5, GotoOK DEF Stages
  <2>2. TypeOK'
    BY <1>1, <1>3, <2>1, FaultsOK DEF TypeOK
  <2>3. FailedRunRestores'
    BY <1>1, <1>3, <1>5, SMT DEF FailedRunRestores
  <2>4. /\ StartsFresh' /\ WritesEnd' /\ LocalsAgree' /\ SpecHeld' /\ Recoverable' /\ Restoring'
        /\ ProvedCurrent'
    BY <2>1, SMT DEF StartsFresh, WritesEnd, LocalsAgree, SpecHeld, Recoverable, Restoring,
        ProvedCurrent, At, Begun, Ended
  <2> QED
    BY <1>3, <2>2, <2>3, <2>4
<1> QED
  <2>1. (specs' = SpecRestored /\ (Goto("failed") \/ Goto("rollbackFailed")))
        \/ Goto("rollbackFailed")
    BY DEF RestoreSpec
  <2> QED
    BY <1>4, <1>5, <2>1

LEMMA CrashOK == IInv /\ Crash => IInv'
<1> SUFFICES ASSUME IInv, Crash PROVE IInv'
  OBVIOUS
<1> USE DEF IInv
<1>1. run' \in RunState /\ run'.pc = "crashed"
  BY GotoOK DEF Crash, Stages
<1>2. PICK done \in SUBSET run.writing :
        coll' = [r \in Roles |-> IF r \in done \ (run.reuse \ run.attempted)
                                 THEN "New" ELSE coll[r]]
  BY DEF Crash
<1>3. UNCHANGED <<specs, link, file, start, faults>> /\ crashes' \in 0..MaxCrashes
  BY RunAssumption, SMT DEF Crash, TypeOK
<1>4. TypeOK'
  BY <1>1, <1>2, <1>3, SMT DEF TypeOK, Contents
<1>5. StateNeverDangles' /\ RerunsNeverDuplicate'
  BY <1>2, <1>3, RunAssumption, SMT DEF StateNeverDangles, RerunsNeverDuplicate, Existing, TypeOK,
      Contents
<1> QED
  BY <1>1, <1>4, <1>5, EndedOK

LEMMA RerunOK == IInv /\ Rerun => IInv'
<1> SUFFICES ASSUME IInv, Rerun PROVE IInv'
  OBVIOUS
<1> USE DEF IInv
<1>1. run' = FreshRun /\ UNCHANGED <<specs, coll, link, file, start, faults, crashes>>
  BY SMT DEF Rerun, cloud
<1>2. TypeOK'
  BY <1>1, FreshTyped DEF TypeOK
<1>3. StateNeverDangles' /\ RerunsNeverDuplicate' /\ StartsFresh'
  BY <1>1, SMT DEF StateNeverDangles, RerunsNeverDuplicate, Existing, StartsFresh
<1>4. /\ FailedRunRestores' /\ WritesEnd' /\ LocalsAgree' /\ SpecHeld' /\ Recoverable'
      /\ Restoring' /\ ProvedCurrent'
  BY <1>1, SMT DEF FreshRun, FailedRunRestores, WritesEnd, LocalsAgree, SpecHeld, Recoverable,
      Restoring, ProvedCurrent, At, Begun, Ended
<1> QED
  BY <1>2, <1>3, <1>4

-----------------------------------------------------------------------------
(* The theorems                                                             *)

LEMMA NextOK == IInv /\ [Next]_vars => IInv'
<1> SUFFICES ASSUME IInv, [Next]_vars PROVE IInv'
  OBVIOUS
<1>1. CASE UNCHANGED vars
  <2>1. UNCHANGED <<specs, coll, link, file, run, start, faults, crashes>>
    BY <1>1 DEF vars, cloud
  <2> QED
    BY <2>1, SMT DEF IInv, TypeOK, StateNeverDangles, RerunsNeverDuplicate, Existing,
        FailedRunRestores, StartsFresh, WritesEnd, LocalsAgree, SpecHeld, Recoverable,
        Restoring, ProvedCurrent, At, Begun, Full
<1>2. CASE Step
  <2>1. CASE Preflight \/ KeepSpec \/ UpdateSpec \/ UploadSpec \/ Convert \/ Snapshot
    BY <2>1, PreflightOK, KeepSpecOK, UpdateSpecOK, UploadSpecOK, ConvertOK, SnapshotOK
  <2>2. CASE StartWrite \/ CollectWrites \/ Verify \/ Link \/ Tag \/ Save
    BY <2>2, StartWriteOK, CollectWritesOK, VerifyOK, LinkOK, TagOK, SaveOK
  <2>3. CASE OwnedDone \/ Catch \/ CatchDone \/ RestoreSpec
    BY <2>3, OwnedDoneOK, CatchOK, CatchDoneOK, RestoreSpecOK
  <2>4. CASE \E r \in Roles : SkipRole(r) \/ WriteRole(r) \/ RestoreOne(r)
    BY <2>4, SkipRoleOK, WriteRoleOK, RestoreOneOK
  <2> QED
    BY <1>2, <2>1, <2>2, <2>3, <2>4 DEF Step
<1>3. CASE Crash \/ Rerun
  BY <1>3, CrashOK, RerunOK
<1> QED
  BY <1>1, <1>2, <1>3 DEF Next

LEMMA Inductive == Spec => []IInv
BY InitOK, NextOK, PTL DEF Spec

\* Every variable stays in its set: rollback never writes back a content that
\* was not read.
THEOREM TypeCorrect == Spec => []TypeOK
<1>1. IInv => TypeOK
  BY DEF IInv
<1> QED
  BY <1>1, Inductive, PTL

\* restoreAttemptedDeepUpdates and restorePreviousSpecContent: a run that ends
\* with an ordinary error has put back every tracked collection and the tracked
\* specification, whichever calls failed and whichever of those were executed.
THEOREM FailureRestores == Spec => []FailedRunRestores
<1>1. IInv => FailedRunRestores
  BY DEF IInv
<1> QED
  BY <1>1, Inductive, PTL

\* The two lanes of the role writes have returned before either rollback route
\* begins.
THEOREM LanesEndFirst == Spec => []RollbackAfterLanes
<1>1. IInv => RollbackAfterLanes
  BY SMT DEF IInv, WritesEnd, RollbackAfterLanes, Ended
<1> QED
  BY <1>1, Inductive, PTL

\* deepUpdateSnapshots and attemptedDeepUpdates: a reused collection differs
\* from what the run found only under a registered snapshot of what it found.
THEOREM SnapshotsFirst == Spec => []SnapshotBeforeWrite
<1>1. IInv => SnapshotBeforeWrite
  <2> SUFFICES ASSUME IInv, Begun, NEW r \in run.reuse, coll[r] # start.coll[r]
               PROVE  r \in run.attempted /\ run.snaps[r] = start.coll[r]
    BY DEF SnapshotBeforeWrite, Begun
  <2>1. r \in run.attempted
    BY DEF IInv, Recoverable
  <2>2. run.snaps[r] # None
    BY <2>1, RunAssumption DEF IInv, Recoverable
  <2> QED
    BY <2>1, <2>2 DEF IInv, Recoverable
<1> QED
  BY <1>1, Inductive, PTL

\* However runs are killed and restarted, .postman/resources.yaml never names
\* an asset that does not exist.
THEOREM StateNamesAssets == Spec => []StateNeverDangles
<1>1. IInv => StateNeverDangles
  BY DEF IInv
<1> QED
  BY <1>1, Inductive, PTL

\* However runs are killed and restarted, there is one specification of the name.
THEOREM OneSpecification == Spec => []RerunsNeverDuplicate
<1>1. IInv => RerunsNeverDuplicate
  BY DEF IInv
<1> QED
  BY <1>1, Inductive, PTL

LEMMA OnlySaveWrites == Next /\ ~Save => UNCHANGED file
<1>1. Preflight \/ KeepSpec \/ UpdateSpec \/ UploadSpec \/ Convert \/ Snapshot => UNCHANGED file
  BY DEF Preflight, KeepSpec, UpdateSpec, UploadSpec, Convert, Snapshot
<1>2. StartWrite \/ CollectWrites \/ Verify \/ Link \/ Tag => UNCHANGED file
  BY DEF StartWrite, CollectWrites, Verify, Link, Tag
<1>3. OwnedDone \/ Catch \/ CatchDone \/ RestoreSpec \/ Crash \/ Rerun => UNCHANGED file
  BY DEF OwnedDone, Catch, CatchDone, RestoreSpec, Crash, Rerun
<1>4. \A r \in Roles : SkipRole(r) \/ WriteRole(r) \/ RestoreOne(r) => UNCHANGED file
  BY DEF SkipRole, WriteRole, RestoreOne
<1> QED
  BY <1>1, <1>2, <1>3, <1>4 DEF Next, Step

\* The only write of the asset ids follows verification and linking of what it
\* names.
THEOREM SavedAfterProof == Spec => SavedOnlyVerified
<1>1. IInv /\ [Next]_vars =>
        [file' # file /\ Full =>
           /\ \A r \in file'.roles : coll[r] = "New" /\ link[r] = file'.spec
           /\ specs[file'.spec] = "New"]_vars
  <2> SUFFICES ASSUME IInv, Next, file' # file, Full
               PROVE  /\ \A r \in file'.roles : coll[r] = "New" /\ link[r] = file'.spec
                      /\ specs[file'.spec] = "New"
    OBVIOUS
  <2>1. Save
    BY OnlySaveWrites
  <2>2. /\ run.pc = "save"
        /\ file' = [spec |-> run.spec, roles |-> file.roles \cup Linked]
    BY <2>1 DEF Save, At
  <2>3. file'.spec = run.spec /\ file'.roles = file.roles \cup Linked
    BY <2>2, SMT
  <2>4. ~run.unchanged
    <3>1. CASE run.unchanged
      <4>1. run.spec = file.spec /\ Linked = file.roles
        BY <2>2, <3>1, SMT DEF IInv, LocalsAgree, Begun, Ended, Linked
      <4>2. file' = file
        BY <2>2, <4>1, SMT DEF IInv, TypeOK
      <4> QED
        BY <4>2
    <3> QED
      BY <3>1
  <2>5. file'.roles \subseteq Roles
    BY <2>3, <2>4, SMT DEF IInv, TypeOK, Linked
  <2> QED
    BY <2>2, <2>3, <2>4, <2>5 DEF IInv, ProvedCurrent, SpecHeld
<1> QED
  BY <1>1, Inductive, PTL DEF Spec, SavedOnlyVerified
-----------------------------------------------------------------------------
(* Publication of current collections                                       *)

\* No rollback of the branch's runs has failed, none was killed, and none
\* leaves the collections out.
Undisturbed == run.pc \notin {"rollbackFailed", "crashed"} /\ Full

\* Where the tracked specification has the document's content, all three
\* collections are tracked and have it too: this is what makes it sound to skip
\* the regeneration when the specification is unchanged.
SyncedTogether(tracked, contents, collections) ==
    tracked.spec # None /\ contents[tracked.spec] = "New" =>
        tracked.roles = Roles /\ \A r \in Roles : collections[r] = "New"

CurrentInv ==
    /\ run.pc \in {"preflight", "published", "failed"} => SyncedTogether(file, specs, coll)
    /\ Begun => SyncedTogether(start.file, start.specs, start.coll)
    /\ Begun /\ run.unchanged =>
         /\ run.prev = "New" /\ run.attempted = {}
         /\ run.pc \notin {"spec", "convert", "snapshot", "write", "verify"}
    /\ run.pc = "published" => \A r \in Roles : coll[r] = "New"

\* What a run that meets at most one failing call relies on: it rolls back only
\* after that call, and then the restores work.
OneFaultInv ==
    /\ Undisturbed
    /\ run.restoreFailed = FALSE /\ run.ownedFailed = FALSE
    /\ run.pc \in {"spec", "convert", "snapshot"} => run.next = 1 /\ run.lost = FALSE
    /\ run.pc \in {"ownedRestore", "catch", "catchRestore", "restoreSpec"} => faults # 0
    /\ run.pc = "write" /\ faults = 0 =>
         /\ run.lost = FALSE
         /\ \A i \in 1..Len(RoleOrder) : i < run.next =>
               RoleOrder[i] \in run.writing \/ coll[RoleOrder[i]] = "New"
    /\ run.pc = "verify" /\ faults = 0 => \A r \in Roles : coll[r] = "New"

Early == {"spec", "convert", "snapshot", "write", "verify"}

LEMMA CurrentInit == Init => CurrentInv
<1> SUFFICES ASSUME Init PROVE CurrentInv
  OBVIOUS
<1>1. run.pc = "preflight"
  BY DEF Init, FreshRun
<1>2. SyncedTogether(file, specs, coll)
  BY DEF Init, SyncedTogether
<1> QED
  BY <1>1, <1>2 DEF CurrentInv, Begun

\* A step in the middle of a run.
LEMMA MiddleKeeps ==
    ASSUME CurrentInv, Begun, run'.pc \notin Ended \cup {"preflight"}, UNCHANGED start,
           run'.prev = run.prev, run'.unchanged = run.unchanged,
           \/ run.pc \in Early
           \/ run'.pc \notin Early /\ (run.attempted = {} => run'.attempted = {})
    PROVE  CurrentInv'
<1>1. Begun' /\ run'.pc \notin {"preflight", "published", "failed"}
  BY DEF Begun, Ended
<1>2. SyncedTogether(start.file, start.specs, start.coll)
  BY DEF CurrentInv
<1>3. SyncedTogether(start.file, start.specs, start.coll)'
  BY <1>2 DEF SyncedTogether
<1>4. ASSUME run'.unchanged
      PROVE  run'.prev = "New" /\ run'.attempted = {} /\ run'.pc \notin Early
  <2>1. run.unchanged
    BY <1>4
  <2> QED
    BY <2>1 DEF CurrentInv, Early
<1> QED
  BY <1>1, <1>3, <1>4 DEF CurrentInv, Early

LEMMA EarlyKeeps ==
    ASSUME IInv, CurrentInv,
           \/ UpdateSpec \/ UploadSpec \/ Convert \/ Snapshot \/ StartWrite \/ CollectWrites \/ Verify
           \/ \E r \in Roles : SkipRole(r) \/ WriteRole(r)
    PROVE  CurrentInv'
<1> DEFINE Kept == /\ run'.pc \notin Ended \cup {"preflight"}
                   /\ run'.prev = run.prev /\ run'.unchanged = run.unchanged
<1>1. run \in RunState /\ TypeOK
  BY DEF IInv, TypeOK
<1>2. run.pc \in Early /\ UNCHANGED start
  BY DEF UpdateSpec, UploadSpec, Convert, Snapshot, StartWrite, CollectWrites, Verify, SkipRole,
     WriteRole, At, Early
<1>3. ASSUME NEW p \in {"convert", "save", "catch", "snapshot", "write", "verify", "link"}, Goto(p) PROVE Kept
  BY <1>1, <1>3, GotoOK DEF SamePlan, Stages, Ended
<1>4. ASSUME FailOwned PROVE Kept
  <2>1. run'.pc = "ownedRestore" /\ SamePlan
    BY <1>1, <1>4, FailOwnedOK
  <2> QED
    BY <2>1 DEF SamePlan, Ended
<1>5. Kept
  <2>1. CASE UpdateSpec
    BY <1>3, <2>1 DEF UpdateSpec, AfterSpec, Throw, Stages, Ended
  <2>2. CASE UploadSpec
    <3>1. CASE Throw
      BY <1>3, <3>1 DEF Throw, Stages, Ended
    <3>2. CASE \E i \in SpecIds : run' = [run EXCEPT !.pc = AfterSpec, !.spec = i, !.created = (Existing = {})]
      <4>1. AfterSpec \notin Ended \cup {"preflight"}
        BY DEF AfterSpec, Ended
      <4> HIDE DEF AfterSpec
      <4>2. run'.pc = AfterSpec /\ run'.prev = run.prev /\ run'.unchanged = run.unchanged
        BY <1>1, <3>2, SMT DEF RunState
      <4> QED
        BY <4>1, <4>2
    <3> QED
      BY <2>2, <3>1, <3>2 DEF UploadSpec
  <2>3. CASE Convert \/ CollectWrites
    BY <1>3, <1>4, <2>3 DEF Convert, CollectWrites, Stages, Ended
  <2>4. CASE Snapshot
    <3>1. CASE \E r \in Unread : run' = [run EXCEPT !.snaps[r] = coll[r]]
      BY <1>1, <1>2, <3>1, SMT DEF RunState, Early, Ended
    <3> QED
      BY <1>3, <1>4, <2>4, <3>1 DEF Snapshot, Stages, Ended
  <2>5. CASE Verify
    <3>1. CASE \E r \in Roles \ run.proved : run' = [run EXCEPT !.proved = @ \cup {r}]
      BY <1>1, <1>2, <3>1, SMT DEF RunState, Early, Ended
    <3> QED
      BY <1>3, <1>4, <2>5, <3>1 DEF Verify, Stages, Ended
  <2>6. CASE StartWrite
    <3>1. \E n, w, a : run' = [run EXCEPT !.next = n, !.writing = w, !.attempted = a]
      BY <2>6 DEF StartWrite
    <3> QED
      BY <1>1, <1>2, <3>1, SMT DEF RunState, Early, Ended
  <2>7. CASE \E r \in Roles : SkipRole(r) \/ WriteRole(r)
    <3>1. PICK r \in Roles, res \in Results : run' = Finished(r, res)
      BY <2>7 DEF SkipRole, WriteRole, Written, Results
    <3>2. \E l, p : run' = [run EXCEPT !.writing = @ \ {r}, !.result[r] = res, !.lost = l, !.proved = p]
      BY <3>1 DEF Finished
    <3> QED
      BY <1>1, <1>2, <3>2, SMT DEF RunState, Early, Ended
  <2> QED
    BY <2>1, <2>2, <2>3, <2>4, <2>5, <2>6, <2>7
<1>6. Begun
  BY <1>2 DEF Begun, Early, Ended
<1> QED
  BY <1>2, <1>5, <1>6, MiddleKeeps

LEMMA LateKeeps ==
    ASSUME IInv, CurrentInv, run'.pc # "rollbackFailed",
           \/ Link \/ Tag \/ OwnedDone \/ Catch \/ CatchDone \/ (Save /\ run'.pc # "published")
           \/ \E r \in Roles : RestoreOne(r)
    PROVE  CurrentInv'
<1> DEFINE Kept == /\ run'.pc \notin Ended \cup {"preflight"} \cup Early
                   /\ run'.prev = run.prev /\ run'.unchanged = run.unchanged
                   /\ run.attempted = {} => run'.attempted = {}
<1>1. run \in RunState /\ TypeOK
  BY DEF IInv, TypeOK
<1>2. /\ run.pc \in {"link", "tag", "save", "ownedRestore", "catch", "catchRestore"}
      /\ UNCHANGED start
  BY DEF Link, Tag, Save, OwnedDone, Catch, CatchDone, RestoreOne, At
<1>3. ASSUME NEW p \in {"tag", "save", "catch"}, Goto(p) PROVE Kept
  <2>1. run'.pc = p /\ SamePlan /\ SameWork
    BY <1>1, <1>3, GotoOK DEF Stages
  <2> QED
    BY <2>1 DEF SamePlan, SameWork, Ended, Early
<1>4. Kept
  <2>1. CASE Link \/ Tag
    BY <1>3, <2>1 DEF Link, Tag, Throw
  <2>2. CASE Save /\ run'.pc # "published"
    <3>1. CASE run' = [run EXCEPT !.pc = "published", !.created = FALSE]
      BY <1>1, <2>2, <3>1, SMT DEF RunState
    <3> QED
      BY <1>3, <2>2, <3>1 DEF Save, Throw
  <2>3. CASE OwnedDone
    <3>1. \E o, a : /\ run' = [run EXCEPT !.pc = "catch", !.ownedFailed = o, !.attempted = a]
                    /\ a \in {run.attempted, {}}
      BY <2>3 DEF OwnedDone
    <3> QED
      BY <1>1, <3>1, SMT DEF RunState, Early, Ended
  <2>4. CASE Catch
    BY <1>1, <2>4, SMT DEF Catch, RunState, Early, Ended
  <2>5. CASE CatchDone
    <3>1. CASE run' = [run EXCEPT !.pc = "rollbackFailed"]
      BY <1>1, <3>1, SMT DEF RunState
    <3>2. CASE run' = [run EXCEPT !.pc = "restoreSpec", !.attempted = {}]
      BY <1>1, <3>2, SMT DEF RunState, Early, Ended
    <3> QED
      BY <2>5, <3>1, <3>2 DEF CatchDone
  <2>6. CASE \E r \in Roles : RestoreOne(r)
    <3>1. PICK r \in Roles : RestoreOne(r)
      BY <2>6
    <3>2. CASE run' = [run EXCEPT !.todo = @ \ {r}]
      BY <1>1, <1>2, <3>2, SMT DEF RunState, Early, Ended
    <3>3. CASE run' = [run EXCEPT !.todo = @ \ {r}, !.restoreFailed = TRUE]
      BY <1>1, <1>2, <3>3, SMT DEF RunState, Early, Ended
    <3> QED
      BY <3>1, <3>2, <3>3 DEF RestoreOne
  <2> QED
    BY <2>1, <2>2, <2>3, <2>4, <2>5, <2>6
<1>5. Begun
  BY <1>2 DEF Begun, Ended
<1> QED
  BY <1>2, <1>4, <1>5, MiddleKeeps

LEMMA KeptSpecKeeps == ASSUME IInv, CurrentInv, KeepSpec PROVE CurrentInv'
<1> DEFINE p == IF Full THEN "link" ELSE "save"
<1>1. run \in RunState /\ run' = [run EXCEPT !.unchanged = TRUE, !.pc = p] /\ p \in {"link", "save"}
  BY DEF IInv, TypeOK, KeepSpec
<1>2. run.pc = "spec" /\ run.prev = "New" /\ UNCHANGED start /\ Begun
  BY DEF KeepSpec, At, Begun, Ended
<1>3. run.attempted = {}
  BY <1>2 DEF IInv, Recoverable
<1> HIDE DEF p
<1>4. run'.pc \in {"link", "save"} /\ run'.prev = "New" /\ run'.attempted = {}
  BY <1>1, <1>2, <1>3, SMT DEF RunState
<1>5. SyncedTogether(start.file, start.specs, start.coll)'
  BY <1>2 DEF CurrentInv, SyncedTogether
<1> QED
  BY <1>4, <1>5 DEF CurrentInv, Begun

LEMMA StartKeeps == ASSUME IInv, CurrentInv, Preflight PROVE CurrentInv'
<1>1. /\ run = FreshRun /\ run.pc = "preflight" /\ SyncedTogether(file, specs, coll)
      /\ UNCHANGED <<specs, coll, file>> /\ start' = [specs |-> specs, coll |-> coll, file |-> file]
  BY DEF IInv, StartsFresh, CurrentInv, Preflight, At, cloud
<1>2. SyncedTogether(file, specs, coll)'
  BY <1>1 DEF SyncedTogether
<1>3. start'.file = file /\ start'.specs = specs /\ start'.coll = coll
  BY <1>1
<1>4. SyncedTogether(start.file, start.specs, start.coll)'
  BY <1>1, <1>3 DEF SyncedTogether
<1>5. CASE Goto("failed")
  <2>1. run'.pc = "failed"
    BY <1>5, GotoOK DEF IInv, Stages
  <2> QED
    BY <1>2, <2>1 DEF CurrentInv, Begun, Ended
<1>6. CASE \E scope \in Scopes :
               run' = [run EXCEPT !.pc = "spec", !.scope = scope, !.spec = file.spec,
                         !.update = file.spec # None, !.reuse = file.roles,
                         !.prev = IF file.spec = None THEN None ELSE specs[file.spec]]
  <2>1. run'.pc = "spec" /\ run'.unchanged = FALSE
    BY <1>1, <1>6 DEF FreshRun
  <2> QED
    BY <1>4, <2>1 DEF CurrentInv
<1> QED
  BY <1>5, <1>6 DEF Preflight

LEMMA SaveKeeps == ASSUME IInv, CurrentInv, Full, Save, run'.pc = "published" PROVE CurrentInv'
<1>1. run \in RunState /\ run.pc = "save" /\ UNCHANGED <<specs, coll>> /\ Begun
  BY DEF IInv, TypeOK, Save, At, cloud, Begun, Ended
<1>2. file' = [spec |-> run.spec, roles |-> file.roles \cup Linked]
  <2>1. CASE Throw
    BY <2>1, GotoOK DEF Throw, IInv, Stages
  <2> QED
    BY <2>1 DEF Save, Full
<1>3. file'.spec = run.spec /\ file'.roles = file.roles \cup Linked
  BY <1>2
<1>4. file.roles \subseteq Roles
  BY SMT DEF IInv, TypeOK
<1>5. Linked = Roles /\ \A r \in Roles : coll[r] = "New"
  <2>1. CASE ~run.unchanged
    BY <1>1, <2>1 DEF Linked, IInv, ProvedCurrent
  <2>2. CASE run.unchanged
    <3>1. /\ run.update /\ run.prev = "New" /\ run.attempted = {} /\ start.file = file
          /\ run.reuse = file.roles /\ SyncedTogether(start.file, start.specs, start.coll)
      BY <1>1, <2>2 DEF CurrentInv, IInv, LocalsAgree
    <3>2. file.spec # None /\ start.specs[file.spec] = "New"
      BY <1>1, <3>1 DEF IInv, LocalsAgree
    <3>3. file.roles = Roles /\ \A r \in Roles : start.coll[r] = "New"
      BY <3>1, <3>2 DEF SyncedTogether
    <3>4. \A r \in Roles : coll[r] = start.coll[r]
      BY <1>1, <3>1, <3>3 DEF IInv, Recoverable
    <3> QED
      BY <2>2, <3>1, <3>3, <3>4 DEF Linked
  <2> QED
    BY <2>1, <2>2
<1>6. SyncedTogether(file, specs, coll)'
  BY <1>1, <1>3, <1>4, <1>5 DEF SyncedTogether
<1> QED
  BY <1>1, <1>5, <1>6 DEF CurrentInv, Begun, Ended

LEMMA FailedKeeps == ASSUME IInv, IInv', CurrentInv, RestoreSpec, run'.pc = "failed" PROVE CurrentInv'
<1>1. run.pc = "restoreSpec" /\ UNCHANGED <<file, start>> /\ Begun
  BY DEF RestoreSpec, At, Begun, Ended
<1>2. start.file = file /\ SyncedTogether(start.file, start.specs, start.coll)
  BY <1>1 DEF IInv, LocalsAgree, CurrentInv
<1>3. /\ \A r \in file.roles : coll'[r] = start.coll[r]
      /\ file.spec # None => specs'[file.spec] = start.specs[file.spec]
  <2>1. FailedRunRestores'
    BY DEF IInv
  <2> QED
    BY <1>1, <1>2, <2>1 DEF FailedRunRestores, At
<1>4. SyncedTogether(file, specs, coll)'
  BY <1>1, <1>2, <1>3 DEF SyncedTogether
<1> QED
  BY <1>4 DEF CurrentInv, Begun, Ended

LEMMA CurrentKeeps ==
    ASSUME IInv, IInv', CurrentInv, Undisturbed, run'.pc \notin {"rollbackFailed", "crashed"},
           [Next]_vars
    PROVE  CurrentInv'
<1>1. CASE UNCHANGED vars
  BY <1>1 DEF vars, cloud, CurrentInv, SyncedTogether, Begun
<1>2. CASE Crash
  BY <1>2, GotoOK DEF Crash, IInv, Stages
<1>3. CASE Rerun
  <2>1. run' = FreshRun /\ UNCHANGED <<specs, coll, file, start>>
    BY <1>3 DEF Rerun, cloud
  <2>2. run'.pc = "preflight"
    BY <2>1 DEF FreshRun
  <2>3. run.pc \in {"published", "failed"}
    BY <1>3 DEF Rerun, Ended, Undisturbed
  <2>4. SyncedTogether(file, specs, coll)'
    BY <2>1, <2>3 DEF CurrentInv, SyncedTogether
  <2> QED
    BY <2>2, <2>4 DEF CurrentInv, Begun
<1>4. CASE RestoreSpec
  <2>1. run'.pc = "failed"
    BY <1>4, GotoOK DEF RestoreSpec, IInv, Stages
  <2> QED
    BY <1>4, <2>1, FailedKeeps
<1>5. CASE Save
  BY <1>5, SaveKeeps, LateKeeps DEF Undisturbed
<1>6. CASE Step /\ ~RestoreSpec /\ ~Save
  BY <1>6, StartKeeps, KeptSpecKeeps, EarlyKeeps, LateKeeps DEF Step
<1> QED
  BY <1>1, <1>2, <1>3, <1>4, <1>5, <1>6 DEF Next

\* "refresh regenerates baseline, smoke, and contract collections from the
\* resolved spec": whatever calls fail, in however many runs, a run that publishes
\* leaves all three current, as long as no earlier rollback failed, no run was
\* killed and none left the collections out.
THEOREM CurrentUnlessDisturbed == Spec /\ []Undisturbed => []PublishedIsCurrent
<1>1. CurrentInv => PublishedIsCurrent
  BY DEF CurrentInv, PublishedIsCurrent, At
<1>2. IInv /\ IInv' /\ CurrentInv /\ Undisturbed /\ Undisturbed' /\ [Next]_vars => CurrentInv'
  BY CurrentKeeps DEF Undisturbed
<1> QED
  BY <1>1, <1>2, CurrentInit, Inductive, PTL DEF Spec

-----------------------------------------------------------------------------
(* At most one failing call                                                 *)

OneFaultBounds == MaxFaults \in {0, 1} /\ MaxCrashes = 0 /\ Scopes \subseteq {"full"}

Unwinding == {"ownedRestore", "catch", "catchRestore", "restoreSpec"}

\* A step that does not begin or go on with the writes.
LEMMA QuietKeeps ==
    ASSUME OneFaultInv, run'.scope = run.scope, run'.restoreFailed = FALSE, run'.ownedFailed = FALSE,
           run'.pc \notin {"rollbackFailed", "crashed", "write", "verify"},
           run'.pc \in {"spec", "convert", "snapshot"} => run'.next = 1 /\ run'.lost = FALSE,
           run'.pc \in Unwinding => faults' # 0
    PROVE  OneFaultInv'
BY DEF OneFaultInv, Undisturbed, Full, Unwinding

\* What Goto and FailOwned leave alone besides the plan.
LEMMA GotoRest ==
    ASSUME TypeOK, NEW p \in Stages, Goto(p)
    PROVE  /\ run'.pc = p /\ run'.scope = run.scope /\ run'.next = run.next /\ run'.lost = run.lost
           /\ run'.restoreFailed = run.restoreFailed /\ run'.ownedFailed = run.ownedFailed
<1>1. run \in RunState
  BY DEF TypeOK
<1> QED
  BY <1>1, SMT DEF Goto, RunState

LEMMA GotoQuiet ==
    ASSUME TypeOK, OneFaultInv,
           NEW p \in {"convert", "snapshot", "link", "tag", "save", "published", "failed", "restoreSpec", "catch"},
           Goto(p), p \in {"convert", "snapshot"} => run.pc \in {"spec", "convert"},
           p \in Unwinding => faults' # 0
    PROVE  OneFaultInv'
<1>1. /\ run'.pc = p /\ run'.scope = run.scope /\ run'.next = run.next /\ run'.lost = run.lost
      /\ run'.restoreFailed = run.restoreFailed /\ run'.ownedFailed = run.ownedFailed
  BY GotoRest DEF Stages
<1>2. run'.restoreFailed = FALSE /\ run'.ownedFailed = FALSE
  BY <1>1 DEF OneFaultInv
<1>3. p \in {"convert", "snapshot"} => run'.next = 1 /\ run'.lost = FALSE
  BY <1>1 DEF OneFaultInv
<1> QED
  BY <1>1, <1>2, <1>3, QuietKeeps

LEMMA FailOwnedQuiet == ASSUME TypeOK, OneFaultInv, FailOwned, faults' # 0 PROVE OneFaultInv'
<1>1. run \in RunState
  BY DEF TypeOK
<1>2. /\ run'.pc = "ownedRestore" /\ run'.scope = run.scope /\ run'.ownedFailed = run.ownedFailed
      /\ run'.restoreFailed = FALSE
  BY <1>1, SMT DEF FailOwned, RunState
<1> QED
  BY <1>2, QuietKeeps DEF OneFaultInv

LEMMA FaultCount ==
    ASSUME OneFaultBounds, TypeOK
    PROVE  /\ faults \in {0, 1} /\ (Fails => faults = 0 /\ faults' # 0)
           /\ Works => faults' = faults
BY SMT DEF OneFaultBounds, TypeOK, Fails, Works

\* All three collections have an id once they are written, or on an unchanged
\* specification.
LEMMA AllLinked ==
    ASSUME IInv, CurrentInv, run.pc \in {"link", "tag"} PROVE Linked = Roles
<1>1. CASE ~run.unchanged
  BY <1>1 DEF Linked
<1>2. CASE run.unchanged
  <2>1. Begun
    BY DEF Begun, Ended
  <2>2. /\ run.update /\ run.prev = "New" /\ start.file = file /\ run.reuse = file.roles
        /\ SyncedTogether(start.file, start.specs, start.coll)
    BY <1>2, <2>1 DEF CurrentInv, IInv, LocalsAgree
  <2>3. file.spec # None /\ start.specs[file.spec] = "New"
    BY <2>1, <2>2 DEF IInv, LocalsAgree
  <2> QED
    BY <1>2, <2>2, <2>3 DEF SyncedTogether, Linked
<1> QED
  BY <1>1, <1>2

LEMMA OneFaultBeforeWrites ==
    ASSUME OneFaultBounds, IInv, OneFaultInv,
           Preflight \/ KeepSpec \/ UpdateSpec \/ UploadSpec \/ Convert \/ Snapshot
    PROVE  OneFaultInv'
<1>1. run \in RunState /\ TypeOK
  BY DEF IInv, TypeOK
<1>2. Fails => faults' # 0
  BY <1>1, FaultCount
<1>3. CASE Preflight
  <2>1. CASE Goto("failed")
    BY <1>1, <2>1, GotoQuiet DEF Unwinding
  <2>2. CASE \E scope \in Scopes :
               run' = [run EXCEPT !.pc = "spec", !.scope = scope, !.spec = file.spec,
                         !.update = file.spec # None, !.reuse = file.roles,
                         !.prev = IF file.spec = None THEN None ELSE specs[file.spec]]
    <3>1. run = FreshRun
      BY <1>3 DEF Preflight, IInv, StartsFresh
    <3>2. /\ run'.pc = "spec" /\ run'.scope \in Scopes /\ run'.next = 1 /\ run'.lost = FALSE
          /\ run'.restoreFailed = FALSE /\ run'.ownedFailed = FALSE
      BY <2>2, <3>1 DEF FreshRun
    <3>3. run'.scope = run.scope
      BY <3>1, <3>2 DEF OneFaultBounds, FreshRun
    <3> QED
      BY <3>2, <3>3, QuietKeeps DEF Unwinding
  <2> QED
    BY <1>3, <2>1, <2>2 DEF Preflight
<1>4. CASE KeepSpec
  <2>1. /\ run'.pc \in {"link", "save"} /\ run'.scope = run.scope
        /\ run'.restoreFailed = run.restoreFailed /\ run'.ownedFailed = run.ownedFailed
    BY <1>1, <1>4, SMT DEF KeepSpec, RunState
  <2> QED
    BY <2>1, QuietKeeps DEF OneFaultInv, Unwinding
<1>5. CASE UpdateSpec
  <2>1. run.pc = "spec"
    BY <1>5 DEF UpdateSpec, At
  <2>2. CASE Fails /\ Throw
    BY <1>1, <1>2, <2>2, GotoQuiet DEF Throw
  <2>3. CASE Goto("convert") \/ Goto("save")
    BY <1>1, <2>1, <2>3, GotoQuiet DEF Unwinding
  <2> QED
    BY <1>5, <2>2, <2>3 DEF UpdateSpec, AfterSpec
<1>6. CASE UploadSpec
  <2>1. run.pc = "spec"
    BY <1>6 DEF UploadSpec, At
  <2>2. CASE Fails /\ Throw
    BY <1>1, <1>2, <2>2, GotoQuiet DEF Throw
  <2>3. CASE \E i \in SpecIds : run' = [run EXCEPT !.pc = AfterSpec, !.spec = i, !.created = (Existing = {})]
    <3>1. AfterSpec \in {"convert", "save"}
      BY DEF AfterSpec
    <3>2. /\ run'.pc = AfterSpec /\ run'.scope = run.scope /\ run'.next = run.next
          /\ run'.lost = run.lost /\ run'.restoreFailed = run.restoreFailed
          /\ run'.ownedFailed = run.ownedFailed
      BY <1>1, <2>3, SMT DEF RunState
    <3>3. run'.next = 1 /\ run'.lost = FALSE /\ run'.restoreFailed = FALSE /\ run'.ownedFailed = FALSE
      BY <2>1, <3>2 DEF OneFaultInv
    <3>4. run'.pc \in {"convert", "save"}
      BY <3>1, <3>2
    <3> QED
      BY <3>2, <3>3, <3>4, QuietKeeps DEF Unwinding
  <2> QED
    BY <1>6, <2>2, <2>3 DEF UploadSpec
<1>7. CASE Convert
  <2>1. run.pc = "convert"
    BY <1>7 DEF Convert, At
  <2>2. CASE Goto("snapshot")
    BY <1>1, <2>1, <2>2, GotoQuiet DEF Unwinding
  <2> QED
    BY <1>1, <1>2, <1>7, <2>2, FailOwnedQuiet DEF Convert
<1>8. CASE Snapshot
  <2>1. run.pc = "snapshot" /\ run.next = 1 /\ run.lost = FALSE
    BY <1>8 DEF Snapshot, At, OneFaultInv
  <2>2. CASE Goto("write")
    <3>1. /\ run'.pc = "write" /\ run'.scope = run.scope /\ run'.next = run.next /\ run'.lost = run.lost
          /\ run'.restoreFailed = run.restoreFailed /\ run'.ownedFailed = run.ownedFailed
      BY <1>1, <2>2, GotoRest DEF Stages
    <3>2. \A i \in 1..Len(RoleOrder) : ~ (i < run'.next)
      BY <2>1, <3>1, SMT
    <3>3. run'.lost = FALSE /\ run'.restoreFailed = FALSE /\ run'.ownedFailed = FALSE
      BY <2>1, <3>1 DEF OneFaultInv
    <3> QED
      BY <3>1, <3>2, <3>3 DEF OneFaultInv, Undisturbed, Full
  <2>3. CASE \E r \in Unread : run' = [run EXCEPT !.snaps[r] = coll[r]]
    <3>1. /\ run'.pc = "snapshot" /\ run'.scope = run.scope /\ run'.next = 1
          /\ run'.lost = run.lost /\ run'.restoreFailed = run.restoreFailed
          /\ run'.ownedFailed = run.ownedFailed
      BY <1>1, <2>1, <2>3, SMT DEF RunState
    <3> QED
      BY <2>1, <3>1, QuietKeeps DEF OneFaultInv, Unwinding
  <2> QED
    BY <1>1, <1>2, <1>8, <2>2, <2>3, FailOwnedQuiet DEF Snapshot
<1> QED
  BY <1>3, <1>4, <1>5, <1>6, <1>7, <1>8

LEMMA OneFaultStartWrite == ASSUME OneFaultBounds, IInv, OneFaultInv, StartWrite PROVE OneFaultInv'
<1>1. /\ run \in RunState /\ run.pc = "write" /\ UNCHANGED <<coll, faults>>
      /\ run.next \in Nat
  <2>1. run \in RunState
    BY DEF IInv, TypeOK
  <2>2. run.next \in Nat
    BY <2>1, SMT DEF RunState
  <2> QED
    BY <2>1, <2>2 DEF StartWrite, At, cloud, Works
<1>2. PICK a : run' = [run EXCEPT !.next = @ + 1, !.writing = @ \cup {Role}, !.attempted = a]
  BY DEF StartWrite
<1>3. /\ run'.pc = "write" /\ run'.scope = run.scope /\ run'.lost = run.lost
      /\ run'.restoreFailed = run.restoreFailed /\ run'.ownedFailed = run.ownedFailed
      /\ run'.next = run.next + 1 /\ run'.writing = run.writing \cup {RoleOrder[run.next]}
  BY <1>1, <1>2, SMT DEF RunState, Role
<1>4. ASSUME faults = 0, NEW i \in 1..Len(RoleOrder), i < run'.next
      PROVE  RoleOrder[i] \in run'.writing \/ coll[RoleOrder[i]] = "New"
  <2>1. i < run.next \/ i = run.next
    BY <1>1, <1>3, <1>4, SMT
  <2> QED
    BY <1>1, <1>3, <1>4, <2>1 DEF OneFaultInv
<1> QED
  BY <1>1, <1>3, <1>4 DEF OneFaultInv, Undisturbed, Full

LEMMA OneFaultFinished ==
    ASSUME OneFaultBounds, IInv, OneFaultInv, NEW r \in Roles, SkipRole(r) \/ WriteRole(r)
    PROVE  OneFaultInv'
<1>1. run \in RunState /\ TypeOK /\ run.pc = "write" /\ r \in run.writing
  BY DEF IInv, TypeOK, SkipRole, WriteRole, At
<1>2. Fails => faults' # 0
  BY <1>1, FaultCount
<1>3. PICK res \in Results : run' = Finished(r, res) /\ (Works => res # "rejected")
  <2>1. CASE SkipRole(r)
    BY <2>1 DEF SkipRole, Results
  <2>2. CASE WriteRole(r)
    <3>1. Works => ~Fails
      BY <1>1, <1>2, FaultCount
    <3>2. Written(r) \in Results /\ Written(r) # "rejected"
      BY DEF Written, Results
    <3>3. "rejected" \in Results
      BY DEF Results
    <3> QED
      BY <2>2, <3>1, <3>2, <3>3 DEF WriteRole
  <2> QED
    BY <2>1, <2>2
<1>4. \E l, p : /\ run' = [run EXCEPT !.writing = @ \ {r}, !.result[r] = res, !.lost = l, !.proved = p]
                /\ res # "rejected" /\ run.lost = FALSE => l = FALSE
  BY <1>3 DEF Finished
<1>5. /\ run'.pc = "write" /\ run'.scope = run.scope /\ run'.next = run.next
      /\ run'.restoreFailed = run.restoreFailed /\ run'.ownedFailed = run.ownedFailed
      /\ run'.writing = run.writing \ {r}
      /\ res # "rejected" /\ run.lost = FALSE => run'.lost = FALSE
  BY <1>1, <1>4, SMT DEF RunState
<1>6. CASE faults' # 0
  BY <1>5, <1>6 DEF OneFaultInv, Undisturbed, Full
<1>7. CASE faults' = 0
  <2>1. Works /\ faults = 0
    <3>1. Works \/ Fails
      BY DEF SkipRole, WriteRole
    <3> QED
      BY <1>2, <1>7, <3>1 DEF Works
  <2>2. coll'[r] = "New" /\ \A x \in Roles \ {r} : coll'[x] = coll[x]
    <3>1. CASE SkipRole(r)
      <4>1. r \in run.reuse /\ r \notin run.attempted /\ coll' = coll
        BY <3>1 DEF SkipRole, cloud
      <4>2. Begun
        BY <1>1 DEF Begun, Ended
      <4>3. run.snaps[r] = "New"
        BY <1>1, <4>1 DEF IInv, ProvedCurrent
      <4>4. coll[r] = start.coll[r] /\ run.snaps[r] = start.coll[r]
        BY <1>1, <4>1, <4>2, <4>3 DEF IInv, Recoverable
      <4> QED
        BY <4>1, <4>3, <4>4
    <3>2. CASE WriteRole(r)
      <4>1. coll' = [coll EXCEPT ![r] = "New"]
        <5>1. ~Fails
          BY <1>2, <1>7
        <5> QED
          BY <3>2, <5>1 DEF WriteRole
      <4> QED
        BY <1>1, <4>1 DEF TypeOK
    <3> QED
      BY <3>1, <3>2
  <2>3. run'.lost = FALSE
    BY <1>1, <1>3, <1>5, <2>1 DEF OneFaultInv
  <2>4. ASSUME NEW i \in 1..Len(RoleOrder), i < run'.next
        PROVE  RoleOrder[i] \in run'.writing \/ coll'[RoleOrder[i]] = "New"
    <3>1. RoleOrder[i] \in Roles
      BY RunAssumption, SMT
    <3>2. RoleOrder[i] \in run.writing \/ coll[RoleOrder[i]] = "New"
      BY <1>1, <1>5, <2>1, <2>4 DEF OneFaultInv
    <3> QED
      BY <1>5, <2>2, <3>1, <3>2
  <2> QED
    BY <1>5, <2>3, <2>4 DEF OneFaultInv, Undisturbed, Full
<1> QED
  BY <1>6, <1>7

LEMMA OneFaultCollect ==
    ASSUME OneFaultBounds, IInv, OneFaultInv, CollectWrites \/ Verify PROVE OneFaultInv'
<1>1. run \in RunState /\ TypeOK /\ UNCHANGED coll
  BY DEF IInv, TypeOK, CollectWrites, Verify, cloud
<1>2. (Fails => faults' # 0) /\ (Works => faults' = faults)
  BY <1>1, FaultCount
<1>3. CASE CollectWrites
  <2>1. run.pc = "write" /\ run.writing = {} /\ Works
    BY <1>3 DEF CollectWrites, At
  <2>2. CASE run.lost /\ FailOwned
    <3>1. faults # 0
      BY <2>1, <2>2 DEF OneFaultInv
    <3> QED
      BY <1>1, <1>2, <2>1, <2>2, <3>1, FailOwnedQuiet
  <2>3. CASE ~Left /\ Goto("verify")
    <3>1. /\ run'.pc = "verify" /\ run'.scope = run.scope
          /\ run'.restoreFailed = run.restoreFailed /\ run'.ownedFailed = run.ownedFailed
      BY <1>1, <2>3, GotoRest DEF Stages
    <3>2. ASSUME faults = 0, NEW r \in Roles PROVE coll[r] = "New"
      <4>1. PICK i \in 1..Len(RoleOrder) : RoleOrder[i] = r
        BY RunAssumption
      <4>2. run.next \in Nat /\ Len(RoleOrder) \in Nat
        <5>1. Len(RoleOrder) \in Nat
          BY RunAssumption
        <5>2. run.next \in 1..(Len(RoleOrder) + 1)
          BY <1>1 DEF RunState
        <5> QED
          BY <5>1, <5>2
      <4>3. i < run.next
        BY <2>3, <4>2, SMT DEF Left
      <4> QED
        BY <2>1, <3>2, <4>1, <4>3 DEF OneFaultInv
    <3> QED
      BY <1>1, <1>2, <2>1, <3>1, <3>2 DEF OneFaultInv, Undisturbed, Full
  <2> QED
    BY <1>3, <2>2, <2>3 DEF CollectWrites
<1>4. CASE Verify
  <2>1. run.pc = "verify"
    BY <1>4 DEF Verify, At
  <2>2. CASE Goto("link")
    BY <1>1, <2>2, GotoQuiet DEF Unwinding
  <2>3. CASE \E r \in Roles \ run.proved : Works /\ run' = [run EXCEPT !.proved = @ \cup {r}]
    <3>1. /\ run'.pc = "verify" /\ run'.scope = run.scope
          /\ run'.restoreFailed = run.restoreFailed /\ run'.ownedFailed = run.ownedFailed
      BY <1>1, <2>1, <2>3, SMT DEF RunState
    <3> QED
      BY <1>1, <1>2, <2>1, <2>3, <3>1 DEF OneFaultInv, Undisturbed, Full
  <2>4. CASE \E r \in Roles : Works /\ coll[r] # "New" /\ FailOwned
    <3>1. faults # 0
      BY <2>1, <2>4 DEF OneFaultInv
    <3> QED
      BY <1>1, <1>2, <2>4, <3>1, FailOwnedQuiet
  <2>5. CASE Fails /\ FailOwned
    BY <1>1, <1>2, <2>5, FailOwnedQuiet
  <2> QED
    BY <1>4, <2>2, <2>3, <2>4, <2>5 DEF Verify
<1> QED
  BY <1>3, <1>4

LEMMA OneFaultPublication ==
    ASSUME OneFaultBounds, IInv, CurrentInv, OneFaultInv, Link \/ Tag \/ Save PROVE OneFaultInv'
<1>1. run \in RunState /\ TypeOK
  BY DEF IInv, TypeOK
<1>2. (Fails => faults' # 0)
  BY <1>1, FaultCount
<1>3. ASSUME NEW p \in {"tag", "save"}, Goto(p) PROVE OneFaultInv'
  BY <1>1, <1>3, GotoQuiet DEF Unwinding
<1>4. ASSUME Fails, Throw PROVE OneFaultInv'
  BY <1>1, <1>2, <1>4, GotoQuiet DEF Throw
<1>5. CASE Link
  <2>1. Linked = Roles
    BY <1>5, AllLinked DEF Link, At
  <2> QED
    BY <1>3, <1>4, <1>5, <2>1 DEF Link
<1>6. CASE Tag
  <2>1. Linked = Roles
    BY <1>6, AllLinked DEF Tag, At
  <2> QED
    BY <1>3, <1>4, <1>6, <2>1 DEF Tag
<1>7. CASE Save
  <2>1. CASE run' = [run EXCEPT !.pc = "published", !.created = FALSE]
    <3>1. /\ run'.pc = "published" /\ run'.scope = run.scope
          /\ run'.restoreFailed = run.restoreFailed /\ run'.ownedFailed = run.ownedFailed
      BY <1>1, <2>1, SMT DEF RunState
    <3> QED
      BY <3>1, QuietKeeps DEF OneFaultInv, Unwinding
  <2> QED
    BY <1>4, <1>7, <2>1 DEF Save
<1> QED
  BY <1>5, <1>6, <1>7

\* After the one failing call the restores work.
LEMMA OneFaultRollback ==
    ASSUME OneFaultBounds, IInv, OneFaultInv,
           OwnedDone \/ Catch \/ CatchDone \/ RestoreSpec \/ \E r \in Roles : RestoreOne(r)
    PROVE  OneFaultInv'
<1>1. run \in RunState /\ TypeOK
  BY DEF IInv, TypeOK
<1>2. run.pc \in Unwinding
  BY DEF OwnedDone, Catch, CatchDone, RestoreSpec, RestoreOne, At, Unwinding
<1>3. faults # 0 /\ run.restoreFailed = FALSE /\ run.ownedFailed = FALSE
  BY <1>2 DEF OneFaultInv, Unwinding
<1>4. ~Fails /\ (Works => faults' # 0)
  BY <1>1, <1>3, FaultCount
<1>5. CASE OwnedDone
  <2>1. run' = [run EXCEPT !.pc = "catch", !.ownedFailed = FALSE, !.attempted = {}]
    BY <1>3, <1>5 DEF OwnedDone
  <2>2. /\ run'.pc = "catch" /\ run'.scope = run.scope /\ run'.ownedFailed = FALSE
        /\ run'.restoreFailed = run.restoreFailed
    BY <1>1, <2>1, SMT DEF RunState
  <2> QED
    BY <1>3, <1>4, <1>5, <2>2, QuietKeeps DEF OwnedDone
<1>6. CASE Catch
  <2>1. /\ run'.pc = "catchRestore" /\ run'.scope = run.scope /\ run'.restoreFailed = FALSE
        /\ run'.ownedFailed = run.ownedFailed
    BY <1>1, <1>6, SMT DEF Catch, RunState
  <2> QED
    BY <1>3, <1>4, <1>6, <2>1, QuietKeeps DEF Catch
<1>7. CASE CatchDone
  <2>1. run' = [run EXCEPT !.pc = "restoreSpec", !.attempted = {}]
    BY <1>3, <1>7 DEF CatchDone
  <2>2. /\ run'.pc = "restoreSpec" /\ run'.scope = run.scope
        /\ run'.restoreFailed = run.restoreFailed /\ run'.ownedFailed = run.ownedFailed
    BY <1>1, <2>1, SMT DEF RunState
  <2> QED
    BY <1>3, <1>4, <1>7, <2>2, QuietKeeps DEF CatchDone
<1>8. CASE RestoreSpec
  <2>1. Goto("failed")
    BY <1>3, <1>4, <1>8 DEF RestoreSpec
  <2> QED
    BY <1>1, <2>1, GotoQuiet DEF Unwinding
<1>9. CASE \E r \in Roles : RestoreOne(r)
  <2>1. PICK r \in Roles : Works /\ run' = [run EXCEPT !.todo = @ \ {r}]
    BY <1>4, <1>9 DEF RestoreOne
  <2>2. run.pc \in {"ownedRestore", "catchRestore"}
    BY <1>9 DEF RestoreOne
  <2>3. /\ run'.pc = run.pc /\ run'.scope = run.scope
        /\ run'.restoreFailed = run.restoreFailed /\ run'.ownedFailed = run.ownedFailed
    BY <1>1, <2>1, SMT DEF RunState
  <2> QED
    BY <1>3, <1>4, <2>1, <2>2, <2>3, QuietKeeps
<1> QED
  BY <1>5, <1>6, <1>7, <1>8, <1>9

LEMMA OneFaultKeeps ==
    ASSUME OneFaultBounds, IInv, CurrentInv, OneFaultInv, [Next]_vars PROVE OneFaultInv'
<1>1. CASE UNCHANGED vars
  BY <1>1 DEF vars, cloud, OneFaultInv, Undisturbed, Full
<1>2. CASE Crash
  BY <1>2, SMT DEF Crash, OneFaultBounds, IInv, TypeOK
<1>3. CASE Rerun
  <2>1. run' = FreshRun
    BY <1>3 DEF Rerun
  <2> QED
    BY <2>1 DEF FreshRun, OneFaultInv, Undisturbed, Full
<1>4. CASE Step
  BY <1>4, OneFaultBeforeWrites, OneFaultStartWrite, OneFaultFinished, OneFaultCollect,
     OneFaultPublication, OneFaultRollback DEF Step
<1> QED
  BY <1>1, <1>2, <1>3, <1>4 DEF Next

\* With at most one failing call in all the runs and none of them killed, a
\* rollback never fails, and every run that publishes leaves the collections
\* current.
THEOREM CurrentDespiteOneFault ==
    ASSUME OneFaultBounds PROVE Spec => [](Undisturbed /\ PublishedIsCurrent)
<1>1. Init => OneFaultInv
  BY DEF Init, FreshRun, OneFaultInv, Undisturbed, Full
<1>2. IInv /\ CurrentInv /\ OneFaultInv /\ [Next]_vars => OneFaultInv'
  BY OneFaultKeeps
<1>3. IInv /\ IInv' /\ CurrentInv /\ OneFaultInv /\ OneFaultInv' /\ [Next]_vars => CurrentInv'
  BY CurrentKeeps DEF OneFaultInv, Undisturbed
<1>4. CurrentInv /\ OneFaultInv => Undisturbed /\ PublishedIsCurrent
  BY DEF OneFaultInv, CurrentInv, PublishedIsCurrent, At
<1> QED
  BY <1>1, <1>2, <1>3, <1>4, CurrentInit, Inductive, PTL DEF Spec

=============================================================================
