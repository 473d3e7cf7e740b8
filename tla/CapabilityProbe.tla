---------------------------- MODULE CapabilityProbe ----------------------------
(***************************************************************************)
(* The evidence behind the multi-file sync of specifications               *)
(* (probe-multifile-spec-sync.mjs): a leg of the probe works through       *)
(* eleven rows against a specification in a workspace of its own, removes  *)
(* what it journaled, and merges its leg into the committed receipt whose  *)
(* capabilities the client reads; a release and a pull request accept or   *)
(* rebind the receipt to the source they are about                         *)
(* (rebind-multifile-receipt.mjs).  The service may accept, refuse or not  *)
(* answer each request; its workspace is the leg's alone, so the requests  *)
(* of a row are one step.                                                  *)
(***************************************************************************)
EXTENDS Integers, Sequences, FiniteSets
CONSTANTS MaxLegs, MaxCommits, MaxProbeFaults
ASSUME ProbeAssumption == MaxLegs \in Nat /\ MaxCommits \in Nat /\ MaxProbeFaults \in Nat

VARIABLES history,  \* the commits: their behaviour-bearing tree, and whether HEAD descends from them
          receipt,  \* the committed receipt
          probeSpace,    \* the leg's workspace and the files of its specification
          probe     \* the leg at work
probeVars == <<history, receipt, probeSpace, probe>>

LegModes == {"nonorg", "org"}
ProbeRows == {"P01", "P02", "P03", "P04", "P05", "P06", "P07", "P08", "P09", "P10", "P11"}
HeadCommit == Len(history)
NoLegs == [commit |-> 0, legs |-> {}, caps |-> {}]
IdleLeg == [pc |-> "idle", mode |-> "org", commit |-> 0, journaled |-> FALSE, passed |-> {}, bulk |-> FALSE,
            atomic |-> FALSE, root |-> FALSE, truth |-> {}, blind |-> FALSE, residue |-> FALSE,
            unanswered |-> FALSE, legs |-> 0, faults |-> 0]
ProbeInit ==
    /\ history = <<[tree |-> 1, kept |-> TRUE]>>
    /\ receipt = NoLegs
    /\ probeSpace = [ws |-> FALSE, files |-> {}]
    /\ probe = IdleLeg

\* What becomes of the requests of a row, within the budget of faults.
Bad(o) == Cardinality({r \in DOMAIN o : o[r] # "ok"})
RowAnswers(requests) == {o \in [requests -> {"ok", "refused", "lost"}] : Bad(o) + probe.faults <= MaxProbeFaults}
Unanswered(o) == \E r \in DOMAIN o : o[r] = "lost"
\* A request without an answer, or a listing without the file to work on, throws.
Throw(o) == /\ probe' = [probe EXCEPT !.pc = "cleanup", !.faults = @ + Bad(o)]
            /\ probeSpace' = [probeSpace EXCEPT !.files = {}]
RecordRow(o, id, passes, truth, next) ==
    probe' = [probe EXCEPT !.pc = next, !.faults = @ + Bad(o), !.truth = @ \cup truth,
                           !.passed = IF passes THEN @ \cup {id} ELSE @]
Member(path, role, text) == [path |-> path, role |-> role, text |-> text]
With(files, f) == {g \in files : g.path # f.path} \cup {f}
TextOf(path) == (CHOOSE f \in probeSpace.files : f.path = path).text
SetFiles(files) == probeSpace' = [probeSpace EXCEPT !.files = files]
SameRepo == UNCHANGED <<history, receipt>>

\* A leg starts at HEAD; without an access token it records eleven failed rows.
MintAccessToken(mode) ==
    /\ probe.pc \in {"idle", "passed", "failed"} /\ probe.legs < MaxLegs
    /\ \E o \in RowAnswers({"mint"}) :
          probe' = [IdleLeg EXCEPT !.pc = IF o.mint = "ok" THEN "workspace" ELSE "write", !.mode = mode,
                        !.commit = HeadCommit, !.legs = probe.legs + 1, !.faults = probe.faults + Bad(o)]
    /\ probeSpace' = [ws |-> FALSE, files |-> {}]
    /\ SameRepo
\* A personal workspace is created and then shown to the team; an id that is
\* never read is never journaled.
CreateWorkspace ==
    /\ probe.pc = "workspace" /\ SameRepo
    /\ \E o \in RowAnswers({"create", "flip"}), created \in BOOLEAN :
          /\ o.create = "ok" => created
          /\ o.create = "refused" => ~created
          /\ (probe.mode = "org" \/ o.create # "ok") => o.flip = "ok"
          /\ probeSpace' = [probeSpace EXCEPT !.ws = created]
          /\ probe' = [probe EXCEPT !.faults = @ + Bad(o),
                          !.journaled = o.create = "ok" /\ o.flip # "lost",
                          !.pc = IF Bad(o) = 0 THEN "P01" ELSE "cleanup"]

CreateBundle ==
    /\ probe.pc = "P01" /\ SameRepo
    /\ \E o \in RowAnswers({"create", "list"}) :
          IF Bad(o) > 0 THEN Throw(o)
          ELSE /\ SetFiles({Member("root", "ROOT", "root"), Member("pet", "DEFAULT", "v1")})
               /\ RecordRow(o, "P01", TRUE, {"multiFileCreate"}, "P02")
ReadMembers ==
    /\ probe.pc = "P02" /\ SameRepo
    /\ \E o \in RowAnswers({"list", "root", "pet"}) :
          IF Unanswered(o) THEN Throw(o)
          ELSE UNCHANGED probeSpace /\ RecordRow(o, "P02", Bad(o) = 0, {"multiFileRead"}, "P03")
\* A task that ends neither way, or whose collection is not listed yet, is no
\* pass; a stale list yields the collection generated before.
GenerateFirst ==
    /\ probe.pc = "P03" /\ SameRepo
    /\ \E o \in RowAnswers({"generate", "read"}) :
          IF Unanswered(o) THEN Throw(o)
          ELSE UNCHANGED probeSpace /\ RecordRow(o, "P03", Bad(o) = 0 /\ TextOf("pet") = "v1", {}, "P04")
PatchCompanion ==
    /\ probe.pc = "P04" /\ SameRepo
    /\ \E o \in RowAnswers({"list", "patch", "readback", "generate", "read"}), stale \in BOOLEAN :
          LET text == IF o.patch = "ok" THEN "v2" ELSE "v1"
              found == IF stale THEN "v1" ELSE text IN
          IF Unanswered(o) \/ o.list # "ok" THEN Throw(o)
          ELSE /\ SetFiles(With(probeSpace.files, Member("pet", "DEFAULT", text)))
               /\ RecordRow(o, "P04", Bad(o) = 0 /\ found = "v2",
                            IF text = "v2" THEN {"openapiGeneration"} ELSE {}, "P05")
AddFile ==
    /\ probe.pc = "P05" /\ SameRepo
    /\ \E o \in RowAnswers({"list", "create", "relist", "read"}) :
          LET done == o.list = "ok" /\ o.create = "ok" IN
          IF Unanswered(o) THEN Throw(o)
          ELSE /\ SetFiles(IF done THEN With(probeSpace.files, Member("error", "DEFAULT", "error"))
                           ELSE probeSpace.files)
               /\ RecordRow(o, "P05", Bad(o) = 0, IF done THEN {"perFileCreate"} ELSE {}, "P06")
DeleteFile ==
    /\ probe.pc = "P06" /\ SameRepo
    /\ \E o \in RowAnswers({"list", "delete", "relist"}) :
          LET there == \E f \in probeSpace.files : f.path = "error"
              done == o.list = "ok" /\ there /\ o.delete = "ok" IN
          IF Unanswered(o) THEN Throw(o)
          ELSE /\ SetFiles(IF done THEN {f \in probeSpace.files : f.path # "error"} ELSE probeSpace.files)
               /\ RecordRow(o, "P06", done, IF done THEN {"perFileDelete"} ELSE {}, "P07")
\* One request that creates, updates and deletes.
BulkModify ==
    /\ probe.pc = "P07" /\ SameRepo
    /\ \E o \in RowAnswers({"list", "seed", "relist", "bulk", "last"}) :
          LET seeded == IF o.seed = "ok" THEN With(probeSpace.files, Member("seed", "DEFAULT", "seed"))
                        ELSE probeSpace.files
              written == With(With(seeded, Member("new", "DEFAULT", "new")), Member("pet", "DEFAULT", "v2"))
              done == {f \in written : f.path # "seed"}
          IN  IF Unanswered(o) \/ o.relist # "ok" THEN Throw(o)
              ELSE /\ SetFiles(IF o.bulk = "ok" THEN done ELSE seeded)
                   /\ RecordRow(o, "P07", o.seed = "ok" /\ o.bulk = "ok" /\ o.last = "ok",
                          IF o.bulk = "ok" THEN {"bulkModify"} ELSE {}, "P08")

\* The companion becomes the root and the root a companion, and back.
SetRole(files, path, role) == {IF f.path = path THEN [f EXCEPT !.role = role] ELSE f : f \in files}
RootsOf(files) == {f.path : f \in {g \in files : g.role = "ROOT"}}
ChangeRoot ==
    /\ probe.pc = "P08" /\ SameRepo
    /\ \E o \in RowAnswers({"list", "promote", "demote", "relist", "root", "pet", "last"}) :
          LET promoted == IF o.promote = "ok" THEN SetRole(probeSpace.files, "pet", "ROOT") ELSE probeSpace.files
              changed == IF o.demote = "ok" THEN SetRole(promoted, "root", "DEFAULT") ELSE promoted
              listed == IF o.relist = "ok" THEN changed ELSE {}
              moved == o.promote = "ok" /\ o.demote = "ok" /\ RootsOf(listed) = {"pet"}
              rooted == IF o.root = "ok" THEN SetRole(changed, "root", "ROOT") ELSE changed
              restored == IF o.pet = "ok" THEN SetRole(rooted, "pet", "DEFAULT") ELSE rooted
              final == IF moved \/ RootsOf(listed) # {"root"} THEN restored ELSE changed
          IN  IF o.list = "refused" THEN UNCHANGED probeSpace /\ RecordRow(o, "P08", FALSE, {}, "P09")
              ELSE IF (\E r \in {"list", "promote", "demote", "relist", "last"} : o[r] = "lost")
                      \/ (moved /\ "lost" \in {o.root, o.pet})
              THEN Throw(o)
              ELSE /\ SetFiles(final)
                   /\ probe' = [probe EXCEPT !.pc = "P09", !.faults = @ + Bad(o), !.root = moved,
                          !.truth = IF RootsOf(changed) = {"pet"} THEN @ \cup {"rootPathChange"} ELSE @,
                          !.passed = IF o.last = "ok" /\ Cardinality(RootsOf(final)) = 1 THEN @ \cup {"P08"} ELSE @]
NestedPath ==
    /\ probe.pc = "P09" /\ SameRepo
    /\ \E o \in RowAnswers({"bulk", "list", "names", "last"}) :
          IF Unanswered(o) THEN Throw(o)
          ELSE /\ SetFiles(IF o.bulk = "ok" THEN With(probeSpace.files, Member("deep", "DEFAULT", "deep"))
                           ELSE probeSpace.files)
               /\ RecordRow(o, "P09", o.bulk = "ok" /\ o.last = "ok", {}, "P10")

\* Paths, roles and hashes of all members; a member that cannot be read counts
\* as empty, a list that cannot be read as no members.
Snapshot(files, how) ==
    IF how = "unlisted" THEN {}
    ELSE IF how = "unread" THEN {[f EXCEPT !.text = "empty"] : f \in files} ELSE files
\* Mutant: paths and roles are compared, and not the hashes.
SnapshotPathsEqual(before, after) == {<<f.path, f.role>> : f \in before} = {<<f.path, f.role>> : f \in after}
SanitizedSnapshotsEqual(before, after) == before = after
\* One update and one deletion of nothing in a request: did the refusal leave
\* everything as it was?
FailBulk ==
    /\ probe.pc = "P10" /\ SameRepo
    /\ \E o \in RowAnswers({"list", "snapshots", "bulk", "restore"}), rejected \in BOOLEAN, landed \in BOOLEAN,
          first \in {"read", "unlisted", "unread"}, second \in {"read", "unlisted", "unread"} :
          LET marked == {IF f.path = "pet" THEN [f EXCEPT !.text = "marker"] ELSE f : f \in probeSpace.files}
              changed == IF landed THEN marked ELSE probeSpace.files
              before == Snapshot(probeSpace.files, first)
              after == Snapshot(changed, second)
          IN  /\ (~rejected => landed) /\ o.bulk # "refused" /\ (o.snapshots = "ok" => {first, second} = {"read"})
              /\ IF Unanswered(o) \/ o.list # "ok" THEN Throw(o)
                 ELSE /\ SetFiles({})  \* not read again
                      /\ probe' = [probe EXCEPT !.pc = "P11", !.faults = @ + Bad(o),
                             !.atomic = rejected /\ SanitizedSnapshotsEqual(before, after),
                             !.blind = "read" \notin {first, second},
                             !.truth = IF rejected /\ ~landed THEN @ \cup {"atomicBulk"} ELSE @,
                             !.passed = IF before # {} /\ after # {} THEN @ \cup {"P10"} ELSE @]
ProtobufSpec ==
    /\ probe.pc = "P11" /\ SameRepo
    /\ \E o \in RowAnswers({"create", "list", "generate"}) :
          IF Unanswered(o) THEN Throw(o)
          ELSE UNCHANGED probeSpace /\ RecordRow(o, "P11", Bad(o) = 0, {"protobufGeneration"}, "cleanup")

\* Every journaled resource is deleted whatever becomes of the others, the
\* workspace last; then it is read: an answer that it is there is residue.
CleanupJournaledResources ==
    /\ probe.pc = "cleanup" /\ SameRepo
    /\ \E o \in RowAnswers({"delete", "readback"}), gone \in BOOLEAN :
          /\ (o.delete = "ok" => gone) /\ (o.delete = "refused" => ~gone)
          /\ ~probe.journaled => Bad(o) = 0 /\ ~gone
          /\ probeSpace' = [probeSpace EXCEPT !.ws = @ /\ ~gone]
          /\ probe' = [probe EXCEPT !.pc = "write", !.faults = @ + Bad(o),
                                    !.unanswered = ~probe.journaled \/ o.readback # "ok",
                                    !.residue = probe.journaled /\ o.readback = "ok" /\ probeSpace'.ws]

Capabilities(leg) ==
    {c \in {"multiFileCreate", "multiFileRead", "perFileCreate", "perFilePatch", "perFileDelete", "bulkModify",
            "atomicBulk", "rootPathChange", "openapiGeneration", "protobufGeneration"} :
       CASE c = "multiFileCreate" -> "P01" \in leg.passed
         [] c = "multiFileRead" -> "P02" \in leg.passed
         [] c = "perFileCreate" -> "P05" \in leg.passed
         [] c = "perFilePatch" -> leg.passed \cap {"P04", "P05"} # {}
         [] c = "perFileDelete" -> "P06" \in leg.passed
         [] c = "bulkModify" -> "P07" \in leg.passed
         [] c = "atomicBulk" -> leg.atomic
         [] c = "rootPathChange" -> leg.root
         [] c = "openapiGeneration" -> {"P03", "P04"} \subseteq leg.passed
         [] OTHER -> "P11" \in leg.passed}
ThisLeg == [mode |-> probe.mode, caps |-> Capabilities(probe), atomic |-> probe.atomic,
            residue |-> probe.residue, truth |-> probe.truth, blind |-> probe.blind, left |-> probeSpace.ws,
            unanswered |-> probe.unanswered, ranAt |-> probe.commit, rebound |-> FALSE]
\* The other mode's leg is kept if it is of the same commit.
OtherLegs == {l \in receipt.legs : l.mode # probe.mode /\ receipt.commit = probe.commit}
WriteReceipt ==
    /\ probe.pc = "write"
    /\ LET legs == OtherLegs \cup {ThisLeg}
           caps == {c \in ThisLeg.caps : \A l \in legs : c \in l.caps}
       IN  receipt' = [commit |-> probe.commit, legs |-> legs, caps |-> caps]
    /\ probe' = [IdleLeg EXCEPT !.legs = probe.legs, !.faults = probe.faults,
                   !.pc = IF ProbeRows \ {"P11"} \subseteq probe.passed /\ ~probe.residue THEN "passed" ELSE "failed"]
    /\ UNCHANGED <<history, probeSpace>>

ValidReceipt(r) ==
    /\ {l.mode : l \in r.legs} = LegModes
    /\ "atomicBulk" \in r.caps => \A l \in r.legs : l.atomic
\* A commit of release plumbing only, one of behaviour, or one that takes HEAD's
\* place; it makes no difference before there is a receipt, or to what a leg asks
\* the service.
CommitSource ==
    /\ HeadCommit <= MaxCommits /\ receipt.legs # {} /\ probe.pc \in {"passed", "failed"}
    /\ \E tree \in {1, 2}, amend \in BOOLEAN :
          /\ amend => tree # history[HeadCommit].tree
          /\ history' = Append(IF amend THEN [history EXCEPT ![HeadCommit].kept = FALSE] ELSE history,
                               [tree |-> tree, kept |-> TRUE])
    /\ UNCHANGED <<receipt, probeSpace, probe>>
IsAncestor(c) == c > 0 /\ history[c].kept
ReleaseOnlyDrift(c) == history[c].tree = history[HeadCommit].tree
SourceBinding == ValidReceipt(receipt) /\ IsAncestor(receipt.commit) /\ ReleaseOnlyDrift(receipt.commit)
\* A pull request whose source behaves otherwise takes the evidence over.
RebindReceipt ==
    /\ ValidReceipt(receipt) /\ IsAncestor(receipt.commit) /\ ~ReleaseOnlyDrift(receipt.commit)
    /\ receipt' = [receipt EXCEPT !.commit = HeadCommit, !.legs = {[l EXCEPT !.rebound = TRUE] : l \in @}]
    /\ UNCHANGED <<history, probeSpace, probe>>

ProbeNext ==
    \/ \E mode \in LegModes : MintAccessToken(mode)
    \/ CreateWorkspace \/ CreateBundle \/ ReadMembers \/ GenerateFirst \/ PatchCompanion \/ AddFile
    \/ DeleteFile \/ BulkModify \/ ChangeRoot \/ NestedPath \/ FailBulk \/ ProtobufSpec
    \/ CleanupJournaledResources \/ WriteReceipt \/ CommitSource \/ RebindReceipt
ProbeSpec == ProbeInit /\ [][ProbeNext]_probeVars

\* A capability a leg claims was observed: the service really did it, except that
\* an atomic refusal is also inferred from two snapshots neither of which could be
\* read, and that an added file counts for a patched one; and a valid receipt
\* claims what both of its legs do.
ClaimsObserved == \A l \in receipt.legs :
    /\ \A c \in l.caps \ {"perFilePatch"} : c \in l.truth \/ (c = "atomicBulk" /\ l.blind)
    /\ ValidReceipt(receipt) => receipt.caps \subseteq l.caps
\* A leg without residue left no workspace behind, unless its creation or the
\* final reading of it went unanswered.
ResidueKnown == \A l \in receipt.legs : ~l.residue /\ l.left => l.unanswered
\* A receipt a release accepts holds two legs that ran on source that behaves as
\* HEAD does, or were taken over by a pull request.
LegsOfThisSource ==
    SourceBinding => \A l \in receipt.legs : l.rebound \/ history[l.ranAt].tree = history[HeadCommit].tree

\* The committed evidence says no more than what was seen, and of this source.
ProbeIsHonest == ClaimsObserved /\ ResidueKnown /\ LegsOfThisSource
================================================================================
