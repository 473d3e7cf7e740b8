----------------------------- MODULE ContractMatch -----------------------------
(***************************************************************************)
(* From an OpenAPI document to the requests that assert it: the index of   *)
(* operations and their candidate paths (contract-index.ts), the mapping   *)
(* of every generated request to one operation, the shards of the          *)
(* collection's root script (collection-contracts.ts,                      *)
(* contract-root-script.ts), their installation, and the dispatch at send  *)
(* time (contract-dispatch.ts).  A segment of a path is a sequence of      *)
(* parts, each a literal or a parameter; a document is a sequence of       *)
(* operations of one method.                                               *)
(***************************************************************************)
EXTENDS Integers, Sequences, FiniteSets, SequencesExt, FiniteSetsExt
CONSTANTS ApiDocuments,      \* sequences of [path, servers, bytes]; servers is a set of path prefixes
          Params,         \* parts that stand for any non-empty text
          Placeholder,    \* what the converter writes for a parameter
          Value,          \* what a caller sends for one: fresh text
          ExtraPath,      \* the path of a request no operation declares (a webhook's)
          FixedBytes, ScriptLimit, MaxInjectFaults
ASSUME MatchAssumption == FixedBytes < ScriptLimit /\ MaxInjectFaults \in Nat

VARIABLE match            \* the document, its requests and the collection's scripts
matchVars == <<match>>

Ops(d) == 1..Len(d)
\* A caller or the converter replaces every parameter of a path.
Fill(path, text) == [k \in DOMAIN path |-> [j \in DOMAIN path[k] |->
                        IF path[k][j] \in Params THEN text ELSE path[k][j]]]

\* The path itself and the path behind each server's prefix.
Candidates(o) == {o.path} \cup {s \o o.path : s \in o.servers}
IsTemplate(segment) == Len(segment) = 1 /\ segment[1] \in Params
IsCompound(segment) == ~IsTemplate(segment) /\ \E j \in DOMAIN segment : segment[j] \in Params

\* Literals in order, a parameter up to the first occurrence of the next
\* literal; two adjacent parameters match nothing.
CompoundMatches(c, s) ==
    LET m[i \in 1..Len(c) + 1, p \in 1..Len(s) + 1] ==
            IF i > Len(c) THEN p = Len(s) + 1
            ELSE IF c[i] \notin Params THEN p <= Len(s) /\ s[p] = c[i] /\ m[i + 1, p + 1]
            ELSE IF i = Len(c) THEN p <= Len(s)
            ELSE LET found == {q \in p + 1..Len(s) : s[q] = c[i + 1]} IN
                 c[i + 1] \notin Params /\ found # {} /\ m[i + 1, Min(found)]
    IN  m[1, 1]
Templated(c, s) == IsTemplate(c) \/ (IsCompound(c) /\ CompoundMatches(c, s))
PathMatches(c, r) == Len(c) = Len(r) /\ \A k \in DOMAIN c : Templated(c[k], r[k]) \/ c[k] = r[k]
StaticCount(c, r) == Cardinality({k \in DOMAIN c : ~Templated(c[k], r[k])})

\* Mutant: a server's prefix before the literals, the order the code once had.
RankServerFirst(o, c, r) == <<IF c # o.path THEN 2 ELSE 1, StaticCount(c, r), StaticCount(c, r) - Len(c)>>
\* More literal segments first, then a server's prefix, then fewer templates.
MatchRank(o, c, r) == <<StaticCount(c, r), IF c # o.path THEN 2 ELSE 1, StaticCount(c, r) - Len(c)>>
Outranks(a, b) == \E k \in 1..3 : a[k] > b[k] /\ \A j \in 1..k - 1 : a[j] = b[j]

\* The operations whose best candidate no other candidate outranks: one is a
\* mapping, several are ambiguous, none is no mapping.
MatchOperation(d, r) ==
    LET rows == {<<i, c>> : i \in Ops(d), c \in UNION {Candidates(d[j]) : j \in Ops(d)}}
        hits == {row \in rows : row[2] \in Candidates(d[row[1]]) /\ PathMatches(row[2], r)}
    IN  {row[1] : row \in {h \in hits : \A g \in hits : ~Outranks(MatchRank(d[g[1]], g[2], r), MatchRank(d[h[1]], h[2], r))}}

NothingInstalled == [failing |-> {}, root |-> <<>>, resolver |-> "none"]
FreshMatch(d, flow, resolver) ==
    [pc |-> "index", doc |-> d, flow |-> flow, wantsResolver |-> resolver,
     requests |-> <<>>, mapped |-> <<>>, shards |-> <<>>, listed |-> NothingInstalled,
     live |-> NothingInstalled, sent |-> 0, path |-> <<>>, faults |-> 0]
MatchInit == \E d \in ApiDocuments, flow \in {"local", "items"}, resolver \in BOOLEAN :
                match = FreshMatch(d, flow, resolver)

Refuse(why) == match' = [match EXCEPT !.pc = why]

\* Every operation with its candidates; two operations with one candidate are refused.
BuildContractIndex ==
    /\ match.pc = "index"
    /\ IF \E i, j \in Ops(match.doc) :
              i # j /\ Candidates(match.doc[i]) \cap Candidates(match.doc[j]) # {}
       THEN Refuse("duplicateMatch")
       ELSE match' = [match EXCEPT !.pc = "convert"]

\* The converter emits a request for every operation; it may drop one, and it
\* emits one for a webhook.
ConvertOpenApi ==
    /\ match.pc = "convert"
    /\ \E dropped \in {0, Len(match.doc)}, extra \in BOOLEAN :
          match' = [match EXCEPT !.pc = "map",
                    !.requests = SelectSeq([i \in Ops(match.doc) |-> i], LAMBDA i : i # dropped)
                                     \o (IF extra THEN <<0>> ELSE <<>>)]

GeneratedPath(o) == IF o = 0 THEN ExtraPath ELSE Fill(match.doc[o].path, Placeholder)

\* The requests in order: a second one of an operation is refused, one of no
\* or of several operations keeps a script that fails.
MapRequest ==
    /\ match.pc = "map" /\ Len(match.mapped) < Len(match.requests)
    /\ LET found == MatchOperation(match.doc, GeneratedPath(match.requests[Len(match.mapped) + 1])) IN
       IF Cardinality(found) = 1 /\ \E k \in DOMAIN match.mapped : match.mapped[k] = found
       THEN Refuse("duplicateRequest")
       ELSE match' = [match EXCEPT !.mapped = Append(@, found)]
Covered == UNION {found \in ToSet(match.mapped) : Cardinality(found) = 1}
CheckCoverage ==
    /\ match.pc = "map" /\ Len(match.mapped) = Len(match.requests)
    /\ IF Covered # Ops(match.doc) THEN Refuse("coverageFailed") ELSE match' = [match EXCEPT !.pc = "pack"]

\* Operations in order into root scripts of at most ScriptLimit bytes.
Bytes(shard) == FixedBytes + MapThenSumSet(LAMBDA i : match.doc[i].bytes, ToSet(shard))
PackOperation ==
    /\ match.pc = "pack"
    /\ LET packed == FoldSeq(LAMBDA s, n : n + Len(s), 0, match.shards)
           own == match.doc[packed + 1].bytes
           last == match.shards[Len(match.shards)]
       IN  IF packed = Len(match.doc)
           THEN match' = [match EXCEPT !.pc = IF match.flow = "local" THEN "import" ELSE "list"]
           ELSE IF FixedBytes + own > ScriptLimit THEN Refuse("scriptTooLarge")
           ELSE IF match.shards = <<>> \/ Bytes(last) + own > ScriptLimit
           THEN match' = [match EXCEPT !.shards = Append(@, <<packed + 1>>)]
           ELSE match' = [match EXCEPT !.shards[Len(match.shards)] = Append(@, packed + 1)]

Unmapped == {k \in DOMAIN match.mapped : Cardinality(match.mapped[k]) # 1}
\* The generated payload carries everything and is imported whole.
ImportInstrumented ==
    /\ match.pc = "import"
    /\ match' = [match EXCEPT !.pc = "live",
                 !.live = [failing |-> Unmapped, root |-> match.shards,
                           resolver |-> IF match.wantsResolver THEN "scripted" ELSE "none"]]

\* Or the scripts are written item by item, and a failed write ends the run; the
\* next one starts over from a list of the items.
ScriptWrite(new, pc) ==
    \/ match' = [match EXCEPT !.live = new, !.pc = pc]
    \/ /\ match.faults < MaxInjectFaults
       /\ \E lost \in BOOLEAN : match' = [match EXCEPT !.pc = "list", !.faults = @ + 1,
                                                       !.live = IF lost THEN @ ELSE new]
ListItems ==
    /\ match.pc = "list"
    /\ match' = [match EXCEPT !.pc = "items", !.listed = match.live]
PatchItem ==
    /\ match.pc = "items"
    /\ IF Unmapped \subseteq match.live.failing THEN match' = [match EXCEPT !.pc = "root"]
       ELSE ScriptWrite([match.live EXCEPT !.failing = @ \cup {Min(Unmapped \ match.live.failing)}], "items")
PatchRoot ==
    /\ match.pc = "root"
    /\ ScriptWrite([match.live EXCEPT !.root = match.shards],
               IF match.wantsResolver /\ match.listed.resolver = "none" THEN "resolver" ELSE "live")
CreateResolver ==
    /\ match.pc = "resolver"
    /\ \E named \in BOOLEAN :  \* an answer without the item's id leaves it bare
          ScriptWrite([match.live EXCEPT !.resolver = "bare"], IF named THEN "script" ELSE "live")
PatchNewItemScripts ==
    /\ match.pc = "script"
    /\ ScriptWrite([match.live EXCEPT !.resolver = "scripted"], "live")

\* A caller sends an operation's request to one of its servers.
Sends(o) == IF o.servers = {} THEN {o.path} ELSE {s \o o.path : s \in o.servers}
SendRequest ==
    /\ match.pc = "live" /\ match.sent = 0
    /\ \E i \in Ops(match.doc) : \E p \in Sends(match.doc[i]) :
          match' = [match EXCEPT !.sent = i, !.path = Fill(p, Value)]

\* What the shards do with the request they all see: the one that holds the
\* operation asserts its contract, the first reports that there is none.
Dispatched == MatchOperation(match.doc, match.path)
Asserts == {<<k, i>> \in (DOMAIN match.live.root) \X Ops(match.doc) :
               Dispatched = {i} /\ i \in ToSet(match.live.root[k])}
Reports == {k \in DOMAIN match.live.root : Cardinality(Dispatched) # 1 /\ k = 1}

MatchNext ==
    \/ BuildContractIndex \/ ConvertOpenApi \/ MapRequest \/ CheckCoverage \/ PackOperation
    \/ ImportInstrumented \/ ListItems \/ PatchItem \/ PatchRoot \/ CreateResolver
    \/ PatchNewItemScripts \/ SendRequest
MatchSpec == MatchInit /\ [][MatchNext]_matchVars

\* Two operations tie on a path when a candidate of the one matches it with as
\* many literals as a candidate of the other.
Tie(i, j, r) ==
    /\ i # j
    /\ \E c \in Candidates(match.doc[i]), e \in Candidates(match.doc[j]) :
          PathMatches(c, r) /\ PathMatches(e, r) /\ StaticCount(c, r) <= StaticCount(e, r)

\* In a collection the instrumentation accepted every request of an operation
\* was mapped to that operation, the way two wrong mappings would otherwise
\* cancel out in the coverage check.
EachToItsOwn ==
    match.pc \notin {"index", "convert", "map", "duplicateMatch", "duplicateRequest", "coverageFailed"} =>
        \A k \in DOMAIN match.mapped : match.requests[k] # 0 => match.mapped[k] = {match.requests[k]}
\* Sent with text of its own for every parameter, a request asserts its own
\* operation's contract in exactly one root script; it is never judged by another
\* operation's, and only a tie of two operations' server paths leaves it a
\* reported mapping failure.
AssertedOnce ==
    match.sent # 0 =>
        \/ \E k \in DOMAIN match.live.root : Asserts = {<<k, match.sent>>} /\ Reports = {}
        \/ Asserts = {} /\ Cardinality(Reports) = 1 /\ \E j \in Ops(match.doc) : Tie(match.sent, j, match.path)
\* A document whose requests the converter emitted is refused as duplicate or
\* uncovered only if two of its operations tie on a generated request.
RefusedOnlyOnTies ==
    match.pc \in {"duplicateRequest", "coverageFailed"} /\ Ops(match.doc) \subseteq ToSet(match.requests) =>
        \E k \in DOMAIN match.requests : \E j \in Ops(match.doc) :
            \/ match.requests[k] # 0 /\ Tie(match.requests[k], j, GeneratedPath(match.requests[k]))
            \/ match.requests[k] = 0 /\ \E c \in Candidates(match.doc[j]) : PathMatches(c, ExtraPath)

\* The mapping of requests to operations is neither crossed nor ambiguous, in
\* the generated collection and when its requests are sent.
MatchingIsSafe == EachToItsOwn /\ AssertedOnce /\ RefusedOnlyOnTies
================================================================================
