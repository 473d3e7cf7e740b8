------------------------------- MODULE McpLane -------------------------------
(***************************************************************************)
(* The contract collection of an MCP manifest: what the parser keeps of    *)
(* it, the items built for every server, the gate that admits them, and a  *)
(* run of the HTTP items against the live servers, one item after another. *)
(* The items share the variables of one collection: each server's lap      *)
(* finds what the laps before it left there.                               *)
(***************************************************************************)
EXTENDS Integers, Sequences, FiniteSets, SequencesExt
CONSTANTS
    Manifests, \* [servers, tools, resources, prompts, large]: a sequence of servers, the names
               \* declared, and whether the collection is over the byte limit
    PageProbes \* MCP_TOOLS_LIST_PAGINATION_PROBE_COUNT
\* A server: whether it has a URL, an Authorization header and a URL that
\* parses; and the pages of tool names, the cursors and the capabilities
\* ("tools", "resources", "prompts", "subscribe") it may answer.
ASSUME LaneAssumption ==
    /\ PageProbes \in Nat \ {0}
    /\ \A m \in Manifests :
          /\ m.servers \in Seq(ToSet(m.servers)) /\ m.tools \in Seq(ToSet(m.tools))
          /\ m.resources \in Seq(ToSet(m.resources)) /\ m.prompts \in Seq(ToSet(m.prompts))
          /\ \A s \in ToSet(m.servers) :
                /\ s.capabilities \subseteq SUBSET {"tools", "resources", "prompts", "subscribe"}
                /\ \A page \in s.pages : page \in Seq(ToSet(page))

VARIABLES
    lane,  \* [stage, manifest, srv, item, green]: the collection and where its run is
    kept,  \* the collection variables mcp_*
    live   \* what the present server did, beside what the variables tell of it
laneVars == <<lane, kept, live>>

Nothing == "unset"
EmptyCursor == ""
Truthy(cursor) == cursor \notin {Nothing, EmptyCursor}

(***************************************************************************)
(* The parser and the builder.                                             *)
(***************************************************************************)
\* One declaration of each name, sorted.
KeptNames(names) == SetToSeq(ToSet(names))
Parsed(raw) ==
    [servers |-> raw.servers, large |-> raw.large, tools |-> KeptNames(raw.tools),
     resources |-> KeptNames(raw.resources), prompts |-> KeptNames(raw.prompts)]

Item(kind, name) == [kind |-> kind, name |-> name]
Each(kind, names) == [k \in DOMAIN names |-> Item(kind, names[k])]
When(condition, items) == IF condition THEN items ELSE <<>>

\* The variables before anything is known, and a server nobody spoke to.
Unknown == {Nothing}
Unmet == [opened |-> 0, accepted |-> 0, issued |-> FALSE, offers |-> {}, used |-> {}, listed |-> <<>>,
          cursor |-> Nothing, subscribed |-> FALSE, skipped |-> FALSE]

\* The templates of one server, with the id of the JSON-RPC message each carries.
Idless == <<>>
Template(kind, name, id) == [kind |-> kind, name |-> name, id |-> id]
StaticItems(m) ==
    <<Template("initialize", "", <<"number", 1>>), Template("initialized", "", Idless),
      Template("tools/list", "", <<"number", 2>>), Template("resources/list", "", <<"number", 8>>),
      Template("prompts/list", "", <<"number", 9>>)>>
    \o [k \in DOMAIN m.tools |-> Template("tools/call", m.tools[k], <<"number", 2 + k>>)]
    \o [k \in DOMAIN m.resources |-> Template("resources/read", m.resources[k], <<"read", m.resources[k]>>)]
    \o [k \in DOMAIN m.prompts |-> Template("prompts/get", m.prompts[k], <<"prompt", m.prompts[k]>>)]

\* The items that run, of one server with a URL.
Opening ==
    <<Item("initialize", ""), Item("initialized", ""), Item("listen", ""), Item("notification", ""),
      Item("client response", ""), Item("ping", ""), Item("tools/list", ""), Item("resources/list", ""),
      Item("prompts/list", ""), Item("no session", "")>>
CursorProbes == [k \in 1..PageProbes |-> Item("page", k)] \o <<Item("replay", "")>>
ServerCalls(m) == Each("tools/call", m.tools) \o Each("resources/read", m.resources)
            \o Each("prompts/get", m.prompts) \o <<Item("templates", "")>>
Probes(m) ==
    When(m.resources # <<>>, <<Item("subscribe", ""), Item("unsubscribe", "")>>)
    \o When(m.tools # <<>>, <<Item("progress", 1), Item("progress", 2), Item("cancelled", "")>>)
AuthorizationProbes(s) ==
    When(s.auth, <<Item("unauthenticated", ""), Item("bogus bearer", "")>>
                 \o When(s.prm, <<Item("resource metadata", "")>>))
Closing == <<Item("bad version", ""), Item("invalid cursor", ""), Item("terminate", ""), Item("old session", "")>>
RuntimeItems(m, s) ==
    When(s.http, Opening \o CursorProbes \o ServerCalls(m) \o Probes(m) \o AuthorizationProbes(s) \o Closing)

(***************************************************************************)
(* The gate: every message id once in a server, every item once, as many   *)
(* as the index calls for, and no more bytes than an update takes.         *)
(***************************************************************************)
RepeatsId(m) == \E i, j \in DOMAIN StaticItems(m) :
    i # j /\ StaticItems(m)[i].id # Idless /\ StaticItems(m)[i].id = StaticItems(m)[j].id
ExpectedStatic(m) == 5 + Len(m.tools) + Len(m.resources) + Len(m.prompts)
\* Sixteen and the pages: 21 with five of them.
ExpectedRuntimeItemCount(m, s) ==
    IF s.http
    THEN 16 + PageProbes + Len(m.tools) + Len(m.resources) + Len(m.prompts)
         + (IF m.tools # <<>> THEN 3 ELSE 0) + (IF m.resources # <<>> THEN 2 ELSE 0)
         + (IF s.auth THEN (IF s.prm THEN 3 ELSE 2) ELSE 0)
    ELSE 0
Covers(items, expected) ==
    Len(items) = expected /\ Cardinality({<<items[k].kind, items[k].name>> : k \in DOMAIN items}) = expected
Lacking(m) ==
    \/ m.servers # <<>> /\ ~Covers(StaticItems(m), ExpectedStatic(m))
    \/ \E k \in DOMAIN m.servers :
          ~Covers(RuntimeItems(m, m.servers[k]), ExpectedRuntimeItemCount(m, m.servers[k]))
Admitted(m) == m.servers # <<>> /\ ~RepeatsId(m) /\ ~Lacking(m) /\ ~m.large

FreshLane(raw) == [stage |-> "gate", manifest |-> Parsed(raw), srv |-> 1, item |-> 1, green |-> TRUE]
LaneInit ==
    /\ \E raw \in Manifests : lane = FreshLane(raw)
    /\ kept = [init |-> FALSE, inited |-> FALSE, session |-> 0, caps |-> Unknown, next |-> Nothing,
               first |-> Nothing, seen |-> {}, missing |-> {}, depth |-> 0,
               subscribed |-> FALSE, deleted |-> "none"]
    /\ live = Unmet

InstrumentMcp ==
    /\ lane.stage = "gate"
    /\ lane' = [lane EXCEPT !.stage = IF Admitted(lane.manifest) THEN "run" ELSE "refused"]
    /\ UNCHANGED <<kept, live>>

(***************************************************************************)
(* The run of the HTTP items.                                              *)
(***************************************************************************)
Present == lane.manifest.servers[lane.srv]
Lap == RuntimeItems(lane.manifest, Present)
Running == lane.stage = "run" /\ lane.srv \in DOMAIN lane.manifest.servers
AtItem == Running /\ lane.item \in DOMAIN Lap
AtKind(kinds) == AtItem /\ Lap[lane.item].kind \in kinds

\* What the script before a request checks.
Unguarded == {"initialize", "unauthenticated", "bogus bearer", "resource metadata"}
MaySend(kind) ==
    CASE kind \in Unguarded -> TRUE
      [] kind = "initialized" -> kept.init
      [] kind = "page" -> kept.inited /\ Truthy(kept.next)
      [] kind = "replay" -> kept.inited /\ Truthy(kept.first)
      [] OTHER -> kept.inited
Sending(kinds) == AtKind(kinds) /\ MaySend(Lap[lane.item].kind)
SkipRequest ==
    /\ AtItem /\ ~MaySend(Lap[lane.item].kind)
    /\ lane' = [lane EXCEPT !.item = @ + 1]
    /\ live' = [live EXCEPT !.skipped = @ \/ Lap[lane.item].kind \notin {"page", "replay"}]
    /\ UNCHANGED kept

\* The tests of one answer: those that decide a variable, and the others
\* (media type, shapes, media of content), which any answer may fail.
TestsPass == lane' = [lane EXCEPT !.item = @ + 1]
TestsFail == lane' = [lane EXCEPT !.item = @ + 1, !.green = FALSE]
Tested(pass) == (pass /\ TestsPass) \/ TestsFail

\* Every lap begins by forgetting the handshake of the one before it; the
\* other variables are only written over.
Initialize ==
    /\ Sending({"initialize"})
    /\ \/ /\ TestsFail
          /\ kept' = [kept EXCEPT !.init = FALSE, !.inited = FALSE]
          /\ live' = [Unmet EXCEPT !.skipped = live.skipped]
       \/ \E issues \in BOOLEAN, declared \in Present.capabilities :
          /\ Tested(TRUE)
          /\ kept' = [kept EXCEPT !.init = TRUE, !.inited = FALSE, !.caps = declared,
                                  !.session = IF issues THEN lane.srv ELSE @]
          /\ live' = [Unmet EXCEPT !.skipped = live.skipped, !.opened = lane.srv,
                                   !.issued = issues, !.offers = declared]
Initialized ==
    /\ Sending({"initialized"})
    /\ \/ TestsPass /\ kept' = [kept EXCEPT !.inited = TRUE] /\ live' = [live EXCEPT !.accepted = lane.srv]
       \/ TestsFail /\ kept' = [kept EXCEPT !.inited = FALSE] /\ UNCHANGED live

\* mcpRecordToolPage, mcpSaveToolNextCursor.
Fresh(page, seen) == \A i \in DOMAIN page : page[i] \notin seen /\ \A j \in 1..i - 1 : page[j] # page[i]
Recorded(k, page) == [k EXCEPT !.seen = @ \cup ToSet(page), !.missing = @ \ ToSet(page)]
Saved(k, cursor) ==
    IF cursor = Nothing THEN [k EXCEPT !.next = Nothing]
    ELSE [k EXCEPT !.first = IF Truthy(@) THEN @ ELSE cursor, !.next = cursor]
Complete(k, cursor) == cursor = Nothing => k.missing = {}
Declares(feature) == kept.caps = Unknown \/ feature \in kept.caps
Serves(feature) == [live EXCEPT !.used = @ \cup {feature}]

\* A page: the pagination starts over, the page counts when its tools are well
\* formed and their names fresh, and its cursor is saved in any case.
\* An error: nothing.  Any other body: its cursor may be saved, if it has one.
ToolsList ==
    /\ Sending({"tools/list"})
    /\ \/ \E page \in Present.pages, cursor \in Present.cursors, formed \in BOOLEAN :
          LET reset == [kept EXCEPT !.seen = {}, !.missing = ToSet(lane.manifest.tools), !.depth = 0, !.first = Nothing]
              counts == formed /\ Fresh(page, {})
              counted == IF counts THEN Recorded(reset, page) ELSE reset
          IN  /\ kept' = Saved(counted, cursor)
              /\ Tested(counts /\ Declares("tools") /\ Complete(counted, cursor))
              /\ live' = [Serves("tools") EXCEPT !.listed = page, !.cursor = cursor]
       \/ TestsFail /\ UNCHANGED <<kept, live>>
       \/ TestsFail /\ (\E cursor \in Present.cursors : kept' = Saved(kept, cursor)) /\ UNCHANGED live

\* An answer other than a page fails and changes nothing.
NextPage ==
    /\ Sending({"page"})
    /\ \/ \E page \in Present.pages, cursor \in Present.cursors :
          LET counted == [Recorded(kept, page) EXCEPT !.depth = @ + 1]
              saved == Saved(counted, cursor)
          IN  /\ live' = [live EXCEPT !.listed = @ \o page, !.cursor = cursor]
              /\ IF ~Fresh(page, kept.seen) THEN TestsFail /\ UNCHANGED kept
                 ELSE IF cursor = kept.next THEN TestsFail /\ kept' = counted
                 ELSE /\ kept' = saved
                      /\ Tested(Complete(counted, cursor) /\ ~(Truthy(saved.next) /\ saved.depth >= PageProbes))
       \/ TestsFail /\ UNCHANGED <<kept, live>>

\* Served only if the capability was declared; an error passes for the
\* templates alone.
FeatureOf(kind) ==
    CASE kind = "tools/call" -> "tools"
      [] kind \in {"prompts/list", "prompts/get"} -> "prompts"
      [] OTHER -> "resources"
FeatureCall ==
    /\ Sending({"resources/list", "prompts/list", "tools/call", "resources/read", "prompts/get", "templates"})
    /\ UNCHANGED kept
    /\ LET feature == FeatureOf(Lap[lane.item].kind) IN
       \/ Tested(Declares(feature)) /\ live' = Serves(feature)
       \/ Tested(AtKind({"templates"})) /\ UNCHANGED live

Subscribe ==
    /\ Sending({"subscribe"})
    /\ \/ /\ Tested(Declares("subscribe"))
          /\ kept' = [kept EXCEPT !.subscribed = @ \/ Declares("subscribe")]
          /\ live' = [Serves("subscribe") EXCEPT !.subscribed = TRUE]
       \/ /\ Tested("subscribe" \notin kept.caps) \* an error
          /\ kept' = [kept EXCEPT !.subscribed = FALSE] /\ UNCHANGED live
       \/ TestsFail /\ UNCHANGED <<kept, live>>      \* anything else
Unsubscribe ==
    /\ Sending({"unsubscribe"})
    /\ \/ Tested(TRUE) /\ kept' = [kept EXCEPT !.subscribed = FALSE] /\ live' = [live EXCEPT !.subscribed = FALSE]
       \/ Tested(~kept.subscribed) /\ UNCHANGED <<kept, live>>

\* Without a session the probe says nothing; DELETE may be unsupported.
SessionRequired ==
    Sending({"no session"}) /\ (IF kept.session = 0 THEN TestsPass ELSE Tested(TRUE)) /\ UNCHANGED <<kept, live>>
Terminate ==
    /\ Sending({"terminate"})
    /\ \E status \in {"405", "2xx", "other"} :
        kept' = [kept EXCEPT !.deleted = status] /\ (IF status = "other" THEN TestsFail ELSE TestsPass)
    /\ UNCHANGED live
OldSession ==
    Sending({"old session"}) /\ (IF kept.deleted = "405" THEN TestsPass ELSE Tested(TRUE)) /\ UNCHANGED <<kept, live>>

\* Requests whose answer only passes or fails: pings and messages without an
\* id; streams, progress and authorization; a cursor asked for again, a wrong
\* cursor and a wrong version.
PlainProbe(kinds) == Sending(kinds) /\ Tested(TRUE) /\ UNCHANGED <<kept, live>>
FramingProbe == PlainProbe({"ping", "notification", "client response", "cancelled"})
StreamProbe == PlainProbe({"listen", "progress", "unauthenticated", "bogus bearer", "resource metadata"})
WrongProbe == PlainProbe({"replay", "invalid cursor", "bad version"})

NextServer ==
    /\ Running /\ ~AtItem
    /\ lane' = IF lane.srv = Len(lane.manifest.servers) THEN [lane EXCEPT !.stage = "done"]
               ELSE [lane EXCEPT !.srv = @ + 1, !.item = 1]
    /\ UNCHANGED <<kept, live>>

LaneNext ==
    \/ InstrumentMcp \/ SkipRequest \/ Initialize \/ Initialized \/ ToolsList \/ NextPage \/ FeatureCall
    \/ Subscribe \/ Unsubscribe \/ SessionRequired \/ Terminate \/ OldSession
    \/ FramingProbe \/ StreamProbe \/ WrongProbe \/ NextServer
LaneSpec == LaneInit /\ [][LaneNext]_laneVars

(***************************************************************************)
(* Properties.                                                             *)
(***************************************************************************)
\* Whatever an earlier server left in the variables, a request is only sent
\* to a server that opened and accepted the handshake of this lap.
HandshakeFirst ==
    /\ Sending({"initialized"}) => live.opened = lane.srv
    /\ AtItem /\ Lap[lane.item].kind \notin Unguarded \cup {"initialized"} /\ MaySend(Lap[lane.item].kind)
       => live.opened = lane.srv /\ live.accepted = lane.srv
\* A server that issued a session is sent that one, never a predecessor's.
OwnSession == AtItem /\ kept.init /\ lane.item > 1 /\ live.issued => kept.session = lane.srv
\* In a run without a failed test every page asked for is the one this server
\* pointed to last.
OwnCursor == lane.green /\ Sending({"page"}) => kept.next = live.cursor
\* No failed test: no request was skipped but for want of a cursor.
GreenIsExercised == lane.green => ~live.skipped
\* No failed test: the server has listed every declared tool, none twice.  A
\* server that ends a page with an empty cursor escapes: the probes take it
\* for none and the completeness is not asserted.
PastListing == Running /\ lane.item > Len(Opening) + PageProbes
GreenListingIsComplete ==
    lane.green /\ PastListing /\ live.cursor # EmptyCursor
    => ToSet(lane.manifest.tools) \subseteq ToSet(live.listed) /\ IsInjective(live.listed)
\* No failed test: the server declared whatever it served, and is left
\* without a subscription.
GreenServesDeclared == lane.green => live.used \subseteq live.offers
GreenUnsubscribes == lane.green /\ Running /\ ~AtItem => ~live.subscribed
\* The gate finds what the builder built complete: it refuses for a number
\* that two messages share, and only manifests of six tools or more.
GateKnowsItsBuilder ==
    LET m == lane.manifest IN
    lane.stage = "refused" => m.servers = <<>> \/ m.large \/ Len(m.tools) > 5

McpLaneIsSafe ==
    /\ HandshakeFirst /\ OwnSession /\ OwnCursor
    /\ GreenIsExercised /\ GreenListingIsComplete /\ GreenServesDeclared /\ GreenUnsubscribes
    /\ GateKnowsItsBuilder
=================================================================================
