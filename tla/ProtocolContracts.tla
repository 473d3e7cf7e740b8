-------------------------- MODULE ProtocolContracts --------------------------
(***************************************************************************)
(* The contract collections of a gRPC, GraphQL or SOAP document: the items *)
(* the builder makes of it, the script each item is given, the refusals,   *)
(* and what the tests of a script say of an answer.                        *)
(***************************************************************************)
EXTENDS Integers, Sequences, FiniteSets, SequencesExt
CONSTANTS
    Contracts,  \* [protocol, operations, ...]: what the parsers leave of a document, see below
    ShapeDepth, \* MAX_SHAPE_DEPTH
    Misorders,  \* the pairs of field names that localeCompare and the code units order differently
    WrongFields \* the sets of paths of fields at which a gRPC message may be wrong
\* Every document has services, each a sequence of operations with a key and over
\* (the script is too long); and large (the collection is). An operation of
\*   grpc has a stream and a response, and the document messages: for each
\*     name the set of its fields [name, type];
\*   graphql has a kind and returns, and the document types: for each name the
\*     set of its fields [name, ref]; a ref is [type, kind, nonNull, items],
\*     with one nonNull of items for each list around the type;
\*   soap has a version, an action or "" for none, a pattern, an element (is
\*     one expected) and get (the request carries no envelope), and the document
\*     addressed.
PlacesIn(d) == UNION {{<<s, k>> : k \in DOMAIN d.services[s]} : s \in DOMAIN d.services}
OperationAt(d, p) == d.services[p[1]][p[2]]
OperationsIn(d) == {OperationAt(d, p) : p \in PlacesIn(d)}
ASSUME ContractAssumption ==
    /\ ShapeDepth \in Nat
    /\ \A paths \in WrongFields : \A path \in paths : path \in Seq(ToSet(path)) /\ path # <<>>
    /\ \A d \in Contracts :
          /\ d.protocol \in {"grpc", "graphql", "soap"}
          /\ d.services \in Seq(Seq(OperationsIn(d)))
          /\ \A p, q \in PlacesIn(d) : OperationAt(d, p) = OperationAt(d, q) => p = q
          /\ d.protocol = "grpc" =>
                /\ \A o \in OperationsIn(d) : o.stream \in {"unary", "client", "server", "bidi"}
                /\ \A m \in DOMAIN d.messages : \A f \in d.messages[m] : f = [name |-> f.name, type |-> f.type]
          /\ d.protocol = "graphql" =>
                /\ Len(d.services) = 1 /\ IsFiniteSet(DOMAIN d.types)
                /\ \A o, p \in OperationsIn(d) : o.key = p.key => o = p
          /\ d.protocol = "soap" =>
                \A o \in OperationsIn(d) : o.version \in {"1.1", "1.2"} /\ o.pattern \in {"reply", "one-way", "in-only"}

VARIABLES
    contract, \* [stage, doc, folder, items, scripts]: the collection and how far it is built
    call      \* [at, answer, failed]: the item run last, its answer and the tests it failed
contractVars == <<contract, call>>

(***************************************************************************)
(* The fields a gRPC shape asserts.                                        *)
(***************************************************************************)
StatusMessage == "google.rpc.Status"
Field(name, type) == [name |-> name, type |-> type]
StatusFields == {Field("code", "scalar"), Field("message", "scalar"), Field("details", "scalar")}
Declared(doc, m) == m \in DOMAIN doc.messages
FieldsOf(doc, m) ==
    IF Declared(doc, m) THEN doc.messages[m] ELSE IF m = StatusMessage THEN StatusFields ELSE {}

\* Where a shape is expanded: the path there and the messages on the way. A
\* message on its own way, or too deep, is asserted to be an object only.
Root(m) == [path |-> <<>>, way |-> <<m>>]
Below(node, f) == [path |-> Append(node.path, f.name), way |-> Append(node.way, f.type)]
Expands(doc, node, f, depth) ==
    \/ Declared(doc, f.type) /\ depth <= ShapeDepth /\ f.type \notin ToSet(node.way)
    \/ ~Declared(doc, f.type) /\ f.type = StatusMessage
ExpandedBelow(doc, node, depth) ==
    {Below(node, f) : f \in {g \in FieldsOf(doc, Last(node.way)) : Expands(doc, node, g, depth)}}
ShapeLevels(doc, m) ==
    LET level[k \in 0..(ShapeDepth + 1)] ==
            IF k = 0 THEN {Root(m)} ELSE UNION {ExpandedBelow(doc, node, k) : node \in level[k - 1]}
    IN  level
Shape(doc, m) == UNION {ShapeLevels(doc, m)[k] : k \in 0..(ShapeDepth + 1)}
AssertedPaths(doc, m) ==
    UNION {{Append(node.path, f.name) : f \in {g \in FieldsOf(doc, Last(node.way)) : g.type # "unresolved"}}
           : node \in Shape(doc, m)}

(***************************************************************************)
(* The fields a GraphQL document selects. A connection opens its pageInfo, *)
(* its edges and the connections among its fields; nothing else nests.     *)
(***************************************************************************)
Composite(ref) == ref.kind \in {"object", "interface"}
Leaf(ref) == ref.kind \in {"scalar", "custom", "enum"}
TypenameField == [name |-> "__typename",
                  ref |-> [type |-> "String", kind |-> "scalar", nonNull |-> TRUE, items |-> <<>>]]
TypeFields(doc, ref) == IF ref.type \in DOMAIN doc.types THEN doc.types[ref.type] ELSE {}
Connection(doc, ref) ==
    /\ ref.kind = "object" /\ ref.type \in doc.connections
    /\ \E f \in TypeFields(doc, ref) : f.name = "pageInfo" /\ f.ref.kind = "object"
    /\ \E f \in TypeFields(doc, ref) : f.name = "edges" /\ f.ref.items # <<>>

\* Selected fields carry the part of their own type that is selected.
PageInfoFields == {"hasNextPage", "hasPreviousPage", "startCursor", "endCursor"}
Selected(path, f, part) == [path |-> Append(path, f.name), ref |-> f.ref, part |-> part]
SelectFields(doc, at) ==
    LET fields == TypeFields(doc, at.ref)
        relay == at.part = "all" /\ Connection(doc, at.ref)
    IN  CASE at.part = "pageInfo" ->
                {Selected(at.path, f, "leaf") : f \in {g \in fields : g.ref.kind \in {"scalar", "custom"} /\ g.name \in PageInfoFields}}
          [] at.part = "edges" ->
                {Selected(at.path, f, "leaf") : f \in {g \in fields : g.ref.kind \in {"scalar", "custom"} /\ g.name = "cursor"}}
          [] at.part = "all" /\ Composite(at.ref) /\ at.ref.type \in DOMAIN doc.types ->
                {Selected(at.path, f, f.name) : f \in {g \in fields : relay /\ g.name \in {"pageInfo", "edges"}}}
                \cup {Selected(at.path, f, "leaf") :
                         f \in {g \in fields : Leaf(g.ref) /\ ~(relay /\ g.name \in {"pageInfo", "edges"})}
                               \cup (IF at.ref.kind = "interface" THEN {TypenameField} ELSE {})}
                \cup {Selected(at.path, f, "all") :
                         f \in {g \in fields : Connection(doc, g.ref) /\ ~(relay /\ g.name \in {"pageInfo", "edges"})}}
          [] OTHER -> {}
RootValue(o) == [path |-> <<>>, ref |-> o.returns, part |-> "all"]
SelectionLevels(doc, o) ==
    LET level[k \in 0..(Cardinality(DOMAIN doc.types) + 3)] ==
            IF k = 0 THEN {RootValue(o)} ELSE UNION {SelectFields(doc, at) : at \in level[k - 1]}
    IN  level
\* A connection among the fields of itself is opened without end.
Endless(doc, o) == SelectionLevels(doc, o)[Cardinality(DOMAIN doc.types) + 3] # {}
Selection(doc, o) == UNION {SelectionLevels(doc, o)[k] : k \in DOMAIN SelectionLevels(doc, o)}
SelectedKeys(doc, at) ==
    IF SelectFields(doc, at) = {} THEN {"__typename"} ELSE {Last(f.path) : f \in SelectFields(doc, at)}

(***************************************************************************)
(* The builders: an item for every operation, in folders of a service, and *)
(* the probes a protocol has.                                              *)
(***************************************************************************)
NoOperation == [key |-> "none"]
OperationItem(o) == [kind |-> "operation", key |-> o.key, op |-> o]
ProbeItem(key) == [kind |-> "probe", key |-> key, op |-> NoOperation]
MediaProbe == "unsupported media type"
ItemsOf(operations) == [k \in DOMAIN operations |-> OperationItem(operations[k])]
ServiceItems(doc, operations) ==
    ItemsOf(operations)
    \o (IF doc.protocol = "soap" /\ \E k \in DOMAIN operations : operations[k].version = "1.2"
        THEN <<ProbeItem(MediaProbe)>> ELSE <<>>)
GraphqlItems(doc) ==
    ItemsOf(doc.services[1])
    \o <<ProbeItem("introspection"), ProbeItem("invalid document"), ProbeItem("malformed json")>>
    \o (IF \E o \in OperationsIn(doc) : o.kind = "mutation" THEN <<ProbeItem("get mutation")>> ELSE <<>>)
    \o (IF doc.federated THEN <<ProbeItem("federation")>> ELSE <<>>)

(***************************************************************************)
(* The instrumenters: the script of an item is that of the operation its   *)
(* key names, of the last one where keys repeat.                           *)
(***************************************************************************)
Unmatched == [kind |-> "fail closed", op |-> NoOperation]
ProbeScript == [kind |-> "probe", op |-> NoOperation]
PlacesNamed(doc, key) == {p \in PlacesIn(doc) : OperationAt(doc, p).key = key}
NotAfter(p, q) == p[1] < q[1] \/ (p[1] = q[1] /\ p[2] <= q[2])
LastNamed(doc, key) ==
    OperationAt(doc, CHOOSE p \in PlacesNamed(doc, key) : \A q \in PlacesNamed(doc, key) : NotAfter(q, p))
ScriptOf(doc, item) ==
    IF item.kind = "probe" THEN ProbeScript
    ELSE IF PlacesNamed(doc, item.key) = {} THEN Unmatched
    ELSE [kind |-> "operation", op |-> LastNamed(doc, item.key)]
CoveredKeys(scripts) == {scripts[k].op.key : k \in {j \in DOMAIN scripts : scripts[j].kind = "operation"}}
\* A second request for a gRPC method, and a script an update cannot carry.
Refuses(doc, script, scripts) ==
    /\ script.kind = "operation"
    /\ \/ doc.protocol = "grpc" /\ script.op.key \in CoveredKeys(scripts)
       \/ doc.protocol \in {"grpc", "graphql"} /\ script.op.over

FreshContract(doc) == [stage |-> "build", doc |-> doc, folder |-> 0, items |-> <<>>, scripts |-> <<>>]
Uncalled == [at |-> 0, answer |-> "none", failed |-> {}]
ContractsInit ==
    /\ \E d \in Contracts : contract = FreshContract(d)
    /\ call = Uncalled

BuildGraphqlItems ==
    /\ contract.stage = "build" /\ contract.doc.protocol = "graphql"
    /\ contract' = IF \E o \in OperationsIn(contract.doc) : Endless(contract.doc, o)
                   THEN [contract EXCEPT !.stage = "refused"]
                   ELSE [contract EXCEPT !.stage = "inject", !.items = GraphqlItems(contract.doc)]
    /\ UNCHANGED call

BuildFolder ==
    /\ contract.stage = "build" /\ contract.doc.protocol # "graphql"
    /\ contract' = IF contract.folder = Len(contract.doc.services) THEN [contract EXCEPT !.stage = "inject"]
                   ELSE [contract EXCEPT !.folder = @ + 1,
                                         !.items = @ \o ServiceItems(contract.doc, contract.doc.services[contract.folder + 1])]
    /\ UNCHANGED call

InjectItem ==
    /\ contract.stage = "inject" /\ Len(contract.scripts) < Len(contract.items)
    /\ LET script == ScriptOf(contract.doc, contract.items[Len(contract.scripts) + 1])
       IN  contract' = IF Refuses(contract.doc, script, contract.scripts)
                       THEN [contract EXCEPT !.stage = "refused"]
                       ELSE [contract EXCEPT !.scripts = Append(@, script)]
    /\ UNCHANGED call

FinishInstrumentation ==
    /\ contract.stage = "inject" /\ Len(contract.scripts) = Len(contract.items)
    /\ LET missing == {o \in OperationsIn(contract.doc) : o.key \notin CoveredKeys(contract.scripts)}
           large == contract.doc.protocol = "grpc" /\ contract.doc.large
       IN  contract' = [contract EXCEPT !.stage = IF missing # {} \/ large THEN "refused" ELSE "done"]
    /\ UNCHANGED call

(***************************************************************************)
(* The tests of a gRPC script. An answer is [code, wire, messages]: the    *)
(* status, whether metadata and trailers keep the rules of the wire, and   *)
(* the messages, each [object, wrong]: an object or not, and the fields    *)
(* whose value is none of their type.                                      *)
(***************************************************************************)
Messages == {[object |-> o, wrong |-> w] : o \in BOOLEAN, w \in WrongFields}
Streams(o) == o.stream \in {"server", "bidi"}
GrpcAnswers(o) ==
    {[code |-> c, wire |-> w, messages |-> ms] : c \in {0, 5}, w \in BOOLEAN,
        ms \in {<<>>} \cup {<<m>> : m \in Messages}
               \cup (IF Streams(o) THEN {<<m, n>> : m, n \in Messages} ELSE {})}
ShapeFails(doc, o, m) == ~m.object \/ m.wrong \cap AssertedPaths(doc, o.response) # {}
HasShape(doc, o) == AssertedPaths(doc, o.response) # {}
GrpcFails(doc, o, a) ==
    {t \in {"status", "wire", "terminal", "shape", "stream"} :
        CASE t = "status" -> a.code # 0
          [] t = "wire" -> ~a.wire
          [] t = "terminal" -> ~Streams(o) /\ a.code = 0 /\ (a.messages = <<>> \/ ~Last(a.messages).object)
          [] t = "shape" -> /\ HasShape(doc, o) /\ a.code = 0
                            /\ IF a.messages = <<>> THEN ~Streams(o) ELSE ShapeFails(doc, o, Last(a.messages))
          [] t = "stream" -> /\ HasShape(doc, o) /\ a.code = 0 /\ Streams(o)
                             /\ \E m \in ToSet(a.messages) : ShapeFails(doc, o, m)}

(***************************************************************************)
(* The tests of a GraphQL script. An answer is [media, status, errors,     *)
(* data, flaw]; the flaw is one thing wrong with the data: at a place that *)
(* was selected the value is absent, null, of another type within its      *)
(* lists or with a field more, or a list around it holds a null. What the  *)
(* tests ask of the request is true of every request as it was built.      *)
(***************************************************************************)
Sound == [place |-> <<>>, what |-> "nothing", dim |-> 0]
Flaw(at, what, dim) == [place |-> at, what |-> what, dim |-> dim]
FlawsAt(at) ==
    {Flaw(at, w, 0) : w \in {"absent", "null", "type"}}
    \cup {Flaw(at, w, 0) : w \in IF Composite(at.ref) \/ at.ref.kind = "union" THEN {"extra"} ELSE {}}
    \cup {Flaw(at, "null item", k) : k \in DOMAIN at.ref.items}
Flaws(doc, o) == {Sound} \cup UNION {FlawsAt(at) : at \in Selection(doc, o)}
GraphqlAnswers(doc, o) ==
    {[media |-> m, status |-> c, errors |-> e, data |-> d, flaw |-> Sound] :
        m \in {"graphql", "json"}, c \in {200, 294, 400, 500}, e \in BOOLEAN, d \in {"absent", "null"}}
    \cup {[media |-> m, status |-> c, errors |-> e, data |-> "map", flaw |-> f] :
             m \in {"graphql", "json"}, c \in {200, 294, 400, 500}, e \in BOOLEAN, f \in Flaws(doc, o)}

Succeeded(a) == a.status \in 200..299
Untrusted(a) == a.media = "json" /\ a.status # 200
AtRoot(flaw, what) == flaw.what = what /\ flaw.place.path = <<>>
Reached(at, flaw) ==
    flaw.what \in {"absent", "null", "type"} => flaw.place.path # <<>> /\ ~IsPrefix(flaw.place.path, at.path)
\* The keys expected were sorted by localeCompare, those of the answer by code unit.
SortsAlike(keys) == \A pair \in Misorders : ~(pair \subseteq keys)
Misordered(doc, o, flaw) == \E at \in Selection(doc, o) :
    Composite(at.ref) /\ Reached(at, flaw) /\ ~SortsAlike(SelectedKeys(doc, at))
FlawFails(flaw) ==
    \/ flaw.what = "absent"
    \/ flaw.what = "null" /\ flaw.place.ref.nonNull
    \/ flaw.what = "null item" /\ flaw.place.ref.items[flaw.dim]
    \/ flaw.what = "type" /\ flaw.place.ref.kind \notin {"custom", "unknown"}
    \/ flaw.what = "extra" /\ Composite(flaw.place.ref)
GraphqlFails(doc, o, a) ==
    {t \in {"transport", "media", "untrusted", "map", "errors", "present", "propagation", "shape"} :
        CASE t = "transport" -> a.status >= 500
          [] t = "media" ->
                \/ a.media = "graphql" /\ a.data = "absent" /\ a.status < 400
                \/ a.media = "graphql" /\ a.data = "map" /\ ~Succeeded(a)
                \/ a.media = "json" /\ a.data = "map" /\ a.status # 200
          [] t = "untrusted" -> Untrusted(a)
          [] t = "map" -> ~Untrusted(a) /\ a.data = "absent" /\ ~a.errors
          [] t = "errors" -> ~Untrusted(a) /\ a.errors /\ a.data # "map"
          [] t = "present" ->
                /\ ~Untrusted(a)
                /\ a.data # "map" \/ AtRoot(a.flaw, "absent") \/ (o.returns.nonNull /\ AtRoot(a.flaw, "null"))
          [] t = "propagation" ->
                /\ ~Untrusted(a) /\ o.returns.nonNull
                /\ AtRoot(a.flaw, "null") \/ (a.data = "null" /\ ~a.errors)
          [] t = "shape" ->
                /\ ~Untrusted(a) /\ a.data = "map" /\ ~AtRoot(a.flaw, "absent") /\ ~AtRoot(a.flaw, "null")
                /\ Misordered(doc, o, a.flaw) \/ FlawFails(a.flaw)}

(***************************************************************************)
(* The tests of a SOAP script. An answer is [status, body, version,        *)
(* headers]: the body empty, a fault, a reply with the expected element,   *)
(* another envelope, an envelope that breaks a rule of the binding or of   *)
(* the WSDL, or no envelope; the version of envelope and media type; and   *)
(* whether the WS-Addressing headers are there.                            *)
(***************************************************************************)
SoapAnswers ==
    {[status |-> c, body |-> b, version |-> v, headers |-> h] :
        c \in {200, 202, 204, 400, 500}, b \in {"empty", "fault", "reply", "stranger", "malformed", "text"},
        v \in {"1.1", "1.2"}, h \in BOOLEAN}
OneWay(o) == o.pattern \in {"one-way", "in-only"}
Accepted(a) == a.status = 202 /\ a.body = "empty"
Enveloped(a) == a.body \in {"fault", "reply", "stranger", "malformed"}
Malformed(a) == a.body = "malformed"
Unaddressed(doc, a) == doc.addressed /\ a.body # "fault" /\ ~(Enveloped(a) /\ a.headers)
\* What the script says of the request, which was built for the item's own operation.
OtherAction(o, own) == o.action # own.action /\ (o.version = "1.1" \/ "" \notin {o.action, own.action})
RequestFails(o, own) ==
    \/ o.get # own.get
    \/ ~o.get /\ (o.version # own.version \/ OtherAction(o, own))
OneWayFails(o, own, a) ==
    LET faulted == o.pattern = "one-way" /\ a.status = 500 /\ a.body = "fault"
    IN  {t \in {"empty", "status", "faulted", "request", "undefined"} :
            CASE t = "empty" -> ~faulted /\ a.body # "empty"
              [] t = "status" -> IF o.pattern = "in-only" THEN a.status \notin {202, 204}
                                 ELSE ~faulted /\ ~Succeeded(a)
              [] t = "faulted" -> o.pattern = "one-way" /\ a.status = 500 /\ ~faulted
              [] t = "request" -> RequestFails(o, own)
              \* two tests of SOAP 1.2 name variables this script does not declare
              [] t = "undefined" -> o.version = "1.2" /\ ~o.get}
ReplyFails(doc, o, own, a) ==
    {t \in {"status", "media", "envelope", "namespace", "fault", "conformance", "element", "addressing", "request"} :
        CASE t = "status" -> ~Accepted(a) /\ a.status # 200
          [] t = "media" -> ~Accepted(a) /\ a.version # o.version
          [] t = "envelope" -> ~Accepted(a) /\ ~Enveloped(a)
          [] t = "namespace" -> Enveloped(a) /\ a.version # o.version
          [] t = "fault" -> a.body = "fault" \/ a.status = 500
          [] t = "conformance" -> Malformed(a)
          [] t = "element" -> o.element /\ a.body \notin {"fault", "reply", "malformed"}
          [] t = "addressing" -> Unaddressed(doc, a)
          [] t = "request" -> RequestFails(o, own)}

(***************************************************************************)
(* The probes. An answer is [status, media, data, errors, agrees]: what was *)
(* asked for is given or not, and is that of the document or not.          *)
(***************************************************************************)
ProbeAnswers ==
    {[status |-> c, media |-> m, data |-> d, errors |-> e, agrees |-> s] :
        c \in {200, 400, 415, 500}, m \in {"graphql", "json"}, d \in BOOLEAN, e \in BOOLEAN, s \in BOOLEAN}
ProbeFails(key, a) ==
    {t \in {"probe"} :
        CASE key = MediaProbe -> a.status # 415
          [] key = "malformed json" -> Succeeded(a) \/ a.status >= 500
          [] key = "get mutation" -> Succeeded(a) /\ (a.data \/ ~a.errors)
          [] key = "invalid document" -> a.status >= 500 \/ (Succeeded(a) /\ (a.media = "graphql" \/ a.data \/ ~a.errors))
          [] key = "federation" -> ~a.data
          [] OTHER -> a.data /\ ~a.agrees} \* where introspection is off, no schema is compared

(***************************************************************************)
(* An item is sent and its answer tested. No test looks at what another    *)
(* item left, so one item of the run stands for each of them.              *)
(***************************************************************************)
Answers(doc, item) ==
    IF item.kind = "probe" THEN ProbeAnswers
    ELSE IF doc.protocol = "grpc" THEN GrpcAnswers(item.op)
    ELSE IF doc.protocol = "graphql" THEN GraphqlAnswers(doc, item.op)
    ELSE SoapAnswers
FailedTests(doc, item, script, a) ==
    IF script.kind = "probe" THEN ProbeFails(item.key, a)
    ELSE IF script.kind = "fail closed" THEN {"mapping"}
    ELSE IF doc.protocol = "grpc" THEN GrpcFails(doc, script.op, a)
    ELSE IF doc.protocol = "graphql" THEN GraphqlFails(doc, script.op, a)
    ELSE IF OneWay(script.op) THEN OneWayFails(script.op, item.op, a)
    ELSE ReplyFails(doc, script.op, item.op, a)
SendItem ==
    /\ contract.stage = "done" /\ call = Uncalled
    /\ \E k \in DOMAIN contract.items : \E a \in Answers(contract.doc, contract.items[k]) :
          call' = [at |-> k, answer |-> a,
                   failed |-> FailedTests(contract.doc, contract.items[k], contract.scripts[k], a)]
    /\ UNCHANGED contract

ContractsNext == BuildGraphqlItems \/ BuildFolder \/ InjectItem \/ FinishInstrumentation \/ SendItem
ContractsSpec == ContractsInit /\ [][ContractsNext]_contractVars

(***************************************************************************)
(* What the collection promises.                                           *)
(***************************************************************************)
\* An operation whose key another one repeats further on in the document.
Shadowed(doc, o) == LastNamed(doc, o.key) # o
\* A finished collection has one item for every operation. What is refused has
\* two gRPC methods of one path, a script or a size beyond the limits, or selects
\* without end.
CollectionIsWhole ==
    /\ contract.stage = "done" => \A o \in OperationsIn(contract.doc) :
          \E k \in DOMAIN contract.items : \A j \in DOMAIN contract.items :
             contract.items[j] = OperationItem(o) <=> j = k
    /\ contract.stage = "refused" =>
          \/ contract.doc.protocol = "grpc" /\ \E o, p \in OperationsIn(contract.doc) : o # p /\ o.key = p.key
          \/ contract.doc.protocol # "soap" /\ \E o \in OperationsIn(contract.doc) : o.over
          \/ contract.doc.protocol = "grpc" /\ contract.doc.large
          \/ contract.doc.protocol = "graphql" /\ \E o \in OperationsIn(contract.doc) : Endless(contract.doc, o)

\* An item carries the tests of its operation, or of a later one of its name,
\* and never the fail-closed script; a finished collection has tests on every
\* item and for every operation, none of them beyond the limit.
ScriptsAreOwn ==
    /\ \A k \in DOMAIN contract.scripts :
          LET item == contract.items[k]
              script == contract.scripts[k]
          IN  /\ script.kind = item.kind
              /\ item.kind = "operation" =>
                    /\ script.op \in OperationsIn(contract.doc) /\ script.op.key = item.op.key
                    /\ script.op # item.op =>
                          contract.doc.protocol # "graphql" /\ Shadowed(contract.doc, item.op)
              /\ item.kind = "operation" /\ contract.doc.protocol # "soap" => ~script.op.over
    /\ contract.stage = "done" =>
          /\ Len(contract.scripts) = Len(contract.items)
          /\ \A o \in OperationsIn(contract.doc) : o.key \in CoveredKeys(contract.scripts)

\* A field is in sight where messages lead to it that differ from one another
\* and are not more than the depth.
InSight(doc, m, path) == \E way \in [DOMAIN path -> DOMAIN doc.messages \cup {m, StatusMessage}] :
    /\ way[1] = m
    /\ \A i \in 1..(Len(path) - 1) : Field(path[i], way[i + 1]) \in FieldsOf(doc, way[i])
    /\ \E f \in FieldsOf(doc, way[Len(path)]) : f.name = path[Len(path)] /\ f.type # "unresolved"
    /\ \A i \in DOMAIN path : Declared(doc, way[i]) => i <= ShapeDepth + 1 /\ \A j \in 1..(i - 1) : way[j] # way[i]
ShapesAreInSight ==
    contract.doc.protocol = "grpc" => \A o \in OperationsIn(contract.doc) : \A p \in UNION WrongFields :
        p \in AssertedPaths(contract.doc, o.response) <=> InSight(contract.doc, o.response, p)

GrpcMeets(doc, o, a) ==
    /\ a.code = 0 /\ a.wire
    /\ o.stream \in {"unary", "client"} => Len(a.messages) = 1 /\ a.messages[1].object
    /\ HasShape(doc, o) => \A k \in DOMAIN a.messages :
          a.messages[k].object /\ \A p \in a.messages[k].wrong : p \notin AssertedPaths(doc, o.response)
Legal(flaw) ==
    CASE flaw.what = "nothing" -> TRUE
      [] flaw.what = "null" -> ~flaw.place.ref.nonNull
      [] flaw.what = "null item" -> ~flaw.place.ref.items[flaw.dim]
      [] flaw.what = "type" -> flaw.place.ref.kind \in {"custom", "unknown"}
      [] flaw.what = "extra" -> flaw.place.ref.kind = "union"
      [] OTHER -> FALSE
GraphqlMeets(a) ==
    a.data = "map" /\ Legal(a.flaw) /\ (IF a.media = "json" THEN a.status = 200 ELSE Succeeded(a))
SoapMeets(doc, o, a) ==
    CASE o.pattern = "in-only" -> a.status \in {202, 204} /\ a.body = "empty"
      [] o.pattern = "one-way" -> (Succeeded(a) /\ a.body = "empty") \/ (a.status = 500 /\ a.body = "fault")
      [] OTHER -> \/ Accepted(a)
                  \/ /\ a.status = 200 /\ a.version = o.version
                     /\ a.body \in (IF o.element THEN {"reply"} ELSE {"reply", "stranger"})
                     /\ doc.addressed => a.headers

\* An item passes exactly when the answer met the contract of the operation
\* whose tests it carries: nothing passes because tests were skipped, and a good
\* answer fails for four reasons only: field names that sort differently, an
\* accepted request whose reply has an element or addresses, a one-way script of
\* SOAP 1.2, and a request built for another operation of the name. A probe
\* passes no server that obeyed it.
VerdictsAreRight ==
    call # Uncalled =>
        LET document == contract.doc
            item == contract.items[call.at]
            o == contract.scripts[call.at].op
            answer == call.answer
            passed == call.failed = {}
        IN  CASE item.kind = "probe" ->
                    item.key \in {"get mutation", "malformed json", "invalid document", MediaProbe} =>
                        ~(passed /\ Succeeded(answer) /\ answer.data)
              [] item.kind = "operation" /\ document.protocol = "grpc" -> passed <=> GrpcMeets(document, o, answer)
              [] item.kind = "operation" /\ document.protocol = "graphql" ->
                    passed <=> GraphqlMeets(answer) /\ ~Misordered(document, o, answer.flaw)
              [] item.kind = "operation" /\ document.protocol = "soap" ->
                    passed <=> /\ SoapMeets(document, o, answer) /\ ~RequestFails(o, item.op)
                               /\ OneWay(o) => o.get \/ o.version = "1.1"
                               /\ ~OneWay(o) /\ Accepted(answer) => ~o.element /\ ~document.addressed

ContractsAreSafe == CollectionIsWhole /\ ScriptsAreOwn /\ ShapesAreInSight /\ VerdictsAreRight
==============================================================================
