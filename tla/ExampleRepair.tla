---------------------------- MODULE ExampleRepair ----------------------------
(***************************************************************************)
(* Local collection generation (local-openapi-collection-generation.ts):   *)
(* the conversion and the repair of the examples under the exclusive use   *)
(* of the process-wide schema faker (deterministic-schema-faker.ts), the   *)
(* repair of every request and saved response in a transaction of its own  *)
(* (request-example-repair.ts), and the payload of each role.              *)
(*                                                                         *)
(* A value is a record with its JSON type; a string is its length and what *)
(* it is made of.  A schema is a record with its kind and that kind's      *)
(* keywords, a missing bound is the empty set.                             *)
(***************************************************************************)
EXTENDS Integers, Sequences, FiniteSets, SequencesExt
CONSTANTS Conversions,      \* calls of generateLocalOpenApiRolePayloads in one process
          Workloads,        \* what the converter makes for each: a sequence of targets
          Definitions,      \* named schemas
          Samples,          \* the values the faker can draw
          RepairDepth, RepairExpansion, \* MAX_REPAIR_DEPTH; the array and string limits
          MaxConversionFaults
ASSUME RepairAssumption == RepairDepth \in Nat /\ RepairExpansion \in Nat /\ MaxConversionFaults \in Nat

-----------------------------------------------------------------------------
(* Values and schemas *)

JsUndefined == [t |-> "undefined"]
JsNull == [t |-> "null"]
Number(n) == [t |-> "number", num |-> n]
Text(n, of) == [t |-> "string", len |-> n, of |-> of]
Numeral(n) == [t |-> "string", len |-> 1, of |-> "digits", num |-> n]
JsArray(s) == [t |-> "array", seq |-> s]
JsObject(g) == [t |-> "object", fun |-> g]
LimitExceeded == [t |-> "limit"] \* ExampleRepairLimitError, thrown through every caller

AnySchema == [k |-> "any"]
At(g, n) == IF n \in DOMAIN g THEN g[n] ELSE JsUndefined
InBounds(n, low, high) == (\A l \in low : n >= l) /\ (\A h \in high : n <= h)
Largest(n, S) == CHOOSE m \in S \cup {n} : \A l \in S \cup {n} : l <= m
Smallest(n, S) == CHOOSE m \in S \cup {n} : \A l \in S \cup {n} : l >= m

\* The properties that a request (readOnly) or a response (writeOnly) lacks are
\* neither declared nor required in the packed schema.
RECURSIVE PackSchema(_, _)
PackSchema(s, direction) ==
    LET pack(q) == PackSchema(q, direction) IN
    CASE s.k = "ref" -> [s EXCEPT !.direction = direction]
      [] s.k \in {"enum", "nullable"} -> [s EXCEPT !.of = pack(@)]
      [] s.k \in {"all", "alt"} ->
            [s EXCEPT !.branches = [i \in DOMAIN @ |-> pack(@[i])], !.rest = pack(@)]
      [] s.k = "array" -> [s EXCEPT !.items = pack(@), !.contains = {pack(q) : q \in @}]
      [] s.k = "object" ->
            LET kept == DOMAIN s.props \ s.stripped[direction] IN
            [s EXCEPT !.props = [n \in kept |-> pack(@[n])],
                      !.required = @ \ s.stripped[direction], !.more = pack(@)]
      [] OTHER -> s

\* The compiled validator; it takes undefined for a value where any value does.
RECURSIVE Validates(_, _)
Validates(s, v) ==
    CASE s.k = "any" -> TRUE
      [] s.k = "never" -> FALSE
      [] s.k = "ref" -> Validates(PackSchema(Definitions[s.name], s.direction), v)
      [] s.k = "const" -> v = s.value
      [] s.k = "enum" -> v \in ToSet(s.values) /\ Validates(s.of, v)
      [] s.k = "integer" ->
            /\ v.t = "number" /\ InBounds(v.num, s.min, s.max)
            /\ \A l \in s.above : v.num > l
            /\ \A m \in s.multiple : v.num % m = 0
      [] s.k = "string" -> /\ v.t = "string" /\ InBounds(v.len, s.min, s.max)
                           /\ s.format => v.of = "format"
      [] s.k = "nullable" -> v = JsNull \/ Validates(s.of, v)
      [] s.k = "all" -> Validates(s.rest, v) /\ \A i \in DOMAIN s.branches : Validates(s.branches[i], v)
      [] s.k = "alt" ->
            LET hits == {i \in DOMAIN s.branches : Validates(s.branches[i], v)} IN
            Validates(s.rest, v) /\ hits # {} /\ (s.one => Cardinality(hits) = 1)
      [] s.k = "array" ->
            /\ v.t = "array" /\ InBounds(Len(v.seq), s.min, s.max)
            /\ \A i \in DOMAIN v.seq : Validates(s.items, v.seq[i])
            /\ \A q \in s.contains : Cardinality({i \in DOMAIN v.seq : Validates(q, v.seq[i])}) >= s.atLeast
      [] s.k = "object" ->
            /\ v.t = "object"
            /\ \A n \in s.required : At(v.fun, n) # JsUndefined
            /\ \A n \in DOMAIN v.fun : v.fun[n] # JsUndefined =>
                   Validates(IF n \in DOMAIN s.props THEN s.props[n] ELSE s.more, v.fun[n])

\* JSON.stringify: a hole of an array becomes null, an undefined property goes.
RECURSIVE SerializedForm(_)
SerializedForm(v) ==
    CASE v = JsUndefined -> JsNull
      [] v.t = "array" -> JsArray([i \in DOMAIN v.seq |-> SerializedForm(v.seq[i])])
      [] v.t = "object" -> JsObject([n \in {m \in DOMAIN v.fun : v.fun[m] # JsUndefined} |-> SerializedForm(v.fun[n])])
      [] OTHER -> v
RECURSIVE HasSerializationHoles(_)
HasSerializationHoles(v) ==
    CASE v.t = "array" -> \E i \in DOMAIN v.seq : v.seq[i] = JsUndefined \/ HasSerializationHoles(v.seq[i])
      [] v.t = "object" -> \E n \in DOMAIN v.fun : HasSerializationHoles(v.fun[n])
      [] OTHER -> FALSE

HasAlternativeShape(s) == s.k \in {"nullable", "alt"} \/ (s.k = "enum" /\ s.of.k = "nullable")
\* References are not followed, nor are contains and additional properties.
RECURSIVE ContainsAlternativeShape(_)
ContainsAlternativeShape(s) ==
    \/ HasAlternativeShape(s)
    \/ s.k = "all" /\ \E i \in DOMAIN s.branches : ContainsAlternativeShape(s.branches[i])
    \/ s.k = "all" /\ ContainsAlternativeShape(s.rest)
    \/ s.k = "array" /\ ContainsAlternativeShape(s.items)
    \/ s.k = "object" /\ \E n \in DOMAIN s.props : ContainsAlternativeShape(s.props[n])

\* The value of every property the direction strips goes, except where a
\* recursive definition was met before on the way down.
RECURSIVE PruneDirectional(_, _, _, _)
PruneDirectional(v, s, direction, stack) ==
    LET prune(w, q) == PruneDirectional(w, q, direction, stack) IN
    CASE s.k = "ref" -> IF s.name \in stack THEN v
                        ELSE PruneDirectional(v, Definitions[s.name], direction, stack \cup {s.name})
      [] s.k \in {"all", "alt"} -> FoldLeft(LAMBDA w, q : prune(w, q), prune(v, s.rest), s.branches)
      [] s.k = "array" /\ v.t = "array" -> JsArray([i \in DOMAIN v.seq |-> prune(v.seq[i], s.items)])
      [] s.k = "object" /\ v.t = "object" ->
            JsObject([n \in DOMAIN v.fun \ s.stripped[direction] |->
                         prune(v.fun[n], IF n \in DOMAIN s.props THEN s.props[n] ELSE s.more)])
      [] OTHER -> v

-----------------------------------------------------------------------------
(* SchemaRepairer *)

\* A policy is the valid authored values by path, and whether the whole
\* original is one of them; the faker may fail to draw a valid value.
Preserves(policy, path, v) == policy.all \/ [path |-> path, value |-> v] \in policy.kept

RepairNumber(v, s) ==
    LET current == IF v.t = "number" THEN v.num ELSE 0
        low == IF s.above # {} THEN {l + 1 : l \in s.above} ELSE s.min
    IN  IF s.multiple # {}
        THEN LET m == CHOOSE n \in s.multiple : TRUE
                 first == {-((-l) \div m) : l \in low}
                 last == {h \div m : h \in s.max}
             IN  Number(m * Smallest(Largest((2 * current + m) \div (2 * m), first), last))
        ELSE IF InBounds(current, low, s.max) THEN Number(current)
        ELSE Number(Smallest(IF low # {} THEN CHOOSE l \in low : TRUE ELSE CHOOSE h \in s.max : TRUE, s.max))

RepairString(v, s) ==
    LET given == IF v.t = "string" THEN v ELSE Text(0, "")
        cut == IF given.len > Smallest(given.len, s.max) THEN Text(Smallest(given.len, s.max), given.of) ELSE given
        wanted == Largest(cut.len, s.min)
    IN  IF s.format /\ InBounds(2, s.min, s.max) THEN Text(2, "format")
        ELSE IF wanted = cut.len THEN cut
        ELSE IF wanted > RepairExpansion THEN LimitExceeded
        ELSE Text(wanted, IF cut.len = 0 THEN "x" ELSE cut.of)

OrDrawn(local, s, policy) ==
    LET drawn == IF policy.faker THEN {w \in Samples : Validates(s, w)} ELSE {}
    IN  IF local = LimitExceeded \/ Validates(s, local) \/ drawn = {} THEN local ELSE CHOOSE w \in drawn : TRUE

RECURSIVE Repair(_, _, _, _, _), RepairLocal(_, _, _, _, _, _), FirstBranch(_, _, _, _, _, _, _),
          Contain(_, _, _, _, _, _)

\* A valid value stays; an alternative is chosen anew unless its value is
\* authored; what cannot be repaired in place is drawn.
Repair(v, s, path, policy, depth) ==
    LET canonical == HasAlternativeShape(s) /\ ~Preserves(policy, path, v)
    IN  IF depth > RepairDepth THEN LimitExceeded
        ELSE IF ~ContainsAlternativeShape(s) /\ ~HasSerializationHoles(v) /\ Validates(s, v) THEN v
        ELSE OrDrawn(RepairLocal(v, s, path, policy, depth, canonical), s, policy)

\* The first alternative whose repair satisfies the whole schema.
FirstBranch(i, v, s, path, policy, depth, otherwise) ==
    IF i > Len(s.branches) THEN otherwise
    ELSE LET inner == Repair(v, s.branches[i], path, policy, depth + 1)
             tried == IF inner = LimitExceeded \/ s.rest = AnySchema THEN inner
                      ELSE Repair(inner, s.rest, path, policy, depth + 1)
         IN  IF tried = LimitExceeded \/ Validates(s, tried) THEN tried
             ELSE FirstBranch(i + 1, v, s, path, policy, depth, otherwise)

\* Members are repaired against contains until enough of them match.
Contain(i, w, q, atLeast, policy, state) ==
    IF i > Len(w) \/ Cardinality({j \in DOMAIN w : Validates(q, w[j])}) >= atLeast THEN w
    ELSE Contain(i + 1, IF Validates(q, w[i]) THEN w
                        ELSE [w EXCEPT ![i] = Repair(@, q, state.path, policy, state.depth)],
                 q, atLeast, policy, state)

RepairArray(v, s, path, policy, depth) ==
    LET star == Append(path, "*")
        fix(w, q) == Repair(w, q, star, policy, depth + 1)
        wanted == Largest(IF s.contains = {} THEN 0 ELSE s.atLeast, s.min)
        given == IF v.t = "array" THEN v.seq ELSE <<>>
        cut == SubSeq(given, 1, Smallest(Len(given), s.max))
        filler == IF s.items # AnySchema THEN s.items
                  ELSE IF s.contains # {} THEN CHOOSE q \in s.contains : TRUE ELSE AnySchema
        filled == [i \in 1..Largest(Len(cut), {wanted}) |->
                      LET w == IF i <= Len(cut) THEN cut[i] ELSE fix(JsUndefined, filler)
                      IN  IF s.items = AnySchema \/ w = LimitExceeded THEN w ELSE fix(w, s.items)]
        matched == IF s.contains = {} THEN filled
                   ELSE Contain(1, filled, CHOOSE q \in s.contains : TRUE, s.atLeast, policy,
                                [path |-> star, depth |-> depth + 1])
    IN  IF wanted > RepairExpansion \/ LimitExceeded \in ToSet(matched) THEN LimitExceeded
        ELSE JsArray([i \in DOMAIN matched |-> IF matched[i] = JsUndefined THEN JsNull ELSE matched[i]])

\* A declared property that cannot be repaired goes unless it is required; a
\* required one that is not declared is null; the others pass, are repaired or go.
RepairObject(v, s, path, policy, depth) ==
    LET given == IF v.t = "object" THEN v.fun ELSE <<>>
        declared == {n \in DOMAIN s.props : n \in DOMAIN given \cup s.required}
        others == (DOMAIN given \cup s.required) \ DOMAIN s.props
        value(n) == IF n \in DOMAIN given \/ n \in declared THEN At(given, n) ELSE JsNull
        fixed == [n \in declared \cup others |->
                     IF n \in others /\ s.more = AnySchema THEN value(n)
                     ELSE IF s.more.k = "never" /\ n \in others THEN JsUndefined
                     ELSE Repair(value(n), IF n \in declared THEN s.props[n] ELSE s.more, Append(path, n), policy, depth + 1)]
        kept == {n \in declared : n \in s.required \/ Validates(s.props[n], fixed[n])}
                \cup {n \in others : Validates(s.more, fixed[n])}
    IN  IF \E n \in DOMAIN fixed : fixed[n] = LimitExceeded THEN LimitExceeded
        ELSE JsObject([n \in kept |-> fixed[n]])

RepairLocal(v, s, path, policy, depth, canonical) ==
    LET source == IF canonical THEN JsUndefined ELSE v
        again(w, q) == IF w = LimitExceeded THEN w ELSE Repair(w, q, path, policy, depth + 1)
    IN  CASE s.k = "ref" -> again(v, PackSchema(Definitions[s.name], s.direction))
          [] s.k = "const" -> s.value
          [] s.k = "enum" ->
                LET valid == {i \in DOMAIN s.values : Validates(s, s.values[i])} IN
                s.values[Smallest(IF valid = {} THEN 1 ELSE Len(s.values), valid)]
          [] s.k = "all" ->
                LET folded == FoldLeft(LAMBDA w, q : again(w, q), v, s.branches) IN
                IF s.rest = AnySchema THEN folded ELSE again(folded, s.rest)
          [] s.k = "alt" -> FirstBranch(1, source, s, path, policy, depth,
                                IF s.rest # AnySchema THEN RepairLocal(source, s.rest, path, policy, depth, FALSE)
                                ELSE IF source = JsUndefined THEN JsNull ELSE source)
          [] s.k = "nullable" -> IF source = JsNull THEN JsNull ELSE RepairLocal(source, s.of, path, policy, depth, FALSE)
          [] s.k = "integer" -> RepairNumber(source, s)
          [] s.k = "string" -> RepairString(source, s)
          [] s.k = "array" -> RepairArray(source, s, path, policy, depth)
          [] s.k = "object" -> RepairObject(source, s, path, policy, depth)
          [] OTHER -> IF source = JsUndefined THEN JsNull ELSE source

-----------------------------------------------------------------------------
(* The places of a request and of a saved response.  A place has a source  *)
(* schema, a value (a parameter's, a form field's and a header's is text)  *)
(* and what the document gives as its examples: pairs of a path and a      *)
(* value.                                                                  *)

DirectionOf(place) == IF place.where \in {"reply", "replyHeader"} THEN "response" ELSE "request"
IsText(place) == place.where \in {"parameter", "form", "replyHeader"}
Packed(place) == PackSchema(place.schema, DirectionOf(place))

RECURSIVE CoerceScalar(_, _)
CoerceScalar(v, s) ==
    CASE v.t = "array" /\ s.k = "array" -> JsArray([i \in DOMAIN v.seq |-> CoerceScalar(v.seq[i], s.items)])
      [] v.t = "object" /\ s.k = "object" ->
            JsObject([n \in DOMAIN v.fun |-> IF n \in DOMAIN s.props THEN CoerceScalar(v.fun[n], s.props[n]) ELSE v.fun[n]])
      [] v.t = "string" /\ s.k \in {"nullable", "enum"} -> CoerceScalar(v, s.of)
      [] v.t = "string" /\ v.of = "digits" /\ (s.k = "integer" \/ (s.k = "const" /\ s.value.t = "number")) -> Number(v.num)
      [] OTHER -> v
RECURSIVE ScalarString(_)
ScalarString(v) ==
    CASE v \in {JsNull, JsUndefined} -> Text(0, "")
      [] v.t = "number" -> Numeral(v.num)
      [] v.t = "array" -> JsArray([i \in DOMAIN v.seq |-> ScalarString(v.seq[i])])
      [] v.t = "object" -> JsObject([n \in DOMAIN v.fun |-> ScalarString(v.fun[n])])
      [] OTHER -> v
Read(place) == IF IsText(place) THEN CoerceScalar(place.value, Packed(place)) ELSE place.value

\* The schema an example of a path answers to.
SchemaAt(s, path) == IF path = <<>> THEN s ELSE s.props[path[1]]
ValueAt(v, path) == IF path = <<>> THEN v ELSE IF v.t = "object" THEN At(v.fun, path[1]) ELSE JsUndefined
\* Form fields and response headers are repaired without a policy.
Authored(place) == IF place.where \in {"form", "replyHeader"} THEN {} ELSE place.examples
ValidExample(place, e) == Validates(PackSchema(SchemaAt(place.schema, e.path), DirectionOf(place)), e.value)
SourcePolicy(place, faker) ==
    LET valid == {e \in Authored(place) : ValidExample(place, e)} IN
    [kept |-> valid, faker |-> faker, all |-> \E e \in valid : e.path = <<>> /\ e.value = Read(place)]
\* The document's own invalid example is not repaired: the document is wrong.
UsesInvalidExample(place) ==
    \E e \in Authored(place) : ~ValidExample(place, e) /\ ValueAt(Read(place), e.path) = e.value

Repaired(place, faker) ==
    Repair(IF place.where \in {"form", "replyHeader"} THEN Read(place)
           ELSE PruneDirectional(Read(place), place.schema, DirectionOf(place), {}),
           Packed(place), <<>>, SourcePolicy(place, faker), 1)
Written(place, v) == [place EXCEPT !.value = IF IsText(place) THEN ScalarString(v) ELSE SerializedForm(v)]
\* The check before a value is written; a parameter's is of the value in memory.
Shipped(place, v) == Validates(Packed(place), IF place.where = "parameter" THEN v ELSE SerializedForm(v))

\* repairParameters, repairFormBody, repairRequestBody, repairSavedResponse, for
\* one place: what it becomes, or none when the repair throws.
WithRepaired(place, v) ==
    IF v = LimitExceeded THEN {}
    ELSE IF Shipped(place, v) THEN {Written(place, v)}
    ELSE IF place.where = "replyHeader" THEN {place} ELSE {}
RepairPlace(place, faker) ==
    IF place.templated THEN {place}
    ELSE IF place.value = JsUndefined \/ UsesInvalidExample(place) THEN {} \* not JSON
    ELSE WithRepaired(place, Repaired(place, faker))
RepairPlaces(target, faker) == [i \in DOMAIN target.places |-> RepairPlace(target.places[i], faker)]

\* Mutant: the repair writes into the target itself and not into a copy.
WriteThrough(target, made) ==
    LET upTo == {i \in DOMAIN made : \A j \in 1..i : made[j] # {}} IN
    [ok |-> \A i \in DOMAIN made : made[i] # {},
     target |-> [target EXCEPT !.places = [i \in DOMAIN @ |-> IF i \in upTo THEN CHOOSE p \in made[i] : TRUE ELSE @[i]]]]
RepairInPlace(target, faker) == WriteThrough(target, RepairPlaces(target, faker))
\* A target is replaced by its repaired copy, or stays as it is.
Replace(target, made) ==
    LET ok == \A i \in DOMAIN made : made[i] # {} IN
    [ok |-> ok, target |-> IF ok THEN [target EXCEPT !.places = [i \in DOMAIN @ |-> CHOOSE p \in made[i] : TRUE]]
                           ELSE target]
Transactional(target, faker) == Replace(target, RepairPlaces(target, faker))

-----------------------------------------------------------------------------
(* Conversions of one process *)

VARIABLES conversion, \* each call of generateLocalOpenApiRolePayloads
          fakerLine,  \* the calls whose promise fakerAccess chains, the last is fakerAccess
          fakerRandom \* the faker's process-wide random option
repairVars == <<conversion, fakerLine, fakerRandom>>

ConversionFaults == Cardinality({j \in Conversions : conversion[j].pc \in {"convert failed", "roles failed"}})
FreshConversion(mode, works, made) ==
    [pc |-> "start", mode |-> mode, faker |-> works, input |-> made, targets |-> made,
     at |-> 1, skipped |-> {}, random |-> "default", roles |-> {}]
FakerAtRest == fakerLine = <<>> /\ fakerRandom = "default"
RepairInit ==
    /\ \E mode \in {"strict", "lenient", "off"}, works \in BOOLEAN, made \in Workloads :
           conversion = [j \in Conversions |-> FreshConversion(mode, works, made[j])]
    /\ FakerAtRest

ConvAt(j, pc) == conversion[j].pc = pc
ConvTo(j, pc) == conversion' = [conversion EXCEPT ![j].pc = pc]
Released(j) == conversion[j].pc \in {"convert failed", "strict failed", "roles", "roles failed", "done"}
Inside(j) == conversion[j].pc \in {"convert", "repair", "leave convert failed", "leave strict failed", "leave roles"}

\* The options are valid; the call joins the chain of promises.
EnterFaker(j) ==
    /\ ConvAt(j, "start") /\ ConvTo(j, "wait")
    /\ fakerLine' = Append(fakerLine, j) /\ UNCHANGED fakerRandom
\* await previousAccess, the call just before in the chain.
AcquireFaker(j) ==
    /\ ConvAt(j, "wait")
    /\ \A i \in DOMAIN fakerLine : i + 1 \in DOMAIN fakerLine /\ fakerLine[i + 1] = j => Released(fakerLine[i])
    /\ conversion' = [conversion EXCEPT ![j].pc = "convert", ![j].random = fakerRandom]
    /\ fakerRandom' = "seeded" /\ UNCHANGED fakerLine
\* The converter's callback, with a collection or without.
ConvertOnce(j) ==
    /\ ConvAt(j, "convert") /\ UNCHANGED <<fakerLine, fakerRandom>>
    /\ \/ ConvTo(j, "repair")
       \/ ConversionFaults < MaxConversionFaults /\ ConvTo(j, "leave convert failed")
\* The next target of repairGeneratedCollectionExamples; strict mode stops at a
\* target it cannot repair, lenient mode notes it.
Visited(j, at, made) ==
    IF ~made.ok /\ conversion[j].mode = "strict" THEN ConvTo(j, "leave strict failed")
    ELSE conversion' = [conversion EXCEPT ![j].targets[at] = made.target, ![j].at = @ + 1,
                                          ![j].skipped = IF made.ok THEN @ ELSE @ \cup {at}]
RepairTarget(j) ==
    LET conv == conversion[j]
        visits == IF conv.mode = "off" THEN 0 ELSE Len(conv.targets)
    IN  /\ ConvAt(j, "repair") /\ UNCHANGED <<fakerLine, fakerRandom>>
        /\ IF conv.at > visits THEN ConvTo(j, "leave roles")
           ELSE IF ~conv.targets[conv.at].matched THEN conversion' = [conversion EXCEPT ![j].at = @ + 1]
           ELSE Visited(j, conv.at, Transactional(conv.targets[conv.at], conv.faker))
\* The finally: the random option is put back and the next call let in.
LeaveFaker(j) ==
    /\ \/ ConvAt(j, "leave convert failed") /\ ConvTo(j, "convert failed")
       \/ ConvAt(j, "leave strict failed") /\ ConvTo(j, "strict failed")
       \/ ConvAt(j, "leave roles") /\ ConvTo(j, "roles")
    /\ fakerRandom' = conversion[j].random /\ UNCHANGED fakerLine
\* The role payloads are clones of the one conversion; a helper, the
\* instrumentation or the root content may be refused.
MaterializeRoles(j) ==
    /\ ConvAt(j, "roles") /\ UNCHANGED <<fakerLine, fakerRandom>>
    /\ \/ conversion' = [conversion EXCEPT ![j].pc = "done", ![j].roles = {"baseline", "smoke", "contract"}]
       \/ ConversionFaults < MaxConversionFaults /\ ConvTo(j, "roles failed")

RepairNext == \E j \in Conversions :
    EnterFaker(j) \/ AcquireFaker(j) \/ ConvertOnce(j) \/ RepairTarget(j) \/ LeaveFaker(j) \/ MaterializeRoles(j)
RepairSpec == RepairInit /\ [][RepairNext]_repairVars

-----------------------------------------------------------------------------
(* Properties *)

Repairs(j) == {i \in DOMAIN conversion[j].targets : i < conversion[j].at /\ conversion[j].targets[i].matched}
Places(j, i) == {conversion[j].targets[i].places[n] : n \in DOMAIN conversion[j].targets[i].places}
Skipped(j, i) == i \in conversion[j].skipped

\* One conversion at a time draws from the faker, from its own seed, and the
\* option is as it was when none does.
OneFaker == /\ \A i, j \in Conversions : Inside(i) /\ Inside(j) => i = j
            /\ fakerRandom = IF \E j \in Conversions : Inside(j) THEN "seeded" ELSE "default"
\* A target that was not skipped has no place the document would refuse when
\* it is read back; a skipped one, and every one in mode off or in no
\* operation, is the converter's, whole.
ExamplesHold == \A j \in Conversions :
    /\ \A i \in Repairs(j) : ~Skipped(j, i) => \A p \in Places(j, i) :
          p.templated \/ p.where = "replyHeader" \/ Validates(Packed(p), Read(p))
    /\ \A i \in DOMAIN conversion[j].targets :
          i \notin Repairs(j) \/ Skipped(j, i) => conversion[j].targets[i] = conversion[j].input[i]
\* What is repaired once stays as it is: regenerating from the result, as
\* every run does from the same document, yields it again.
RepairSettles == \A j \in Conversions : \A i \in Repairs(j) :
    ~Skipped(j, i) => Transactional(conversion[j].targets[i], conversion[j].faker) = [ok |-> TRUE, target |-> conversion[j].targets[i]]
\* Local generation ships examples that hold, and repairing settles.
ExamplesAreSafe == OneFaker /\ ExamplesHold /\ RepairSettles

\* A valid example of the document that the converter used stays ("preserves
\* valid examples and defaults").
AuthoredExamplesKept == \A j \in Conversions : \A i \in Repairs(j) : ~Skipped(j, i) =>
    \A n \in DOMAIN conversion[j].input[i].places :
        LET before == conversion[j].input[i].places[n]
            after == conversion[j].targets[i].places[n]
        IN  \A e \in Authored(before) :
                ValidExample(before, e) /\ ValueAt(Read(before), e.path) = e.value
                    => ValueAt(Read(after), e.path) = e.value
=============================================================================
