---------------------------- MODULE ProtocolProofs ----------------------------
(***************************************************************************)
(* Theorems about the collections generated from protocol specifications,  *)
(* for every manifest and number of pages asked for, and every document.   *)
(***************************************************************************)
EXTENDS McpLane, ProtocolContracts, WellFoundedInduction, FiniteSetTheorems, SequenceTheorems, TLAPS
-----------------------------------------------------------------------------
(* Sequences whose elements are of no particular set.                      *)
IsSeq(s) == s \in Seq(ToSet(s))

LEMMA SeqIsSeq ==
    ASSUME NEW S, NEW s \in Seq(S)
    PROVE  IsSeq(s) /\ Len(s) \in Nat /\ DOMAIN s = 1..Len(s)
  <1>1. s \in [1..Len(s) -> S] /\ Len(s) \in Nat /\ DOMAIN s = 1..Len(s)
    BY LenProperties
  <1>2. s \in [1..Len(s) -> ToSet(s)]
    BY <1>1 DEF ToSet
  <1> QED BY <1>1, <1>2 DEF IsSeq

LEMMA IsSeqLen ==
    ASSUME NEW s, IsSeq(s)
    PROVE  Len(s) \in Nat /\ DOMAIN s = 1..Len(s)
  BY SeqIsSeq DEF IsSeq

LEMMA Joined ==
    ASSUME NEW s, NEW t, IsSeq(s), IsSeq(t)
    PROVE  /\ IsSeq(s \o t)
           /\ Len(s \o t) = Len(s) + Len(t)
           /\ \A k \in 1..Len(s) : (s \o t)[k] = s[k]
           /\ \A k \in 1..Len(t) : (s \o t)[Len(s) + k] = t[k]
           /\ \A k \in 1..Len(s \o t) : k > Len(s) => k - Len(s) \in 1..Len(t) /\ (s \o t)[k] = t[k - Len(s)]
  <1> DEFINE S == ToSet(s) \cup ToSet(t)
  <1>1. s \in Seq(S)
    BY SeqMonotonic, Zenon DEF IsSeq
  <1>2. t \in Seq(S)
    BY SeqMonotonic, Zenon DEF IsSeq
  <1>3. /\ s \o t \in Seq(S)
        /\ Len(s \o t) = Len(s) + Len(t)
        /\ \A k \in 1..Len(s) + Len(t) : (s \o t)[k] = IF k <= Len(s) THEN s[k] ELSE t[k - Len(s)]
    BY <1>1, <1>2, ConcatProperties, Zenon
  <1>4. IsSeq(s \o t)
    BY <1>3, SeqIsSeq, Zenon
  <1>5. Len(s) \in Nat /\ Len(t) \in Nat
    BY IsSeqLen
  <1> HIDE DEF S
  <1>6. ASSUME NEW k \in 1..Len(s) PROVE (s \o t)[k] = s[k]
    BY <1>3, <1>5, <1>6
  <1>7. ASSUME NEW k \in 1..Len(t) PROVE (s \o t)[Len(s) + k] = t[k]
    BY <1>3, <1>5, <1>7
  <1>8. ASSUME NEW k \in 1..Len(s \o t), k > Len(s)
        PROVE  k - Len(s) \in 1..Len(t) /\ (s \o t)[k] = t[k - Len(s)]
    BY <1>3, <1>5, <1>8
  <1> QED BY <1>3, <1>4, <1>6, <1>7, <1>8

\* A sequence written as a function.
LEMMA Tabulated ==
    ASSUME NEW s, NEW n \in Nat, NEW S, s \in [1..n -> S]
    PROVE  IsSeq(s) /\ Len(s) = n
  <1>1. s \in Seq(S)
    OBVIOUS
  <1> QED BY <1>1, SeqIsSeq, LenProperties

LEMMA SetToSeqProperties ==
    ASSUME NEW S, IsFiniteSet(S)
    PROVE  /\ SetToSeq(S) \in Seq(S) /\ IsInjective(SetToSeq(S)) /\ IsSeq(SetToSeq(S))
           /\ Len(SetToSeq(S)) = Cardinality(S)
           /\ ToSet(SetToSeq(S)) = S
  <1>1. Cardinality(S) \in Nat /\ \E f : f \in Bijection(1..Cardinality(S), S)
    BY FS_CardinalityType DEF ExistsBijection
  <1>2. PICK f : f \in Bijection(1..Cardinality(S), S)
    BY <1>1
  <1>3. f \in [1..Cardinality(S) -> S] /\ IsInjective(f)
    BY <1>2 DEF Bijection, Injection, IsInjective
  <1>4. SetToSeq(S) \in [1..Cardinality(S) -> S] /\ IsInjective(SetToSeq(S))
    BY <1>3 DEF SetToSeq
  <1>5. SetToSeq(S) \in Seq(S) /\ Len(SetToSeq(S)) = Cardinality(S) /\ IsSeq(SetToSeq(S))
    BY <1>1, <1>4, Tabulated
  <1>6. SetToSeq(S) \in Injection(1..Cardinality(S), S)
    BY <1>4 DEF Injection, IsInjective
  <1>7. IsFiniteSet(1..Cardinality(S)) /\ Cardinality(1..Cardinality(S)) = Cardinality(S)
    BY <1>1, FS_Interval
  <1>8. SetToSeq(S) \in Surjection(1..Cardinality(S), S)
    BY <1>6, <1>7, FS_Injection
  <1>9. ToSet(SetToSeq(S)) = S
    BY <1>8, <1>4 DEF Surjection, ToSet
  <1> QED BY <1>4, <1>5, <1>9
-----------------------------------------------------------------------------
(* The manifest the parser keeps.                                          *)
ParsedManifest(m) ==
    /\ IsSeq(m.servers)
    /\ IsSeq(m.tools) /\ IsSeq(m.resources) /\ IsSeq(m.prompts)
    /\ IsInjective(m.tools) /\ IsInjective(m.resources) /\ IsInjective(m.prompts)
    /\ \A s \in ToSet(m.servers) :
          /\ s.capabilities \subseteq SUBSET {"tools", "resources", "prompts", "subscribe"}
          /\ \A page \in s.pages : IsSeq(page)

LEMMA KeptNamesProperties ==
    ASSUME NEW names, names \in Seq(ToSet(names))
    PROVE  IsSeq(KeptNames(names)) /\ IsInjective(KeptNames(names)) /\ ToSet(KeptNames(names)) = ToSet(names)
  <1>1. Len(names) \in Nat /\ DOMAIN names = 1..Len(names) /\ names \in [1..Len(names) -> ToSet(names)]
    BY LenProperties
  <1>2. names \in Surjection(1..Len(names), ToSet(names))
    BY <1>1 DEF Surjection, ToSet
  <1>3. IsFiniteSet(1..Len(names))
    BY <1>1, FS_Interval
  <1>4. IsFiniteSet(ToSet(names))
    BY <1>2, <1>3, FS_Surjection
  <1> QED BY <1>4, SetToSeqProperties DEF KeptNames

\* Every manifest is kept in that form.
LEMMA ParsedProperties ==
    ASSUME NEW raw \in Manifests
    PROVE  ParsedManifest(Parsed(raw))
  <1> DEFINE m == Parsed(raw)
  <1>1. /\ raw.servers \in Seq(ToSet(raw.servers)) /\ raw.tools \in Seq(ToSet(raw.tools))
        /\ raw.resources \in Seq(ToSet(raw.resources)) /\ raw.prompts \in Seq(ToSet(raw.prompts))
        /\ \A s \in ToSet(raw.servers) :
              /\ s.capabilities \subseteq SUBSET {"tools", "resources", "prompts", "subscribe"}
              /\ \A page \in s.pages : page \in Seq(ToSet(page))
    BY LaneAssumption
  <1>2. /\ m.servers = raw.servers /\ m.tools = KeptNames(raw.tools)
        /\ m.resources = KeptNames(raw.resources) /\ m.prompts = KeptNames(raw.prompts)
    BY DEF Parsed
  <1>3. IsSeq(m.servers)
    BY <1>1, <1>2 DEF IsSeq
  <1>4. /\ IsSeq(m.tools) /\ IsSeq(m.resources) /\ IsSeq(m.prompts)
        /\ IsInjective(m.tools) /\ IsInjective(m.resources) /\ IsInjective(m.prompts)
    BY <1>1, <1>2, KeptNamesProperties
  <1> HIDE DEF m
  <1>5. ParsedManifest(m)
    BY <1>1, <1>2, <1>3, <1>4 DEF ParsedManifest, IsSeq
  <1> QED BY <1>5 DEF m
-----------------------------------------------------------------------------
(* The places of a lap: where the items stand that the run depends on.     *)
Singular == {"initialize", "initialized", "tools/list", "page", "replay"}
Ordinary(s) == \A k \in 1..Len(s) : s[k].kind \notin Singular
Quiet(s) == \A k \in 1..Len(s) : s[k].kind # "subscribe"
Paired(s) == \A k \in 1..Len(s) :
    s[k].kind = "subscribe" => k + 1 \in 1..Len(s) /\ s[k + 1].kind = "unsubscribe"
Placed(s) ==
    /\ Len(s) >= 11 + PageProbes
    /\ s[1].kind = "initialize" /\ s[2].kind = "initialized" /\ s[7].kind = "tools/list"
    /\ \A k \in (3..6) \cup (8..10) : s[k].kind \notin Singular
    /\ \A k \in 11..10 + PageProbes : s[k].kind = "page"
    /\ s[11 + PageProbes].kind = "replay"
    /\ \A k \in 1..Len(s) : k > 11 + PageProbes => s[k].kind \notin Singular

LEMMA QuietIsPaired ==
    ASSUME NEW s, Quiet(s)
    PROVE  Paired(s)
  BY DEF Quiet, Paired

LEMMA PairedJoined ==
    ASSUME NEW s, NEW t, IsSeq(s), IsSeq(t), Paired(s), Paired(t)
    PROVE  Paired(s \o t)
  <1> DEFINE st == s \o t
  <1>1. Len(s) \in Nat /\ Len(t) \in Nat
    BY IsSeqLen
  <1>2. /\ Len(st) = Len(s) + Len(t)
        /\ \A k \in 1..Len(s) : st[k] = s[k]
        /\ \A k \in 1..Len(t) : st[Len(s) + k] = t[k]
        /\ \A k \in 1..Len(st) : k > Len(s) => k - Len(s) \in 1..Len(t) /\ st[k] = t[k - Len(s)]
    BY Joined
  <1> HIDE DEF st
  <1>3. ASSUME NEW k \in 1..Len(st), st[k].kind = "subscribe"
        PROVE  k + 1 \in 1..Len(st) /\ st[k + 1].kind = "unsubscribe"
    <2>1. CASE k <= Len(s)
      <3>1. k \in 1..Len(s) /\ st[k] = s[k]
        BY <1>1, <1>2, <1>3, <2>1
      <3>2. k + 1 \in 1..Len(s) /\ s[k + 1].kind = "unsubscribe"
        BY <3>1, <1>3 DEF Paired
      <3> QED BY <1>1, <1>2, <3>2
    <2>2. CASE k > Len(s)
      <3>1. k - Len(s) \in 1..Len(t) /\ st[k] = t[k - Len(s)]
        BY <1>2, <1>3, <2>2
      <3>2. (k - Len(s)) + 1 \in 1..Len(t) /\ t[(k - Len(s)) + 1].kind = "unsubscribe"
        BY <3>1, <1>3 DEF Paired
      <3>3. Len(s) + ((k - Len(s)) + 1) = k + 1
        BY <1>1, <1>3
      <3> QED BY <1>1, <1>2, <3>2, <3>3
    <2> QED BY <1>1, <1>3, <2>1, <2>2
  <1>4. Paired(st)
    BY <1>3 DEF Paired
  <1> QED BY <1>4 DEF st

LEMMA PlacedJoined ==
    ASSUME NEW s, NEW t, IsSeq(s), IsSeq(t), Placed(s), Ordinary(t)
    PROVE  Placed(s \o t)
  <1> DEFINE st == s \o t
  <1>1. Len(s) \in Nat /\ Len(t) \in Nat /\ PageProbes \in Nat \ {0}
    BY IsSeqLen, LaneAssumption
  <1>2. /\ Len(st) = Len(s) + Len(t)
        /\ \A k \in 1..Len(s) : st[k] = s[k]
        /\ \A k \in 1..Len(st) : k > Len(s) => k - Len(s) \in 1..Len(t) /\ st[k] = t[k - Len(s)]
    BY Joined
  <1> HIDE DEF st
  <1>3. Len(s) >= 11 + PageProbes /\ Len(st) >= 11 + PageProbes
    BY <1>1, <1>2 DEF Placed
  <1>4. \A k \in 1..11 + PageProbes : st[k] = s[k]
    BY <1>1, <1>2, <1>3
  <1>5. ASSUME NEW k \in 1..Len(st), k > 11 + PageProbes
        PROVE  st[k].kind \notin Singular
    <2>1. CASE k <= Len(s)
      <3>1. \A j \in 1..Len(s) : j > 11 + PageProbes => s[j].kind \notin Singular
        BY DEF Placed
      <3>2. k \in 1..Len(s) /\ st[k] = s[k]
        BY <1>1, <1>2, <1>5, <2>1
      <3> QED BY <3>1, <3>2, <1>5
    <2>2. CASE k > Len(s)
      BY <1>2, <1>5, <2>2 DEF Ordinary
    <2> QED BY <1>1, <1>5, <2>1, <2>2
  <1>6. st[1].kind = "initialize" /\ st[2].kind = "initialized" /\ st[7].kind = "tools/list"
    <2>1. s[1].kind = "initialize" /\ s[2].kind = "initialized" /\ s[7].kind = "tools/list"
      BY DEF Placed
    <2>2. 1 \in 1..11 + PageProbes /\ 2 \in 1..11 + PageProbes /\ 7 \in 1..11 + PageProbes
      BY <1>1
    <2> QED BY <2>1, <2>2, <1>4
  <1>7. ASSUME NEW k \in (3..6) \cup (8..10)
        PROVE  st[k].kind \notin Singular
    <2>1. s[k].kind \notin Singular
      BY DEF Placed
    <2>2. k \in 1..11 + PageProbes
      BY <1>1
    <2> QED BY <2>1, <2>2, <1>4
  <1>8. ASSUME NEW k \in 11..10 + PageProbes
        PROVE  st[k].kind = "page"
    <2>1. s[k].kind = "page"
      BY DEF Placed
    <2>2. k \in 1..11 + PageProbes
      BY <1>1
    <2> QED BY <2>1, <2>2, <1>4
  <1>10. st[11 + PageProbes].kind = "replay"
    <2>1. s[11 + PageProbes].kind = "replay"
      BY DEF Placed
    <2> QED BY <2>1, <1>1, <1>4
  <1>9. Placed(st)
    BY <1>3, <1>5, <1>6, <1>7, <1>8, <1>10 DEF Placed
  <1> QED BY <1>9 DEF st

LEMMA EachProperties ==
    ASSUME NEW kind, NEW names, IsSeq(names)
    PROVE  /\ IsSeq(Each(kind, names)) /\ Len(Each(kind, names)) = Len(names)
           /\ \A k \in 1..Len(names) : Each(kind, names)[k] = Item(kind, names[k])
  <1>1. Len(names) \in Nat /\ DOMAIN names = 1..Len(names)
    BY IsSeqLen
  <1>2. Each(kind, names) = [k \in 1..Len(names) |-> Item(kind, names[k])]
    BY <1>1 DEF Each
  <1>3. Each(kind, names) \in [1..Len(names) -> {Item(kind, names[k]) : k \in 1..Len(names)}]
    BY <1>2
  <1> QED BY <1>1, <1>2, <1>3, Tabulated

\* One element more.
LEMMA JoinedOne ==
    ASSUME NEW s, NEW t, IsSeq(s), IsSeq(t), 1 \in 1..Len(t)
    PROVE  /\ IsSeq(s \o t) /\ Len(s \o t) = Len(s) + Len(t)
           /\ \A k \in 1..Len(s) : (s \o t)[k] = s[k]
           /\ (s \o t)[Len(s) + 1] = t[1]
  BY Joined

LEMMA CursorProbesProperties ==
    /\ IsSeq(CursorProbes) /\ Len(CursorProbes) = PageProbes + 1
    /\ \A k \in 1..PageProbes : CursorProbes[k] = Item("page", k)
    /\ CursorProbes[PageProbes + 1] = Item("replay", "")
  <1> DEFINE pages == [k \in 1..PageProbes |-> Item("page", k)]
             final == <<Item("replay", "")>>
  <1>1. PageProbes \in Nat
    BY LaneAssumption
  <1>2. IsSeq(pages) /\ Len(pages) = PageProbes
    <2>1. pages \in [1..PageProbes -> {Item("page", k) : k \in 1..PageProbes}]
      OBVIOUS
    <2> QED BY <2>1, <1>1, Tabulated
  <1>3. IsSeq(final) /\ Len(final) = 1
    <2>1. final \in Seq({Item("replay", "")})
      OBVIOUS
    <2> QED BY <2>1, SeqIsSeq
  <1>4. (\A k \in 1..PageProbes : pages[k] = Item("page", k)) /\ final[1] = Item("replay", "")
    OBVIOUS
  <1>5. CursorProbes = pages \o final
    BY DEF CursorProbes
  <1> HIDE DEF pages, final
  <1>6. 1 \in 1..Len(final)
    BY <1>3
  <1>7. /\ IsSeq(pages \o final) /\ Len(pages \o final) = Len(pages) + Len(final)
        /\ \A k \in 1..Len(pages) : (pages \o final)[k] = pages[k]
        /\ (pages \o final)[Len(pages) + 1] = final[1]
    BY <1>2, <1>3, <1>6, JoinedOne
  <1> QED BY <1>2, <1>3, <1>4, <1>5, <1>7

\* A piece of a collection: its length, the kinds of its items, and that it
\* holds no item twice.
Distinct(s) == \A i, j \in 1..Len(s) : s[i].kind = s[j].kind /\ s[i].name = s[j].name => i = j
Piece(s, n, kinds) ==
    /\ IsSeq(s) /\ n \in Nat /\ Len(s) = n
    /\ \A k \in 1..Len(s) : s[k].kind \in kinds
    /\ Distinct(s)

LEMMA PieceJoined ==
    ASSUME NEW s, NEW t, NEW n, NEW l, NEW K, NEW J, Piece(s, n, K), Piece(t, l, J), K \cap J = {}
    PROVE  Piece(s \o t, n + l, K \cup J)
  <1> DEFINE st == s \o t
  <1>1. IsSeq(s) /\ IsSeq(t) /\ n \in Nat /\ l \in Nat /\ Len(s) = n /\ Len(t) = l
    BY DEF Piece
  <1>2. /\ IsSeq(st) /\ Len(st) = Len(s) + Len(t)
        /\ \A k \in 1..Len(s) : st[k] = s[k]
        /\ \A k \in 1..Len(st) : k > Len(s) => k - Len(s) \in 1..Len(t) /\ st[k] = t[k - Len(s)]
    BY <1>1, Joined
  <1> HIDE DEF st
  <1>3. n + l \in Nat /\ Len(st) = n + l
    BY <1>1, <1>2
  <1>4. \A k \in 1..Len(s) : s[k].kind \in K
    BY DEF Piece
  <1>5. \A k \in 1..Len(t) : t[k].kind \in J
    BY DEF Piece
  <1>6. ASSUME NEW k \in 1..Len(st)
        PROVE  \/ k \in 1..Len(s) /\ st[k] = s[k] /\ st[k].kind \in K
               \/ k > Len(s) /\ k - Len(s) \in 1..Len(t) /\ st[k] = t[k - Len(s)] /\ st[k].kind \in J
    <2>1. CASE k <= Len(s)
      <3>1. k \in 1..Len(s)
        BY <1>1, <1>6, <2>1
      <3> QED BY <3>1, <1>2, <1>4
    <2>2. CASE k > Len(s)
      BY <1>2, <1>5, <2>2
    <2> QED BY <1>1, <1>6, <2>1, <2>2
  <1>7. \A k \in 1..Len(st) : st[k].kind \in K \cup J
    BY <1>6
  <1>8. ASSUME NEW i \in 1..Len(st), NEW j \in 1..Len(st), st[i].kind = st[j].kind, st[i].name = st[j].name
        PROVE  i = j
    <2>1. CASE i \in 1..Len(s) /\ j \in 1..Len(s)
      <3>1. Distinct(s)
        BY DEF Piece
      <3>2. st[i] = s[i] /\ st[j] = s[j]
        BY <1>2, <2>1
      <3> QED BY <1>8, <2>1, <3>1, <3>2 DEF Distinct
    <2>2. CASE i - Len(s) \in 1..Len(t) /\ st[i] = t[i - Len(s)] /\ j - Len(s) \in 1..Len(t) /\ st[j] = t[j - Len(s)]
      <3>1. Distinct(t)
        BY DEF Piece
      <3>2. i - Len(s) = j - Len(s)
        BY <1>8, <2>2, <3>1 DEF Distinct
      <3> QED BY <1>1, <1>3, <3>2
    <2>3. CASE st[i].kind \in K /\ st[j].kind \in J
      BY <1>8, <2>3
    <2>4. CASE st[i].kind \in J /\ st[j].kind \in K
      BY <1>8, <2>4
    <2> QED BY <1>6, <2>1, <2>2, <2>3, <2>4
  <1>9. Piece(st, n + l, K \cup J)
    BY <1>2, <1>3, <1>7, <1>8 DEF Piece, Distinct
  <1> QED BY <1>9 DEF st

LEMMA PieceWhen ==
    ASSUME NEW c, NEW s, NEW n, NEW K, Piece(s, n, K)
    PROVE  Piece(When(c, s), IF c THEN n ELSE 0, K)
  <1>1. CASE c
    BY <1>1 DEF When
  <1>2. CASE ~c
    <2>1. When(c, s) = <<>>
      BY <1>2 DEF When
    <2>2. <<>> \in Seq({}) /\ Len(<<>>) = 0
      BY EmptySeq
    <2>3. IsSeq(<<>>)
      BY <2>2, SeqIsSeq
    <2> QED BY <1>2, <2>1, <2>2, <2>3 DEF Piece, Distinct
  <1> QED BY <1>1, <1>2

LEMMA PieceEach ==
    ASSUME NEW kind, NEW names, IsSeq(names), IsInjective(names)
    PROVE  Piece(Each(kind, names), Len(names), {kind})
  <1> DEFINE e == Each(kind, names)
  <1>1. IsSeq(e) /\ Len(e) = Len(names) /\ \A k \in 1..Len(names) : e[k] = Item(kind, names[k])
    BY EachProperties
  <1>2. Len(names) \in Nat /\ DOMAIN names = 1..Len(names)
    BY IsSeqLen
  <1>3. \A k \in 1..Len(names) : Item(kind, names[k]).kind = kind /\ Item(kind, names[k]).name = names[k]
    BY DEF Item
  <1> HIDE DEF e
  <1>4. \A k \in 1..Len(e) : e[k].kind = kind /\ e[k].name = names[k]
    BY <1>1, <1>3
  <1>5. Distinct(e)
    BY <1>1, <1>2, <1>4 DEF Distinct, IsInjective
  <1>6. Piece(e, Len(names), {kind})
    BY <1>1, <1>2, <1>4, <1>5 DEF Piece
  <1> QED BY <1>6 DEF e

\* The pieces that are written out.
LEMMA OpeningPiece ==
    Piece(Opening, 10, {"initialize", "initialized", "listen", "notification", "client response", "ping", "tools/list", "resources/list", "prompts/list", "no session"})
  <1> DEFINE s == Opening
  <1>1. s \in Seq({Item("initialize", ""), Item("initialized", ""), Item("listen", ""), Item("notification", ""), Item("client response", ""), Item("ping", ""), Item("tools/list", ""), Item("resources/list", ""), Item("prompts/list", ""), Item("no session", "")}) /\ Len(s) = 10
    BY DEF Opening
  <1>2. IsSeq(s)
    BY <1>1, SeqIsSeq
  <1>3. /\ s[1].kind = "initialize" /\ s[1].name = ""
        /\ s[2].kind = "initialized" /\ s[2].name = ""
        /\ s[3].kind = "listen" /\ s[3].name = ""
        /\ s[4].kind = "notification" /\ s[4].name = ""
        /\ s[5].kind = "client response" /\ s[5].name = ""
        /\ s[6].kind = "ping" /\ s[6].name = ""
        /\ s[7].kind = "tools/list" /\ s[7].name = ""
        /\ s[8].kind = "resources/list" /\ s[8].name = ""
        /\ s[9].kind = "prompts/list" /\ s[9].name = ""
        /\ s[10].kind = "no session" /\ s[10].name = ""
    BY DEF Item, Opening
  <1> HIDE DEF s
  <1>4. \A k \in 1..Len(s) : k \in {1, 2, 3, 4, 5, 6, 7, 8, 9, 10}
    <2>1. Len(s) = 10
      BY <1>1
    <2>2. \A k \in 1..10 : k \in {1, 2, 3, 4, 5, 6, 7, 8, 9, 10}
      OBVIOUS
    <2> QED BY <2>1, <2>2
  <1>a. /\ s[1].kind = "initialize"
        /\ s[2].kind = "initialized"
        /\ s[3].kind = "listen"
        /\ s[4].kind = "notification"
        /\ s[5].kind = "client response"
        /\ s[6].kind = "ping"
        /\ s[7].kind = "tools/list"
        /\ s[8].kind = "resources/list"
        /\ s[9].kind = "prompts/list"
        /\ s[10].kind = "no session"
    BY <1>3
  <1>b1. \A x \in 1..Len(s) : s[x].kind = "initialize" => x = 1
    BY <1>a, <1>4
  <1>b2. \A x \in 1..Len(s) : s[x].kind = "initialized" => x = 2
    BY <1>a, <1>4
  <1>b3. \A x \in 1..Len(s) : s[x].kind = "listen" => x = 3
    BY <1>a, <1>4
  <1>b4. \A x \in 1..Len(s) : s[x].kind = "notification" => x = 4
    BY <1>a, <1>4
  <1>b5. \A x \in 1..Len(s) : s[x].kind = "client response" => x = 5
    BY <1>a, <1>4
  <1>b6. \A x \in 1..Len(s) : s[x].kind = "ping" => x = 6
    BY <1>a, <1>4
  <1>b7. \A x \in 1..Len(s) : s[x].kind = "tools/list" => x = 7
    BY <1>a, <1>4
  <1>b8. \A x \in 1..Len(s) : s[x].kind = "resources/list" => x = 8
    BY <1>a, <1>4
  <1>b9. \A x \in 1..Len(s) : s[x].kind = "prompts/list" => x = 9
    BY <1>a, <1>4
  <1>b10. \A x \in 1..Len(s) : s[x].kind = "no session" => x = 10
    BY <1>a, <1>4
  <1>5. Distinct(s)
    <2>1. ASSUME NEW x \in 1..Len(s), NEW y \in 1..Len(s), s[x].kind = s[y].kind
          PROVE  x = y
      <3>1. CASE x = 1
        BY <1>a, <1>b1, <2>1, <3>1
      <3>2. CASE x = 2
        BY <1>a, <1>b2, <2>1, <3>2
      <3>3. CASE x = 3
        BY <1>a, <1>b3, <2>1, <3>3
      <3>4. CASE x = 4
        BY <1>a, <1>b4, <2>1, <3>4
      <3>5. CASE x = 5
        BY <1>a, <1>b5, <2>1, <3>5
      <3>6. CASE x = 6
        BY <1>a, <1>b6, <2>1, <3>6
      <3>7. CASE x = 7
        BY <1>a, <1>b7, <2>1, <3>7
      <3>8. CASE x = 8
        BY <1>a, <1>b8, <2>1, <3>8
      <3>9. CASE x = 9
        BY <1>a, <1>b9, <2>1, <3>9
      <3>10. CASE x = 10
        BY <1>a, <1>b10, <2>1, <3>10
      <3> QED BY <1>4, <3>1, <3>2, <3>3, <3>4, <3>5, <3>6, <3>7, <3>8, <3>9, <3>10
    <2> QED BY <2>1 DEF Distinct
  <1>6. \A k \in 1..Len(s) : s[k].kind \in {"initialize", "initialized", "listen", "notification", "client response", "ping", "tools/list", "resources/list", "prompts/list", "no session"}
    BY <1>3, <1>4
  <1>7. Piece(s, 10, {"initialize", "initialized", "listen", "notification", "client response", "ping", "tools/list", "resources/list", "prompts/list", "no session"})
    BY <1>1, <1>2, <1>5, <1>6 DEF Piece
  <1> QED BY <1>7 DEF s

LEMMA TemplatesPiece ==
    Piece(<<Item("templates", "")>>, 1, {"templates"})
  <1> DEFINE s == <<Item("templates", "")>>
  <1>1. s \in Seq({Item("templates", "")}) /\ Len(s) = 1
    OBVIOUS
  <1>2. IsSeq(s)
    BY <1>1, SeqIsSeq
  <1>3. /\ s[1].kind = "templates" /\ s[1].name = ""
    BY DEF Item
  <1> HIDE DEF s
  <1>4. \A k \in 1..Len(s) : k \in {1}
    <2>1. Len(s) = 1
      BY <1>1
    <2>2. \A k \in 1..1 : k \in {1}
      OBVIOUS
    <2> QED BY <2>1, <2>2
  <1>5. Distinct(s)
    BY <1>3, <1>4 DEF Distinct
  <1>6. \A k \in 1..Len(s) : s[k].kind \in {"templates"}
    BY <1>3, <1>4
  <1>7. Piece(s, 1, {"templates"})
    BY <1>1, <1>2, <1>5, <1>6 DEF Piece
  <1> QED BY <1>7 DEF s

LEMMA SubscriptionPiece ==
    Piece(<<Item("subscribe", ""), Item("unsubscribe", "")>>, 2, {"subscribe", "unsubscribe"})
  <1> DEFINE s == <<Item("subscribe", ""), Item("unsubscribe", "")>>
  <1>1. s \in Seq({Item("subscribe", ""), Item("unsubscribe", "")}) /\ Len(s) = 2
    OBVIOUS
  <1>2. IsSeq(s)
    BY <1>1, SeqIsSeq
  <1>3. /\ s[1].kind = "subscribe" /\ s[1].name = ""
        /\ s[2].kind = "unsubscribe" /\ s[2].name = ""
    BY DEF Item
  <1> HIDE DEF s
  <1>4. \A k \in 1..Len(s) : k \in {1, 2}
    <2>1. Len(s) = 2
      BY <1>1
    <2>2. \A k \in 1..2 : k \in {1, 2}
      OBVIOUS
    <2> QED BY <2>1, <2>2
  <1>5. Distinct(s)
    BY <1>3, <1>4 DEF Distinct
  <1>6. \A k \in 1..Len(s) : s[k].kind \in {"subscribe", "unsubscribe"}
    BY <1>3, <1>4
  <1>7. Piece(s, 2, {"subscribe", "unsubscribe"})
    BY <1>1, <1>2, <1>5, <1>6 DEF Piece
  <1> QED BY <1>7 DEF s

LEMMA ProgressPiece ==
    Piece(<<Item("progress", 1), Item("progress", 2), Item("cancelled", "")>>, 3, {"progress", "cancelled"})
  <1> DEFINE s == <<Item("progress", 1), Item("progress", 2), Item("cancelled", "")>>
  <1>1. s \in Seq({Item("progress", 1), Item("progress", 2), Item("cancelled", "")}) /\ Len(s) = 3
    OBVIOUS
  <1>2. IsSeq(s)
    BY <1>1, SeqIsSeq
  <1>3. /\ s[1].kind = "progress" /\ s[1].name = 1
        /\ s[2].kind = "progress" /\ s[2].name = 2
        /\ s[3].kind = "cancelled" /\ s[3].name = ""
    BY DEF Item
  <1> HIDE DEF s
  <1>4. \A k \in 1..Len(s) : k \in {1, 2, 3}
    <2>1. Len(s) = 3
      BY <1>1
    <2>2. \A k \in 1..3 : k \in {1, 2, 3}
      OBVIOUS
    <2> QED BY <2>1, <2>2
  <1>5. Distinct(s)
    BY <1>3, <1>4 DEF Distinct
  <1>6. \A k \in 1..Len(s) : s[k].kind \in {"progress", "cancelled"}
    BY <1>3, <1>4
  <1>7. Piece(s, 3, {"progress", "cancelled"})
    BY <1>1, <1>2, <1>5, <1>6 DEF Piece
  <1> QED BY <1>7 DEF s

LEMMA UnauthenticatedPiece ==
    Piece(<<Item("unauthenticated", ""), Item("bogus bearer", "")>>, 2, {"unauthenticated", "bogus bearer"})
  <1> DEFINE s == <<Item("unauthenticated", ""), Item("bogus bearer", "")>>
  <1>1. s \in Seq({Item("unauthenticated", ""), Item("bogus bearer", "")}) /\ Len(s) = 2
    OBVIOUS
  <1>2. IsSeq(s)
    BY <1>1, SeqIsSeq
  <1>3. /\ s[1].kind = "unauthenticated" /\ s[1].name = ""
        /\ s[2].kind = "bogus bearer" /\ s[2].name = ""
    BY DEF Item
  <1> HIDE DEF s
  <1>4. \A k \in 1..Len(s) : k \in {1, 2}
    <2>1. Len(s) = 2
      BY <1>1
    <2>2. \A k \in 1..2 : k \in {1, 2}
      OBVIOUS
    <2> QED BY <2>1, <2>2
  <1>5. Distinct(s)
    BY <1>3, <1>4 DEF Distinct
  <1>6. \A k \in 1..Len(s) : s[k].kind \in {"unauthenticated", "bogus bearer"}
    BY <1>3, <1>4
  <1>7. Piece(s, 2, {"unauthenticated", "bogus bearer"})
    BY <1>1, <1>2, <1>5, <1>6 DEF Piece
  <1> QED BY <1>7 DEF s

LEMMA MetadataPiece ==
    Piece(<<Item("resource metadata", "")>>, 1, {"resource metadata"})
  <1> DEFINE s == <<Item("resource metadata", "")>>
  <1>1. s \in Seq({Item("resource metadata", "")}) /\ Len(s) = 1
    OBVIOUS
  <1>2. IsSeq(s)
    BY <1>1, SeqIsSeq
  <1>3. /\ s[1].kind = "resource metadata" /\ s[1].name = ""
    BY DEF Item
  <1> HIDE DEF s
  <1>4. \A k \in 1..Len(s) : k \in {1}
    <2>1. Len(s) = 1
      BY <1>1
    <2>2. \A k \in 1..1 : k \in {1}
      OBVIOUS
    <2> QED BY <2>1, <2>2
  <1>5. Distinct(s)
    BY <1>3, <1>4 DEF Distinct
  <1>6. \A k \in 1..Len(s) : s[k].kind \in {"resource metadata"}
    BY <1>3, <1>4
  <1>7. Piece(s, 1, {"resource metadata"})
    BY <1>1, <1>2, <1>5, <1>6 DEF Piece
  <1> QED BY <1>7 DEF s

LEMMA ClosingPiece ==
    Piece(Closing, 4, {"bad version", "invalid cursor", "terminate", "old session"})
  <1> DEFINE s == Closing
  <1>1. s \in Seq({Item("bad version", ""), Item("invalid cursor", ""), Item("terminate", ""), Item("old session", "")}) /\ Len(s) = 4
    BY DEF Closing
  <1>2. IsSeq(s)
    BY <1>1, SeqIsSeq
  <1>3. /\ s[1].kind = "bad version" /\ s[1].name = ""
        /\ s[2].kind = "invalid cursor" /\ s[2].name = ""
        /\ s[3].kind = "terminate" /\ s[3].name = ""
        /\ s[4].kind = "old session" /\ s[4].name = ""
    BY DEF Item, Closing
  <1> HIDE DEF s
  <1>4. \A k \in 1..Len(s) : k \in {1, 2, 3, 4}
    <2>1. Len(s) = 4
      BY <1>1
    <2>2. \A k \in 1..4 : k \in {1, 2, 3, 4}
      OBVIOUS
    <2> QED BY <2>1, <2>2
  <1>5. Distinct(s)
    BY <1>3, <1>4 DEF Distinct
  <1>6. \A k \in 1..Len(s) : s[k].kind \in {"bad version", "invalid cursor", "terminate", "old session"}
    BY <1>3, <1>4
  <1>7. Piece(s, 4, {"bad version", "invalid cursor", "terminate", "old session"})
    BY <1>1, <1>2, <1>5, <1>6 DEF Piece
  <1> QED BY <1>7 DEF s

LEMMA CursorProbesPiece ==
    Piece(CursorProbes, PageProbes + 1, {"page", "replay"})
  <1>1. PageProbes \in Nat
    BY LaneAssumption
  <1>2. IsSeq(CursorProbes)
    BY CursorProbesProperties
  <1>3. Len(CursorProbes) = PageProbes + 1
    BY CursorProbesProperties
  <1>4. \A k \in 1..PageProbes : CursorProbes[k] = Item("page", k)
    BY CursorProbesProperties
  <1>5. CursorProbes[PageProbes + 1] = Item("replay", "")
    BY CursorProbesProperties
  <1>6. \A k : Item("page", k).kind = "page" /\ Item("page", k).name = k /\ Item("replay", "").kind = "replay"
    BY DEF Item
  <1>7. ASSUME NEW k \in 1..PageProbes + 1
        PROVE  \/ k \in 1..PageProbes /\ CursorProbes[k].kind = "page" /\ CursorProbes[k].name = k
               \/ k = PageProbes + 1 /\ CursorProbes[k].kind = "replay"
    <2>1. k \in 1..PageProbes \/ k = PageProbes + 1
      BY <1>1
    <2>2. CASE k \in 1..PageProbes
      BY <1>4, <1>6, <2>2, Zenon
    <2>3. CASE k = PageProbes + 1
      BY <1>5, <1>6, <2>3, Zenon
    <2> QED BY <2>1, <2>2, <2>3
  <1>8. Distinct(CursorProbes)
    <2>1. \A i, j \in 1..PageProbes + 1 :
             CursorProbes[i].kind = CursorProbes[j].kind /\ CursorProbes[i].name = CursorProbes[j].name => i = j
      BY <1>7
    <2> QED BY <2>1, <1>3 DEF Distinct
  <1>9. \A k \in 1..Len(CursorProbes) : CursorProbes[k].kind \in {"page", "replay"}
    BY <1>3, <1>7
  <1>10. PageProbes + 1 \in Nat
    BY <1>1
  <1> QED BY <1>2, <1>3, <1>8, <1>9, <1>10 DEF Piece

LEMMA PiecePaired ==
    ASSUME NEW s, NEW n, NEW K, Piece(s, n, K), "subscribe" \notin K
    PROVE  Paired(s)
  BY QuietIsPaired DEF Piece, Quiet

LEMMA PieceOrdinary ==
    ASSUME NEW s, NEW n, NEW K, Piece(s, n, K), K \cap Singular = {}
    PROVE  Ordinary(s)
  BY DEF Piece, Ordinary

CallKinds == {"tools/call", "resources/read", "prompts/get", "templates"}
LEMMA ServerCallsPiece ==
    ASSUME NEW m, ParsedManifest(m)
    PROVE  Piece(ServerCalls(m), Len(m.tools) + Len(m.resources) + Len(m.prompts) + 1, CallKinds)
  <1>1. /\ Piece(Each("tools/call", m.tools), Len(m.tools), {"tools/call"})
        /\ Piece(Each("resources/read", m.resources), Len(m.resources), {"resources/read"})
        /\ Piece(Each("prompts/get", m.prompts), Len(m.prompts), {"prompts/get"})
    BY PieceEach DEF ParsedManifest
  <1>2. Piece(Each("tools/call", m.tools) \o Each("resources/read", m.resources),
              Len(m.tools) + Len(m.resources), {"tools/call"} \cup {"resources/read"})
    BY <1>1, PieceJoined
  <1>3. Piece(Each("tools/call", m.tools) \o Each("resources/read", m.resources) \o Each("prompts/get", m.prompts),
              Len(m.tools) + Len(m.resources) + Len(m.prompts),
              {"tools/call"} \cup {"resources/read"} \cup {"prompts/get"})
    BY <1>1, <1>2, PieceJoined
  <1>4. Piece(ServerCalls(m), Len(m.tools) + Len(m.resources) + Len(m.prompts) + 1,
              {"tools/call"} \cup {"resources/read"} \cup {"prompts/get"} \cup {"templates"})
    BY <1>3, TemplatesPiece, PieceJoined DEF ServerCalls
  <1>5. {"tools/call"} \cup {"resources/read"} \cup {"prompts/get"} \cup {"templates"} = CallKinds
    BY DEF CallKinds
  <1> QED BY <1>4, <1>5

ProbeKinds == {"subscribe", "unsubscribe", "progress", "cancelled"}
LEMMA ProbesPiece ==
    ASSUME NEW m
    PROVE  /\ Piece(Probes(m), (IF m.resources # <<>> THEN 2 ELSE 0) + (IF m.tools # <<>> THEN 3 ELSE 0), ProbeKinds)
           /\ Paired(Probes(m))
  <1> DEFINE subs == <<Item("subscribe", ""), Item("unsubscribe", "")>>
             progress == <<Item("progress", 1), Item("progress", 2), Item("cancelled", "")>>
             S == When(m.resources # <<>>, subs)
             P == When(m.tools # <<>>, progress)
  <1>1. Piece(S, IF m.resources # <<>> THEN 2 ELSE 0, {"subscribe", "unsubscribe"})
    BY SubscriptionPiece, PieceWhen
  <1>2. Piece(P, IF m.tools # <<>> THEN 3 ELSE 0, {"progress", "cancelled"})
    <2>1. Piece(progress, 3, {"progress", "cancelled"})
      BY ProgressPiece
    <2> QED BY <2>1, PieceWhen
  <1>3. Probes(m) = S \o P
    BY DEF Probes
  <1>4. Paired(subs)
    <2>1. Len(subs) = 2 /\ subs[1].kind = "subscribe" /\ subs[2].kind = "unsubscribe"
      BY DEF Item
    <2> HIDE DEF subs
    <2>2. \A k \in 1..2 : subs[k].kind = "subscribe" => k + 1 \in 1..2 /\ subs[k + 1].kind = "unsubscribe"
      <3>1. \A k \in 1..2 : k = 1 \/ k = 2
        OBVIOUS
      <3> QED BY <2>1, <3>1
    <2> QED BY <2>1, <2>2 DEF Paired
  <1>5. Paired(S)
    <2>1. CASE m.resources # <<>>
      BY <1>4, <2>1 DEF When
    <2>2. CASE m.resources = <<>>
      <3>1. Len(S) = 0
        BY <1>1, <2>2 DEF Piece
      <3> HIDE DEF S
      <3>2. \A k \in 1..Len(S) : FALSE
        BY <3>1
      <3> QED BY <3>2 DEF Paired
    <2> QED BY <2>1, <2>2
  <1> HIDE DEF S, P
  <1>6. Paired(P)
    BY <1>2, PiecePaired
  <1>7. Piece(S \o P, (IF m.resources # <<>> THEN 2 ELSE 0) + (IF m.tools # <<>> THEN 3 ELSE 0),
              {"subscribe", "unsubscribe"} \cup {"progress", "cancelled"})
    BY <1>1, <1>2, PieceJoined
  <1>8. {"subscribe", "unsubscribe"} \cup {"progress", "cancelled"} = ProbeKinds
    BY DEF ProbeKinds
  <1>9. Paired(S \o P)
    BY <1>1, <1>2, <1>5, <1>6, PairedJoined DEF Piece
  <1> QED BY <1>3, <1>7, <1>8, <1>9

AuthorizationKinds == {"unauthenticated", "bogus bearer", "resource metadata"}
LEMMA AuthorizationPiece ==
    ASSUME NEW s
    PROVE  Piece(AuthorizationProbes(s), IF s.auth THEN (IF s.prm THEN 3 ELSE 2) ELSE 0, AuthorizationKinds)
  <1> DEFINE prm == <<Item("resource metadata", "")>>
             two == <<Item("unauthenticated", ""), Item("bogus bearer", "")>>
             n == IF s.prm THEN 1 ELSE 0
  <1>1. Piece(When(s.prm, prm), n, {"resource metadata"})
    <2>1. Piece(prm, 1, {"resource metadata"})
      BY MetadataPiece
    <2> QED BY <2>1, PieceWhen
  <1>2. Piece(two, 2, {"unauthenticated", "bogus bearer"})
    BY UnauthenticatedPiece
  <1>3. Piece(two \o When(s.prm, prm), 2 + n, {"unauthenticated", "bogus bearer"} \cup {"resource metadata"})
    BY <1>1, <1>2, PieceJoined
  <1>4. Piece(AuthorizationProbes(s), IF s.auth THEN 2 + n ELSE 0,
              {"unauthenticated", "bogus bearer"} \cup {"resource metadata"})
    BY <1>3, PieceWhen DEF AuthorizationProbes
  <1>5. {"unauthenticated", "bogus bearer"} \cup {"resource metadata"} = AuthorizationKinds
    BY DEF AuthorizationKinds
  <1>6. (IF s.auth THEN 2 + n ELSE 0) = (IF s.auth THEN (IF s.prm THEN 3 ELSE 2) ELSE 0)
    OBVIOUS
  <1> QED BY <1>4, <1>5, <1>6

OpeningKinds == {"initialize", "initialized", "listen", "notification", "client response", "ping",
                 "tools/list", "resources/list", "prompts/list", "no session"}
ClosingKinds == {"bad version", "invalid cursor", "terminate", "old session"}
LapKinds == OpeningKinds \cup {"page", "replay"} \cup CallKinds \cup ProbeKinds \cup AuthorizationKinds \cup ClosingKinds

LEMMA OpeningPlaced == Placed(Opening \o CursorProbes)
  <1> DEFINE oc == Opening \o CursorProbes
  <1>1. PageProbes \in Nat \ {0}
    BY LaneAssumption
  <1>2. IsSeq(Opening) /\ IsSeq(CursorProbes)
    BY OpeningPiece, CursorProbesPiece DEF Piece
  <1>3. Len(Opening) = 10
    BY OpeningPiece DEF Piece
  <1>4. Len(CursorProbes) = PageProbes + 1
    BY CursorProbesProperties
  <1>5. /\ Len(oc) = Len(Opening) + Len(CursorProbes)
        /\ \A k \in 1..Len(Opening) : oc[k] = Opening[k]
        /\ \A k \in 1..Len(CursorProbes) : oc[Len(Opening) + k] = CursorProbes[k]
    BY <1>2, Joined
  <1> HIDE DEF oc
  <1>6. Len(oc) = 11 + PageProbes
    BY <1>1, <1>3, <1>4, <1>5
  <1>7. \A k \in 1..10 : oc[k] = Opening[k]
    BY <1>3, <1>5
  <1>8. \A k \in 1..PageProbes + 1 : oc[10 + k] = CursorProbes[k]
    BY <1>3, <1>4, <1>5
  <1>9. /\ Opening[1].kind = "initialize" /\ Opening[2].kind = "initialized" /\ Opening[3].kind = "listen"
        /\ Opening[4].kind = "notification" /\ Opening[5].kind = "client response" /\ Opening[6].kind = "ping"
        /\ Opening[7].kind = "tools/list" /\ Opening[8].kind = "resources/list"
        /\ Opening[9].kind = "prompts/list" /\ Opening[10].kind = "no session"
    BY DEF Opening, Item
  <1>10. ASSUME NEW k \in (3..6) \cup (8..10)
         PROVE  oc[k].kind \notin Singular
    <2>1. k \in {3, 4, 5, 6, 8, 9, 10} /\ k \in 1..10
      OBVIOUS
    <2>2. Opening[k].kind \notin Singular
      BY <1>9, <2>1 DEF Singular
    <2> QED BY <1>7, <2>1, <2>2
  <1>11. oc[1].kind = "initialize" /\ oc[2].kind = "initialized" /\ oc[7].kind = "tools/list"
    <2>1. 1 \in 1..10 /\ 2 \in 1..10 /\ 7 \in 1..10
      OBVIOUS
    <2> QED BY <1>7, <1>9, <2>1
  <1>12. \A k : Item("page", k).kind = "page" /\ Item("replay", "").kind = "replay"
    BY DEF Item
  <1>13. ASSUME NEW k \in 11..10 + PageProbes
         PROVE  oc[k].kind = "page"
    <2>1. k - 10 \in 1..PageProbes /\ k - 10 \in 1..PageProbes + 1 /\ 10 + (k - 10) = k
      BY <1>1
    <2>2. CursorProbes[k - 10] = Item("page", k - 10)
      BY <2>1, CursorProbesProperties
    <2>3. oc[k] = CursorProbes[k - 10]
      BY <1>8, <2>1
    <2> QED BY <1>12, <2>2, <2>3
  <1>14. oc[11 + PageProbes].kind = "replay"
    <2>1. PageProbes + 1 \in 1..PageProbes + 1 /\ 10 + (PageProbes + 1) = 11 + PageProbes
      BY <1>1
    <2>2. oc[11 + PageProbes] = CursorProbes[PageProbes + 1]
      BY <1>8, <2>1
    <2>3. CursorProbes[PageProbes + 1] = Item("replay", "")
      BY CursorProbesProperties
    <2> QED BY <1>12, <2>2, <2>3
  <1>15. Len(oc) >= 11 + PageProbes /\ \A k \in 1..Len(oc) : ~(k > 11 + PageProbes)
    BY <1>1, <1>6
  <1>16. Placed(oc)
    BY <1>10, <1>11, <1>13, <1>14, <1>15 DEF Placed
  <1> QED BY <1>16 DEF oc

\* The items of a server with a URL: as many as the index calls for, none
\* twice, the handshake first, then the list, the pages, the replay, and no
\* subscription that is not given up at once.
LEMMA LapProperties ==
    ASSUME NEW m, NEW s, ParsedManifest(m), s.http
    PROVE  /\ Piece(RuntimeItems(m, s), ExpectedRuntimeItemCount(m, s), LapKinds)
           /\ Placed(RuntimeItems(m, s))
           /\ Paired(RuntimeItems(m, s))
  <1> DEFINE o == Opening
             oc == o \o CursorProbes
             ocs == oc \o ServerCalls(m)
             ocsp == ocs \o Probes(m)
             ocspa == ocsp \o AuthorizationProbes(s)
             all == ocspa \o Closing
             T == Len(m.tools)
             R == Len(m.resources)
             P == Len(m.prompts)
             np == (IF m.resources # <<>> THEN 2 ELSE 0) + (IF m.tools # <<>> THEN 3 ELSE 0)
             na == IF s.auth THEN (IF s.prm THEN 3 ELSE 2) ELSE 0
  <1>1. RuntimeItems(m, s) = all
    BY DEF RuntimeItems, When
  <1>2. /\ Piece(o, 10, OpeningKinds)
        /\ Piece(CursorProbes, PageProbes + 1, {"page", "replay"})
        /\ Piece(ServerCalls(m), T + R + P + 1, CallKinds)
        /\ Piece(Probes(m), np, ProbeKinds)
        /\ Piece(AuthorizationProbes(s), na, AuthorizationKinds)
        /\ Piece(Closing, 4, ClosingKinds)
    BY OpeningPiece, CursorProbesPiece, ServerCallsPiece, ProbesPiece, AuthorizationPiece, ClosingPiece
       DEF OpeningKinds, ClosingKinds
  <1> HIDE DEF o, T, R, P, np, na
  <1>3. Piece(oc, 10 + (PageProbes + 1), OpeningKinds \cup {"page", "replay"})
    <2>1. OpeningKinds \cap {"page", "replay"} = {}
      BY DEF OpeningKinds
    <2> QED BY <1>2, <2>1, PieceJoined
  <1>4. Piece(ocs, 10 + (PageProbes + 1) + (T + R + P + 1), OpeningKinds \cup {"page", "replay"} \cup CallKinds)
    <2>1. (OpeningKinds \cup {"page", "replay"}) \cap CallKinds = {}
      BY DEF OpeningKinds, CallKinds
    <2> HIDE DEF oc
    <2> QED BY <1>2, <1>3, <2>1, PieceJoined
  <1>5. Piece(ocsp, 10 + (PageProbes + 1) + (T + R + P + 1) + np,
              OpeningKinds \cup {"page", "replay"} \cup CallKinds \cup ProbeKinds)
    <2>1. (OpeningKinds \cup {"page", "replay"} \cup CallKinds) \cap ProbeKinds = {}
      BY DEF OpeningKinds, CallKinds, ProbeKinds
    <2> HIDE DEF ocs
    <2> QED BY <1>2, <1>4, <2>1, PieceJoined
  <1>6. Piece(ocspa, 10 + (PageProbes + 1) + (T + R + P + 1) + np + na,
              OpeningKinds \cup {"page", "replay"} \cup CallKinds \cup ProbeKinds \cup AuthorizationKinds)
    <2>1. (OpeningKinds \cup {"page", "replay"} \cup CallKinds \cup ProbeKinds) \cap AuthorizationKinds = {}
      BY DEF OpeningKinds, CallKinds, ProbeKinds, AuthorizationKinds
    <2> HIDE DEF ocsp
    <2> QED BY <1>2, <1>5, <2>1, PieceJoined
  <1>7. Piece(all, 10 + (PageProbes + 1) + (T + R + P + 1) + np + na + 4, LapKinds)
    <2>1. (OpeningKinds \cup {"page", "replay"} \cup CallKinds \cup ProbeKinds \cup AuthorizationKinds) \cap ClosingKinds = {}
      BY DEF OpeningKinds, CallKinds, ProbeKinds, AuthorizationKinds, ClosingKinds
    <2> HIDE DEF ocspa
    <2> QED BY <1>2, <1>6, <2>1, PieceJoined DEF LapKinds
  <1>8. ExpectedRuntimeItemCount(m, s) = 10 + (PageProbes + 1) + (T + R + P + 1) + np + na + 4
    <2>1. T \in Nat /\ R \in Nat /\ P \in Nat /\ PageProbes \in Nat
      BY IsSeqLen, LaneAssumption DEF ParsedManifest, T, R, P
    <2>2. ExpectedRuntimeItemCount(m, s) = 16 + PageProbes + T + R + P + (IF m.tools # <<>> THEN 3 ELSE 0)
             + (IF m.resources # <<>> THEN 2 ELSE 0) + na
      BY DEF ExpectedRuntimeItemCount, T, R, P, na
    <2> DEFINE n3 == IF m.tools # <<>> THEN 3 ELSE 0
               n2 == IF m.resources # <<>> THEN 2 ELSE 0
    <2>3. na \in Nat /\ n2 \in Nat /\ n3 \in Nat
      BY DEF na
    <2>4. np = n2 + n3
      BY DEF np
    <2> HIDE DEF n2, n3
    <2>5. ExpectedRuntimeItemCount(m, s) = 16 + PageProbes + T + R + P + n3 + n2 + na
      BY <2>2 DEF n2, n3
    <2> QED BY <2>1, <2>3, <2>4, <2>5
  <1>9. IsSeq(o) /\ IsSeq(oc) /\ IsSeq(ocs) /\ IsSeq(ocsp) /\ IsSeq(ocspa)
    BY <1>2, <1>3, <1>4, <1>5, <1>6 DEF Piece
  <1>10. /\ IsSeq(CursorProbes) /\ IsSeq(ServerCalls(m)) /\ IsSeq(Probes(m))
         /\ IsSeq(AuthorizationProbes(s)) /\ IsSeq(Closing)
    BY <1>2 DEF Piece
  <1>11. /\ Paired(o) /\ Paired(CursorProbes) /\ Paired(ServerCalls(m)) /\ Paired(Probes(m))
         /\ Paired(AuthorizationProbes(s)) /\ Paired(Closing)
    <2>1. /\ "subscribe" \notin OpeningKinds /\ "subscribe" \notin {"page", "replay"} /\ "subscribe" \notin CallKinds
          /\ "subscribe" \notin AuthorizationKinds /\ "subscribe" \notin ClosingKinds
      BY DEF OpeningKinds, CallKinds, AuthorizationKinds, ClosingKinds
    <2> QED BY <1>2, <2>1, PiecePaired, ProbesPiece
  <1>12. /\ Ordinary(ServerCalls(m)) /\ Ordinary(Probes(m)) /\ Ordinary(AuthorizationProbes(s)) /\ Ordinary(Closing)
    <2>1. /\ CallKinds \cap Singular = {} /\ ProbeKinds \cap Singular = {}
          /\ AuthorizationKinds \cap Singular = {} /\ ClosingKinds \cap Singular = {}
      BY DEF CallKinds, ProbeKinds, AuthorizationKinds, ClosingKinds, Singular
    <2> QED BY <1>2, <2>1, PieceOrdinary
  <1>13. Placed(oc)
    BY OpeningPlaced DEF o
  <1>14. Paired(oc)
    BY <1>9, <1>10, <1>11, PairedJoined
  <1>15. Placed(ocs) /\ Paired(ocs)
    <2> HIDE DEF oc
    <2> QED BY <1>9, <1>10, <1>11, <1>12, <1>13, <1>14, PlacedJoined, PairedJoined
  <1>16. Placed(ocsp) /\ Paired(ocsp)
    <2> HIDE DEF ocs
    <2> QED BY <1>9, <1>10, <1>11, <1>12, <1>15, PlacedJoined, PairedJoined
  <1>17. Placed(ocspa) /\ Paired(ocspa)
    <2> HIDE DEF ocsp
    <2> QED BY <1>9, <1>10, <1>11, <1>12, <1>16, PlacedJoined, PairedJoined
  <1>18. Placed(all) /\ Paired(all)
    <2> HIDE DEF ocspa
    <2> QED BY <1>9, <1>10, <1>11, <1>12, <1>17, PlacedJoined, PairedJoined
  <1> QED BY <1>1, <1>7, <1>8, <1>18
-----------------------------------------------------------------------------
(* The gate.                                                               *)
LEMMA PieceNamed ==
    ASSUME NEW e, NEW kind, NEW names, IsSeq(names), IsInjective(names), IsSeq(e), Len(e) = Len(names),
           \A k \in 1..Len(names) : e[k].kind = kind /\ e[k].name = names[k]
    PROVE  Piece(e, Len(names), {kind})
  <1>1. Len(names) \in Nat /\ DOMAIN names = 1..Len(names)
    BY IsSeqLen
  <1>2. Distinct(e)
    BY <1>1 DEF Distinct, IsInjective
  <1> QED BY <1>1, <1>2 DEF Piece

\* Ids of messages: of a set, and none of two messages.
Numbered(s, ids) ==
    /\ \A k \in 1..Len(s) : s[k].id = Idless \/ s[k].id \in ids
    /\ \A i, j \in 1..Len(s) : s[i].id = s[j].id /\ s[i].id # Idless => i = j

LEMMA NumberedJoined ==
    ASSUME NEW s, NEW t, NEW I, NEW J, IsSeq(s), IsSeq(t), Numbered(s, I), Numbered(t, J), I \cap J = {}
    PROVE  Numbered(s \o t, I \cup J)
  <1> DEFINE st == s \o t
  <1>1. Len(s) \in Nat /\ Len(t) \in Nat
    BY IsSeqLen
  <1>2. /\ Len(st) = Len(s) + Len(t)
        /\ \A k \in 1..Len(s) : st[k] = s[k]
        /\ \A k \in 1..Len(st) : k > Len(s) => k - Len(s) \in 1..Len(t) /\ st[k] = t[k - Len(s)]
    BY Joined
  <1> HIDE DEF st
  <1>3. (\A k \in 1..Len(s) : s[k].id = Idless \/ s[k].id \in I) /\ (\A k \in 1..Len(t) : t[k].id = Idless \/ t[k].id \in J)
    BY DEF Numbered
  <1>4. ASSUME NEW k \in 1..Len(st)
        PROVE  \/ k \in 1..Len(s) /\ st[k] = s[k] /\ (st[k].id = Idless \/ st[k].id \in I)
               \/ k - Len(s) \in 1..Len(t) /\ st[k] = t[k - Len(s)] /\ (st[k].id = Idless \/ st[k].id \in J)
    <2>1. CASE k <= Len(s)
      <3>1. k \in 1..Len(s)
        BY <1>1, <1>4, <2>1
      <3> QED BY <3>1, <1>2, <1>3
    <2>2. CASE k > Len(s)
      BY <1>2, <1>3, <2>2
    <2> QED BY <1>1, <1>4, <2>1, <2>2
  <1>5. \A k \in 1..Len(st) : st[k].id = Idless \/ st[k].id \in I \cup J
    BY <1>4
  <1>6. ASSUME NEW i \in 1..Len(st), NEW j \in 1..Len(st), st[i].id = st[j].id, st[i].id # Idless
        PROVE  i = j
    <2>1. CASE i \in 1..Len(s) /\ st[i] = s[i] /\ j \in 1..Len(s) /\ st[j] = s[j]
      BY <1>6, <2>1 DEF Numbered
    <2>2. CASE i - Len(s) \in 1..Len(t) /\ st[i] = t[i - Len(s)] /\ j - Len(s) \in 1..Len(t) /\ st[j] = t[j - Len(s)]
      <3>1. i - Len(s) = j - Len(s)
        BY <1>6, <2>2 DEF Numbered
      <3>2. Len(st) \in Nat
        BY <1>1, <1>2
      <3> QED BY <1>1, <3>1, <3>2
    <2>3. CASE st[i].id \in I /\ st[j].id \in J
      BY <1>6, <2>3
    <2>4. CASE st[i].id \in J /\ st[j].id \in I
      BY <1>6, <2>4
    <2> QED BY <1>4, <1>6, <2>1, <2>2, <2>3, <2>4
  <1>7. Numbered(st, I \cup J)
    BY <1>5, <1>6 DEF Numbered
  <1> QED BY <1>7 DEF st

\* As many different items as items.
LEMMA PieceCovers ==
    ASSUME NEW s, NEW n, NEW K, Piece(s, n, K)
    PROVE  Covers(s, n)
  <1> DEFINE keys == {<<s[k].kind, s[k].name>> : k \in DOMAIN s}
             f == [k \in 1..n |-> <<s[k].kind, s[k].name>>]
  <1>1. n \in Nat /\ Len(s) = n /\ Distinct(s) /\ DOMAIN s = 1..n
    BY IsSeqLen DEF Piece
  <1>2. f \in Surjection(1..n, keys)
    BY <1>1 DEF Surjection
  <1>3. f \in Injection(1..n, keys)
    BY <1>1, <1>2 DEF Injection, Surjection, IsInjective, Distinct
  <1>4. f \in Bijection(1..n, keys)
    BY <1>2, <1>3 DEF Bijection
  <1>5. IsFiniteSet(1..n) /\ Cardinality(1..n) = n
    BY <1>1, FS_Interval
  <1>6. Cardinality(keys) = n
    BY <1>4, <1>5, FS_Bijection DEF ExistsBijection
  <1> QED BY <1>1, <1>6 DEF Covers

FixedTemplates ==
    <<Template("initialize", "", <<"number", 1>>), Template("initialized", "", Idless),
      Template("tools/list", "", <<"number", 2>>), Template("resources/list", "", <<"number", 8>>),
      Template("prompts/list", "", <<"number", 9>>)>>
ToolTemplates(m) == [k \in DOMAIN m.tools |-> Template("tools/call", m.tools[k], <<"number", 2 + k>>)]
NamedTemplates(kind, tag, names) == [k \in DOMAIN names |-> Template(kind, names[k], <<tag, names[k]>>)]
NamedIds(tag, names) == {<<tag, n>> : n \in ToSet(names)}
ResourceTemplates(m) == NamedTemplates("resources/read", "read", m.resources)
PromptTemplates(m) == NamedTemplates("prompts/get", "prompt", m.prompts)
FixedKinds == {"initialize", "initialized", "tools/list", "resources/list", "prompts/list"}
FixedIds == {<<"number", n>> : n \in {1, 2, 8, 9}}
ToolIds == {<<"number", n>> : n \in 3..7}
ResourceIds(m) == NamedIds("read", m.resources)
PromptIds(m) == NamedIds("prompt", m.prompts)

LEMMA FixedTemplatesProperties ==
    Piece(FixedTemplates, 5, FixedKinds) /\ Numbered(FixedTemplates, FixedIds)
  <1> DEFINE s == FixedTemplates
  <1>1. s \in Seq({Template("initialize", "", <<"number", 1>>), Template("initialized", "", Idless),
      Template("tools/list", "", <<"number", 2>>), Template("resources/list", "", <<"number", 8>>),
      Template("prompts/list", "", <<"number", 9>>)}) /\ Len(s) = 5
    BY DEF FixedTemplates
  <1>2. IsSeq(s)
    BY <1>1, SeqIsSeq
  <1>3. Len(s) = 5
    BY <1>1
  <1>4. /\ s[1].kind = "initialize" /\ s[2].kind = "initialized" /\ s[3].kind = "tools/list"
        /\ s[4].kind = "resources/list" /\ s[5].kind = "prompts/list"
    BY DEF FixedTemplates, Template
  <1>5. /\ s[1].id = <<"number", 1>> /\ s[2].id = Idless /\ s[3].id = <<"number", 2>>
        /\ s[4].id = <<"number", 8>> /\ s[5].id = <<"number", 9>>
    BY DEF FixedTemplates, Template
  <1> HIDE DEF s
  <1>6. \A k \in 1..5 : k = 1 \/ k = 2 \/ k = 3 \/ k = 4 \/ k = 5
    OBVIOUS
  <1>7. \A i, j \in 1..5 : s[i].kind = s[j].kind => i = j
    BY <1>4, <1>6
  <1>8. \A k \in 1..5 : s[k].kind \in FixedKinds
    BY <1>4, <1>6 DEF FixedKinds
  <1>9. Piece(s, 5, FixedKinds)
    BY <1>2, <1>3, <1>7, <1>8 DEF Piece, Distinct
  <1>10. \A k \in 1..5 : s[k].id = Idless \/ s[k].id \in FixedIds
    BY <1>5, <1>6 DEF FixedIds
  <1>11. \A i, j \in 1..5 : s[i].id = s[j].id /\ s[i].id # Idless => i = j
    BY <1>5, <1>6
  <1>12. Numbered(s, FixedIds)
    BY <1>3, <1>10, <1>11 DEF Numbered
  <1> QED BY <1>9, <1>12 DEF s

LEMMA ToolTemplatesProperties ==
    ASSUME NEW m, ParsedManifest(m)
    PROVE  /\ Piece(ToolTemplates(m), Len(m.tools), {"tools/call"})
           /\ Len(m.tools) <= 5 => Numbered(ToolTemplates(m), ToolIds)
  <1> DEFINE s == ToolTemplates(m)
             n == Len(m.tools)
  <1>1. IsSeq(m.tools) /\ IsInjective(m.tools) /\ n \in Nat /\ DOMAIN m.tools = 1..n
    BY IsSeqLen DEF ParsedManifest
  <1>2. s = [k \in 1..n |-> Template("tools/call", m.tools[k], <<"number", 2 + k>>)]
    BY <1>1 DEF ToolTemplates
  <1>3. s \in [1..n -> {Template("tools/call", m.tools[k], <<"number", 2 + k>>) : k \in 1..n}]
    BY <1>2
  <1>4. IsSeq(s) /\ Len(s) = n
    BY <1>1, <1>3, Tabulated
  <1>5. \A k \in 1..n : s[k].kind = "tools/call" /\ s[k].name = m.tools[k] /\ s[k].id = <<"number", 2 + k>>
    BY <1>2 DEF Template
  <1>6. Piece(s, n, {"tools/call"})
    BY <1>1, <1>4, <1>5, PieceNamed
  <1>7. ASSUME n <= 5
        PROVE  Numbered(s, ToolIds)
    <2> HIDE DEF s, n
    <2>1. \A k \in 1..n : 2 + k \in 3..7
      BY <1>1, <1>7
    <2>2. \A k \in 1..n : s[k].id \in ToolIds
      BY <1>5, <2>1 DEF ToolIds
    <2>3. \A i, j \in 1..n : s[i].id = s[j].id => i = j
      BY <1>1, <1>5
    <2> QED BY <1>4, <2>2, <2>3 DEF Numbered
  <1> QED BY <1>6, <1>7

LEMMA NamedTemplatesProperties ==
    ASSUME NEW names, NEW kind, NEW tag, IsSeq(names), IsInjective(names)
    PROVE  /\ Piece(NamedTemplates(kind, tag, names), Len(names), {kind})
           /\ Numbered(NamedTemplates(kind, tag, names), NamedIds(tag, names))
  <1> DEFINE l == Len(names)
             s == NamedTemplates(kind, tag, names)
  <1>0. s = [k \in DOMAIN names |-> Template(kind, names[k], <<tag, names[k]>>)]
    BY DEF NamedTemplates
  <1> HIDE DEF s
  <1>1. l \in Nat /\ DOMAIN names = 1..l
    BY IsSeqLen
  <1>2. s \in [1..l -> {Template(kind, names[k], <<tag, names[k]>>) : k \in 1..l}]
    BY <1>0, <1>1
  <1>3. IsSeq(s) /\ Len(s) = l
    BY <1>1, <1>2, Tabulated
  <1>4. \A k \in 1..l : s[k].kind = kind /\ s[k].name = names[k] /\ s[k].id = <<tag, names[k]>>
    BY <1>0, <1>1 DEF Template
  <1>5. Piece(s, l, {kind})
    BY <1>3, <1>4, PieceNamed
  <1>6. \A k \in 1..l : s[k].id \in {<<tag, n>> : n \in ToSet(names)}
    BY <1>1, <1>4 DEF ToSet
  <1>7. \A i, j \in 1..l : s[i].id = s[j].id => i = j
    BY <1>1, <1>4 DEF IsInjective
  <1>8. Numbered(s, NamedIds(tag, names))
    BY <1>3, <1>6, <1>7 DEF Numbered, NamedIds
  <1> QED BY <1>5, <1>8 DEF s

\* The templates of one server: as many as there should be, none twice, and
\* no id twice as long as five tools are declared at most.
LEMMA StaticProperties ==
    ASSUME NEW m, ParsedManifest(m)
    PROVE  /\ Piece(StaticItems(m), ExpectedStatic(m), FixedKinds \cup {"tools/call", "resources/read", "prompts/get"})
           /\ Len(m.tools) <= 5 => ~RepeatsId(m)
  <1> DEFINE a == FixedTemplates
             b == ToolTemplates(m)
             c == ResourceTemplates(m)
             d == PromptTemplates(m)
             T == Len(m.tools)
             R == Len(m.resources)
             P == Len(m.prompts)
  <1>1. StaticItems(m) = a \o b \o c \o d
    BY DEF StaticItems, FixedTemplates, ToolTemplates, ResourceTemplates, PromptTemplates, NamedTemplates
  <1>2. Piece(a, 5, FixedKinds) /\ Numbered(a, FixedIds)
    BY FixedTemplatesProperties
  <1>3. Piece(b, T, {"tools/call"}) /\ (T <= 5 => Numbered(b, ToolIds))
    BY ToolTemplatesProperties
  <1>4. Piece(c, R, {"resources/read"}) /\ Numbered(c, ResourceIds(m))
    <2>1. IsSeq(m.resources) /\ IsInjective(m.resources)
      BY DEF ParsedManifest
    <2> QED BY <2>1, NamedTemplatesProperties DEF ResourceTemplates, ResourceIds
  <1>5. Piece(d, P, {"prompts/get"}) /\ Numbered(d, PromptIds(m))
    <2>1. IsSeq(m.prompts) /\ IsInjective(m.prompts)
      BY DEF ParsedManifest
    <2> QED BY <2>1, NamedTemplatesProperties DEF PromptTemplates, PromptIds
  <1> HIDE DEF a, b, c, d, T, R, P
  <1>6. Piece(a \o b, 5 + T, FixedKinds \cup {"tools/call"})
    <2>1. FixedKinds \cap {"tools/call"} = {}
      BY DEF FixedKinds
    <2> QED BY <1>2, <1>3, <2>1, PieceJoined
  <1>7. Piece((a \o b) \o c, 5 + T + R, FixedKinds \cup {"tools/call"} \cup {"resources/read"})
    <2>1. (FixedKinds \cup {"tools/call"}) \cap {"resources/read"} = {}
      BY DEF FixedKinds
    <2> QED BY <1>6, <1>4, <2>1, PieceJoined
  <1>8. Piece((a \o b \o c) \o d, 5 + T + R + P, FixedKinds \cup {"tools/call"} \cup {"resources/read"} \cup {"prompts/get"})
    <2>1. (FixedKinds \cup {"tools/call"} \cup {"resources/read"}) \cap {"prompts/get"} = {}
      BY DEF FixedKinds
    <2> QED BY <1>7, <1>5, <2>1, PieceJoined
  <1>9. Piece(StaticItems(m), ExpectedStatic(m), FixedKinds \cup {"tools/call", "resources/read", "prompts/get"})
    <2>1. FixedKinds \cup {"tools/call"} \cup {"resources/read"} \cup {"prompts/get"}
             = FixedKinds \cup {"tools/call", "resources/read", "prompts/get"}
      OBVIOUS
    <2>2. ExpectedStatic(m) = 5 + T + R + P
      BY DEF ExpectedStatic, T, R, P
    <2> QED BY <1>1, <1>8, <2>1, <2>2
  <1>10. ASSUME T <= 5
         PROVE  ~RepeatsId(m)
    <2>1. IsSeq(a) /\ IsSeq(b) /\ IsSeq(c) /\ IsSeq(d) /\ IsSeq(a \o b) /\ IsSeq(a \o b \o c)
      BY <1>2, <1>3, <1>4, <1>5, <1>6, <1>7 DEF Piece
    <2>2. Numbered(a \o b, FixedIds \cup ToolIds)
      <3>1. FixedIds \cap ToolIds = {}
        BY DEF FixedIds, ToolIds
      <3> QED BY <1>2, <1>3, <1>10, <2>1, <3>1, NumberedJoined
    <2>3. Numbered((a \o b) \o c, FixedIds \cup ToolIds \cup ResourceIds(m))
      <3>1. (FixedIds \cup ToolIds) \cap ResourceIds(m) = {}
        BY DEF FixedIds, ToolIds, ResourceIds, NamedIds
      <3> QED BY <1>4, <2>1, <2>2, <3>1, NumberedJoined
    <2>4. Numbered((a \o b \o c) \o d, FixedIds \cup ToolIds \cup ResourceIds(m) \cup PromptIds(m))
      <3>1. (FixedIds \cup ToolIds \cup ResourceIds(m)) \cap PromptIds(m) = {}
        BY DEF FixedIds, ToolIds, ResourceIds, PromptIds, NamedIds
      <3> QED BY <1>5, <2>1, <2>3, <3>1, NumberedJoined
    <2>5. DOMAIN StaticItems(m) = 1..Len(StaticItems(m))
      BY <1>9, IsSeqLen DEF Piece
    <2> QED BY <1>1, <2>4, <2>5 DEF Numbered, RepeatsId
  <1> QED BY <1>9, <1>10 DEF T

\* What the builder built is never found lacking.
LEMMA GateProperties ==
    ASSUME NEW m, ParsedManifest(m), ~Admitted(m)
    PROVE  m.servers = <<>> \/ m.large \/ Len(m.tools) > 5
  <1>1. Covers(StaticItems(m), ExpectedStatic(m))
    BY StaticProperties, PieceCovers
  <1>2. ASSUME NEW k \in DOMAIN m.servers
        PROVE  Covers(RuntimeItems(m, m.servers[k]), ExpectedRuntimeItemCount(m, m.servers[k]))
    <2> DEFINE s == m.servers[k]
    <2>1. CASE s.http
      <3>1. Piece(RuntimeItems(m, s), ExpectedRuntimeItemCount(m, s), LapKinds)
        BY <2>1, LapProperties
      <3> QED BY <3>1, PieceCovers
    <2>2. CASE ~s.http
      <3>1. RuntimeItems(m, s) = <<>> /\ ExpectedRuntimeItemCount(m, s) = 0
        BY <2>2 DEF RuntimeItems, When, ExpectedRuntimeItemCount
      <3>2. Piece(<<>>, 0, {})
        <4>1. <<>> \in Seq({}) /\ Len(<<>>) = 0
          BY EmptySeq
        <4>2. IsSeq(<<>>)
          BY <4>1, SeqIsSeq
        <4> QED BY <4>1, <4>2 DEF Piece, Distinct
      <3> QED BY <3>1, <3>2, PieceCovers
    <2> QED BY <2>1, <2>2
  <1>3. ~Lacking(m)
    BY <1>1, <1>2 DEF Lacking
  <1>4. Len(m.tools) \in Nat
    BY IsSeqLen DEF ParsedManifest
  <1> QED BY <1>3, <1>4, StaticProperties DEF Admitted
-----------------------------------------------------------------------------
(* The run.  The inductive invariant says of every place in a lap what the *)
(* variables tell of the server at hand.                                   *)
LaneFields == {"stage", "manifest", "srv", "item", "green"}
KeptFields == {"init", "inited", "session", "caps", "next", "first", "seen", "missing", "depth", "subscribed", "deleted"}
LiveFields == {"opened", "accepted", "issued", "offers", "used", "listed", "cursor", "subscribed", "skipped"}
Capabilities == {"tools", "resources", "prompts", "subscribe"}

LaneTyped ==
    /\ DOMAIN lane = LaneFields
    /\ ParsedManifest(lane.manifest)
    /\ lane.srv \in Nat \ {0} /\ lane.item \in Nat \ {0} /\ lane.green \in BOOLEAN
    /\ lane.stage = "gate" => lane.srv = 1
    /\ lane.stage = "run" => lane.srv \in DOMAIN lane.manifest.servers
    /\ lane.stage = "refused" => ~Admitted(lane.manifest)
KeptTyped ==
    /\ DOMAIN kept = KeptFields
    /\ kept.init \in BOOLEAN /\ kept.inited \in BOOLEAN /\ kept.subscribed \in BOOLEAN
    /\ kept.depth \in Nat
LiveTyped ==
    /\ DOMAIN live = LiveFields
    /\ live.offers \subseteq Capabilities /\ IsSeq(live.listed)
    /\ live.issued \in BOOLEAN /\ live.subscribed \in BOOLEAN /\ live.skipped \in BOOLEAN

\* The handshake: what the variables say of it is of this lap.
Handshaken ==
    /\ lane.item = 2 => ~kept.inited
    /\ lane.item > 1 /\ kept.init => /\ live.opened = lane.srv /\ kept.caps = live.offers
                                     /\ live.issued => kept.session = lane.srv
    /\ lane.item > 2 /\ kept.inited => kept.init /\ live.accepted = lane.srv
    /\ lane.item > 1 /\ ~kept.init => ~lane.green
    /\ lane.item > 2 /\ ~kept.inited => ~lane.green
\* A run without a failure: nothing was skipped or served undeclared.
Exercised == lane.green => ~live.skipped /\ live.used \subseteq live.offers
\* A run without a failure, past the list of tools: the variables agree with
\* what the server listed, and a cursor left means pages left to ask for.
Listed ==
    lane.green /\ lane.item > 7 =>
        /\ kept.next = live.cursor
        /\ kept.missing = ToSet(lane.manifest.tools) \ kept.seen
        /\ kept.seen = ToSet(live.listed)
        /\ IsInjective(live.listed)
        /\ kept.next = Nothing => kept.missing = {}
        /\ Truthy(kept.next) => /\ lane.item <= 10 + PageProbes
                                /\ kept.depth = IF lane.item <= 11 THEN 0 ELSE lane.item - 11
\* A run without a failure: a subscription is given up by the next item.
Subscribed ==
    lane.green /\ live.subscribed => kept.subscribed /\ AtKind({"unsubscribe"})
LaneInv ==
    LaneTyped /\ KeptTyped /\ LiveTyped /\ Handshaken /\ Exercised /\ Listed /\ Subscribed

Kind == Lap[lane.item].kind

LEMMA AtItemProperties ==
    ASSUME LaneTyped, AtItem
    PROVE  /\ lane.stage = "run" /\ Present \in ToSet(lane.manifest.servers)
           /\ Placed(Lap) /\ Paired(Lap)
           /\ Len(Lap) \in Nat /\ DOMAIN Lap = 1..Len(Lap) /\ lane.item \in 1..Len(Lap)
  <1>1. lane.stage = "run" /\ lane.srv \in DOMAIN lane.manifest.servers /\ lane.item \in DOMAIN Lap
    BY DEF AtItem, Running
  <1>2. Present \in ToSet(lane.manifest.servers)
    BY <1>1 DEF Present, ToSet
  <1>3. Present.http
    <2>1. ASSUME ~Present.http PROVE FALSE
      <3>1. Lap = <<>>
        BY <2>1 DEF Lap, RuntimeItems, When
      <3>2. DOMAIN <<>> = {}
        OBVIOUS
      <3> QED BY <1>1, <3>1, <3>2
    <2> QED BY <2>1
  <1>4. Piece(Lap, ExpectedRuntimeItemCount(lane.manifest, Present), LapKinds) /\ Placed(Lap) /\ Paired(Lap)
    BY <1>3, LapProperties DEF Lap, LaneTyped
  <1>5. Len(Lap) \in Nat /\ DOMAIN Lap = 1..Len(Lap)
    BY <1>4, IsSeqLen DEF Piece
  <1> QED BY <1>1, <1>2, <1>4, <1>5

LEMMA KindPlaces ==
    ASSUME LaneTyped, AtItem
    PROVE  /\ Kind = "initialize" <=> lane.item = 1
           /\ Kind = "initialized" <=> lane.item = 2
           /\ Kind = "tools/list" <=> lane.item = 7
           /\ Kind = "page" <=> lane.item \in 11..10 + PageProbes
           /\ Kind = "replay" <=> lane.item = 11 + PageProbes
  <1> DEFINE k == lane.item
  <1>1. k \in 1..Len(Lap) /\ Len(Lap) \in Nat /\ Placed(Lap) /\ PageProbes \in Nat \ {0}
    BY AtItemProperties, LaneAssumption
  <1>2. CASE k = 1
    BY <1>1, <1>2 DEF Placed, Kind
  <1>3. CASE k = 2
    BY <1>1, <1>3 DEF Placed, Kind
  <1>4. CASE k = 7
    BY <1>1, <1>4 DEF Placed, Kind
  <1>5. CASE k \in 11..10 + PageProbes
    <2>1. Kind = "page"
      BY <1>1, <1>5 DEF Placed, Kind
    <2> QED BY <1>1, <1>5, <2>1
  <1>6. CASE k = 11 + PageProbes
    <2>1. Kind = "replay"
      BY <1>1, <1>6 DEF Placed, Kind
    <2> QED BY <1>1, <1>6, <2>1
  <1>7. CASE k \in (3..6) \cup (8..10) \/ k > 11 + PageProbes
    <2>1. Kind \notin Singular
      BY <1>1, <1>7 DEF Placed, Kind
    <2>2. /\ Kind # "initialize" /\ Kind # "initialized" /\ Kind # "tools/list"
          /\ Kind # "page" /\ Kind # "replay"
      BY <2>1 DEF Singular
    <2>3. k \notin {1, 2, 7} /\ k \notin 11..10 + PageProbes /\ k # 11 + PageProbes
      BY <1>1, <1>7
    <2> QED BY <2>2, <2>3
  <1>8. \/ k = 1 \/ k = 2 \/ k = 7 \/ k \in 11..10 + PageProbes \/ k = 11 + PageProbes
        \/ k \in (3..6) \cup (8..10) \/ k > 11 + PageProbes
    BY <1>1
  <1> QED BY <1>2, <1>3, <1>4, <1>5, <1>6, <1>7, <1>8

LEMMA LaneInvIsSafe ==
    ASSUME LaneInv
    PROVE  McpLaneIsSafe
  <1>0. LaneTyped /\ KeptTyped /\ LiveTyped /\ Handshaken /\ Exercised /\ Listed /\ Subscribed
    BY DEF LaneInv
  <1>1. PageProbes \in Nat \ {0} /\ lane.item \in Nat \ {0} /\ Len(Opening) = 10
    BY <1>0, LaneAssumption, OpeningPiece DEF LaneTyped, Piece
  <1>2. AtItem => /\ Kind = "initialize" <=> lane.item = 1
                  /\ Kind = "initialized" <=> lane.item = 2
                  /\ Kind = "page" <=> lane.item \in 11..10 + PageProbes
                  /\ Kind = "replay" <=> lane.item = 11 + PageProbes
    BY <1>0, KindPlaces
  <1>3. HandshakeFirst
    <2>1. ASSUME Sending({"initialized"}) PROVE live.opened = lane.srv
      <3>1. AtItem /\ Kind = "initialized" /\ MaySend(Kind)
        BY <2>1 DEF Sending, AtKind, Kind
      <3>2. kept.init /\ lane.item = 2
        BY <1>2, <3>1 DEF MaySend, Unguarded
      <3> QED BY <1>0, <3>2 DEF Handshaken
    <2>2. ASSUME AtItem, Lap[lane.item].kind \notin Unguarded \cup {"initialized"}, MaySend(Lap[lane.item].kind)
          PROVE  live.opened = lane.srv /\ live.accepted = lane.srv
      <3>1. Kind \notin Unguarded /\ Kind # "initialized" /\ MaySend(Kind)
        BY <2>2 DEF Kind
      <3>2. kept.inited
        BY <3>1 DEF MaySend
      <3>3. lane.item > 2
        <4>1. Kind # "initialize"
          BY <3>1 DEF Unguarded
        <4>2. lane.item # 1 /\ lane.item # 2
          BY <1>2, <2>2, <3>1, <4>1
        <4> QED BY <1>1, <4>2
      <3>4. lane.item > 1
        BY <1>1, <3>3
      <3> QED BY <1>0, <3>2, <3>3, <3>4 DEF Handshaken
    <2> QED BY <2>1, <2>2 DEF HandshakeFirst
  <1>4. OwnSession
    BY <1>0 DEF OwnSession, Handshaken
  <1>5. OwnCursor
    <2>1. ASSUME lane.green, Sending({"page"}) PROVE kept.next = live.cursor
      <3>1. AtItem /\ Kind = "page"
        BY <2>1 DEF Sending, AtKind, Kind
      <3>2. lane.item > 7
        BY <1>1, <1>2, <3>1
      <3> QED BY <1>0, <2>1, <3>2 DEF Listed
    <2> QED BY <2>1 DEF OwnCursor
  <1>6. GreenIsExercised /\ GreenServesDeclared
    BY <1>0 DEF GreenIsExercised, GreenServesDeclared, Exercised
  <1>7. GreenListingIsComplete
    <2>1. ASSUME lane.green, PastListing, live.cursor # EmptyCursor
          PROVE  ToSet(lane.manifest.tools) \subseteq ToSet(live.listed) /\ IsInjective(live.listed)
      <3>1. lane.item > 10 + PageProbes
        BY <1>1, <2>1 DEF PastListing
      <3>2. lane.item > 7 /\ ~(lane.item <= 10 + PageProbes)
        BY <1>1, <3>1
      <3>3. /\ kept.next = live.cursor /\ kept.missing = ToSet(lane.manifest.tools) \ kept.seen
            /\ kept.seen = ToSet(live.listed) /\ IsInjective(live.listed)
            /\ kept.next = Nothing => kept.missing = {}
            /\ ~Truthy(kept.next)
        BY <1>0, <2>1, <3>2 DEF Listed
      <3>4. kept.next = Nothing
        BY <2>1, <3>3 DEF Truthy
      <3> QED BY <3>3, <3>4
    <2> QED BY <2>1 DEF GreenListingIsComplete
  <1>8. GreenUnsubscribes
    BY <1>0 DEF GreenUnsubscribes, Subscribed, AtKind
  <1>9. GateKnowsItsBuilder
    BY <1>0, GateProperties DEF GateKnowsItsBuilder, LaneTyped
  <1> QED BY <1>3, <1>4, <1>5, <1>6, <1>7, <1>8, <1>9 DEF McpLaneIsSafe

LEMMA LaneInitInv ==
    ASSUME LaneInit
    PROVE  LaneInv
  <1>1. PICK raw \in Manifests : lane = FreshLane(raw)
    BY DEF LaneInit
  <1>2. LaneTyped
    BY <1>1, ParsedProperties DEF LaneTyped, FreshLane, LaneFields
  <1>3. KeptTyped
    BY DEF LaneInit, KeptTyped, KeptFields
  <1>4. live.used = {} /\ live.skipped = FALSE /\ live.subscribed = FALSE
    BY DEF LaneInit, Unmet
  <1>5. LiveTyped
    <2>1. <<>> \in Seq({})
      BY EmptySeq
    <2>2. IsSeq(<<>>)
      BY <2>1, SeqIsSeq
    <2> QED BY <2>2 DEF LaneInit, Unmet, LiveTyped, LiveFields
  <1>6. lane.item = 1
    BY <1>1 DEF FreshLane
  <1> QED BY <1>2, <1>3, <1>4, <1>5, <1>6 DEF LaneInv, Handshaken, Exercised, Listed, Subscribed

\* A step to the next item, and what such a step may leave alone.
Forward ==
    /\ AtItem
    /\ lane'.item = lane.item + 1 /\ lane'.srv = lane.srv /\ lane'.manifest = lane.manifest
    /\ lane'.stage = lane.stage /\ DOMAIN lane' = LaneFields
    /\ lane'.green \in BOOLEAN /\ (lane'.green => lane.green)
SameHandshake ==
    /\ kept'.init = kept.init /\ kept'.inited = kept.inited
    /\ kept'.session = kept.session /\ kept'.caps = kept.caps
    /\ live'.opened = live.opened /\ live'.accepted = live.accepted
    /\ live'.issued = live.issued /\ live'.offers = live.offers
SameListing ==
    /\ kept'.next = kept.next /\ kept'.seen = kept.seen /\ kept'.missing = kept.missing /\ kept'.depth = kept.depth
    /\ live'.listed = live.listed /\ live'.cursor = live.cursor

LEMMA TestsPassForward ==
    ASSUME LaneTyped, AtItem, TestsPass
    PROVE  Forward
  BY DEF LaneTyped, TestsPass, Forward, LaneFields
LEMMA TestsFailForward ==
    ASSUME LaneTyped, AtItem, TestsFail
    PROVE  Forward /\ ~lane'.green
  BY DEF LaneTyped, TestsFail, Forward, LaneFields
LEMMA TestedForward ==
    ASSUME LaneTyped, AtItem, NEW pass \in BOOLEAN, Tested(pass)
    PROVE  Forward /\ (lane'.green => pass)
  BY TestsPassForward, TestsFailForward DEF Tested

LEMMA ForwardTyped ==
    ASSUME LaneTyped, Forward
    PROVE  LaneTyped'
  BY DEF LaneTyped, Forward

LEMMA ForwardHandshaken ==
    ASSUME LaneTyped, KeptTyped, Handshaken, Forward, SameHandshake, lane.item > 2
    PROVE  Handshaken'
  <1>1. lane.item \in Nat /\ lane'.item > 2 /\ lane'.item > 1 /\ lane.item > 1 /\ lane'.item # 2
    BY DEF LaneTyped, Forward
  <1> QED BY <1>1 DEF Handshaken, Forward, SameHandshake

LEMMA ForwardListed ==
    ASSUME LaneTyped, Listed, Forward, SameListing, lane.item # 7,
           lane.item \in 11..10 + PageProbes => ~lane'.green \/ ~Truthy(kept.next)
    PROVE  Listed'
  <1>1. ASSUME lane'.green, lane'.item > 7
        PROVE  /\ kept'.next = live'.cursor
               /\ kept'.missing = ToSet(lane'.manifest.tools) \ kept'.seen
               /\ kept'.seen = ToSet(live'.listed)
               /\ IsInjective(live'.listed)
               /\ kept'.next = Nothing => kept'.missing = {}
               /\ Truthy(kept'.next) => /\ lane'.item <= 10 + PageProbes
                                        /\ kept'.depth = IF lane'.item <= 11 THEN 0 ELSE lane'.item - 11
    <2>1. PageProbes \in Nat \ {0} /\ lane.item \in Nat /\ lane'.item = lane.item + 1 /\ lane.green
      BY <1>1, LaneAssumption DEF LaneTyped, Forward
    <2>2. lane.item > 7
      BY <1>1, <2>1
    <2>3. /\ kept.next = live.cursor
          /\ kept.missing = ToSet(lane.manifest.tools) \ kept.seen
          /\ kept.seen = ToSet(live.listed)
          /\ IsInjective(live.listed)
          /\ kept.next = Nothing => kept.missing = {}
      BY <2>1, <2>2 DEF Listed
    <2>4. ASSUME Truthy(kept.next)
          PROVE  /\ lane'.item <= 10 + PageProbes
                 /\ kept'.depth = IF lane'.item <= 11 THEN 0 ELSE lane'.item - 11
      <3>1. lane.item <= 10 + PageProbes /\ kept.depth = IF lane.item <= 11 THEN 0 ELSE lane.item - 11
        BY <2>1, <2>2, <2>4 DEF Listed
      <3>2. lane.item \notin 11..10 + PageProbes
        BY <1>1, <2>4
      <3>3. lane.item <= 10 /\ kept.depth = 0
        BY <2>1, <3>1, <3>2
      <3> QED BY <2>1, <3>3 DEF SameListing
    <2> QED BY <2>3, <2>4 DEF SameListing, Forward
  <1> QED BY <1>1 DEF Listed

LEMMA ForwardUnsubscribed ==
    ASSUME Subscribed, Forward, Kind # "unsubscribe", live'.subscribed = live.subscribed
    PROVE  Subscribed'
  BY DEF Subscribed, Forward, AtKind, Kind

\* A step that neither shakes hands nor lists nor subscribes.
LEMMA PlainStep ==
    ASSUME LaneInv, Forward, SameHandshake, SameListing, KeptTyped', LiveTyped',
           Kind \notin {"initialize", "initialized", "tools/list", "page", "unsubscribe"},
           live'.subscribed = live.subscribed,
           live'.skipped = live.skipped, lane'.green => live'.used \subseteq live.offers
    PROVE  LaneInv'
  <1>1. LaneTyped /\ KeptTyped /\ Handshaken /\ Exercised /\ Listed /\ Subscribed /\ AtItem /\ lane.item \in Nat \ {0}
    BY DEF LaneInv, Forward, LaneTyped
  <1>2. lane.item # 1 /\ lane.item # 2 /\ lane.item # 7 /\ lane.item \notin 11..10 + PageProbes
    BY <1>1, KindPlaces
  <1>3. lane.item > 2
    BY <1>1, <1>2
  <1>4. LaneTyped' /\ Handshaken' /\ Listed' /\ Subscribed'
    BY <1>1, <1>2, <1>3, ForwardTyped, ForwardHandshaken, ForwardListed, ForwardUnsubscribed
  <1>5. Exercised'
    BY <1>1 DEF Exercised, Forward, SameHandshake
  <1> QED BY <1>4, <1>5 DEF LaneInv

LEMMA InstrumentMcpInv ==
    ASSUME LaneInv, InstrumentMcp
    PROVE  LaneInv'
  <1>1. LaneTyped /\ lane.stage = "gate" /\ kept' = kept /\ live' = live
    BY DEF LaneInv, InstrumentMcp
  <1>2. /\ lane'.stage = IF Admitted(lane.manifest) THEN "run" ELSE "refused"
        /\ lane'.manifest = lane.manifest /\ lane'.srv = lane.srv /\ lane'.item = lane.item /\ lane'.green = lane.green
        /\ DOMAIN lane' = LaneFields
    BY <1>1 DEF InstrumentMcp, LaneTyped, LaneFields
  <1>3. Admitted(lane.manifest) => lane.srv \in DOMAIN lane.manifest.servers
    <2>1. IsSeq(lane.manifest.servers) /\ lane.srv = 1
      BY <1>1 DEF LaneTyped, ParsedManifest
    <2>2. Len(lane.manifest.servers) \in Nat /\ DOMAIN lane.manifest.servers = 1..Len(lane.manifest.servers)
      BY <2>1, IsSeqLen
    <2>3. lane.manifest.servers # <<>> => Len(lane.manifest.servers) # 0
      BY <2>1, EmptySeq DEF IsSeq
    <2> QED BY <2>1, <2>2, <2>3 DEF Admitted
  <1>4. LaneTyped'
    BY <1>1, <1>2, <1>3 DEF LaneTyped
  <1>5. KeptTyped' /\ LiveTyped' /\ Handshaken' /\ Exercised' /\ Listed'
    BY <1>1, <1>2 DEF LaneInv, KeptTyped, LiveTyped, Handshaken, Exercised, Listed
  <1>6. ~(lane.green /\ live.subscribed)
    BY <1>1 DEF LaneInv, Subscribed, AtKind, AtItem, Running
  <1>7. Subscribed'
    BY <1>1, <1>2, <1>6 DEF Subscribed
  <1> QED BY <1>4, <1>5, <1>7 DEF LaneInv

LEMMA SkipRequestInv ==
    ASSUME LaneInv, SkipRequest
    PROVE  LaneInv'
  <1>1. LaneTyped /\ KeptTyped /\ LiveTyped /\ Handshaken /\ Exercised /\ Listed /\ Subscribed /\ AtItem /\ lane.item \in Nat \ {0}
    BY DEF LaneInv, SkipRequest, LaneTyped
  <1>2. Forward /\ lane'.green = lane.green /\ kept' = kept
    BY <1>1 DEF SkipRequest, Forward, LaneTyped, LaneFields
  <1>3. /\ live'.opened = live.opened /\ live'.accepted = live.accepted /\ live'.issued = live.issued
        /\ live'.offers = live.offers /\ live'.used = live.used /\ live'.listed = live.listed
        /\ live'.cursor = live.cursor /\ live'.subscribed = live.subscribed
        /\ live'.skipped = (live.skipped \/ Kind \notin {"page", "replay"})
        /\ DOMAIN live' = LiveFields
    BY <1>1 DEF SkipRequest, LiveTyped, LiveFields, Kind
  <1>4. SameHandshake /\ SameListing
    BY <1>2, <1>3 DEF SameHandshake, SameListing
  <1>5. LaneTyped' /\ KeptTyped' /\ LiveTyped'
    BY <1>1, <1>2, <1>3, ForwardTyped DEF KeptTyped, LiveTyped
  <1>6. ~MaySend(Kind) /\ Kind # "initialize"
    BY DEF SkipRequest, Kind, MaySend, Unguarded
  <1>7. lane.item # 1 /\ (Kind = "initialized" <=> lane.item = 2) /\ (Kind = "page" <=> lane.item \in 11..10 + PageProbes)
        /\ (Kind = "tools/list" <=> lane.item = 7)
    BY <1>1, <1>6, KindPlaces
  <1>8. CASE lane.item = 2
    <2>1. ~kept.init /\ ~kept.inited
      BY <1>1, <1>6, <1>7, <1>8 DEF MaySend, Unguarded, Handshaken
    <2>2. ~lane.green /\ lane'.item = 3
      BY <1>1, <1>2, <1>8, <2>1 DEF Handshaken, Forward
    <2>3. Handshaken'
      BY <1>2, <2>1, <2>2 DEF Handshaken
    <2>4. Exercised' /\ Listed' /\ Subscribed'
      BY <1>2, <2>2 DEF Exercised, Listed, Subscribed
    <2> QED BY <1>5, <2>3, <2>4 DEF LaneInv
  <1>9. CASE lane.item # 2
    <2>1. lane.item > 2 /\ Kind # "initialized"
      BY <1>1, <1>7, <1>9
    <2>2. Handshaken'
      BY <1>1, <1>2, <1>4, <2>1, ForwardHandshaken
    <2>3. CASE ~kept.inited
      <3>1. ~lane'.green
        BY <1>1, <1>2, <2>1, <2>3 DEF Handshaken
      <3>2. Exercised' /\ Listed' /\ Subscribed'
        BY <3>1 DEF Exercised, Listed, Subscribed
      <3> QED BY <1>5, <2>2, <3>2 DEF LaneInv
    <2>4. CASE kept.inited
      <3>1. Kind \in {"page", "replay"} /\ (Kind = "page" => ~Truthy(kept.next))
        BY <1>6, <2>1, <2>4 DEF MaySend
      <3>2. lane.item # 7 /\ (lane.item \in 11..10 + PageProbes => ~Truthy(kept.next))
        BY <1>7, <3>1
      <3>3. Listed'
        BY <1>1, <1>2, <1>4, <3>2, ForwardListed
      <3>4. Subscribed'
        BY <1>1, <1>2, <1>3, <3>1, ForwardUnsubscribed
      <3>5. Exercised'
        BY <1>1, <1>2, <1>3, <3>1 DEF Exercised
      <3> QED BY <1>5, <2>2, <3>3, <3>4, <3>5 DEF LaneInv
    <2> QED BY <2>3, <2>4
  <1> QED BY <1>8, <1>9

LEMMA InitializeInv ==
    ASSUME LaneInv, Initialize
    PROVE  LaneInv'
  <1>1. LaneTyped /\ KeptTyped /\ LiveTyped /\ Exercised /\ AtItem /\ Kind = "initialize"
    BY DEF LaneInv, Initialize, Sending, AtKind, Kind
  <1>2. lane.item = 1 /\ Present \in ToSet(lane.manifest.servers)
    BY <1>1, KindPlaces, AtItemProperties
  <1>3. IsSeq(<<>>)
    <2>1. <<>> \in Seq({})
      BY EmptySeq
    <2> QED BY <2>1, SeqIsSeq
  <1>4. CASE /\ TestsFail
             /\ kept' = [kept EXCEPT !.init = FALSE, !.inited = FALSE]
             /\ live' = [Unmet EXCEPT !.skipped = live.skipped]
    <2>1. Forward /\ ~lane'.green
      BY <1>1, <1>4, TestsFailForward
    <2>2. kept'.init = FALSE /\ kept'.inited = FALSE /\ KeptTyped'
      BY <1>1, <1>4 DEF KeptTyped, KeptFields
    <2>3. LiveTyped'
      BY <1>1, <1>3, <1>4 DEF LiveTyped, LiveFields, Unmet
    <2>4. lane'.item = 2 /\ LaneTyped'
      BY <1>1, <1>2, <2>1, ForwardTyped DEF Forward
    <2>5. Handshaken' /\ Exercised' /\ Listed' /\ Subscribed'
      BY <2>1, <2>2, <2>4 DEF Handshaken, Exercised, Listed, Subscribed
    <2> QED BY <2>2, <2>3, <2>4, <2>5 DEF LaneInv
  <1>5. ASSUME NEW issues \in BOOLEAN, NEW declared \in Present.capabilities, Tested(TRUE),
               kept' = [kept EXCEPT !.init = TRUE, !.inited = FALSE, !.caps = declared,
                                    !.session = IF issues THEN lane.srv ELSE @],
               live' = [Unmet EXCEPT !.skipped = live.skipped, !.opened = lane.srv,
                                     !.issued = issues, !.offers = declared]
        PROVE  LaneInv'
    <2>1. Forward
      BY <1>1, <1>5, TestedForward
    <2>2. declared \subseteq Capabilities
      BY <1>1, <1>2 DEF LaneTyped, ParsedManifest, Capabilities
    <2>3. /\ kept'.init = TRUE /\ kept'.inited = FALSE /\ kept'.caps = declared
          /\ issues => kept'.session = lane.srv
      BY <1>1, <1>5 DEF KeptTyped, KeptFields
    <2>4. KeptTyped'
      BY <1>1, <1>5 DEF KeptTyped, KeptFields
    <2>5. /\ live'.opened = lane.srv /\ live'.issued = issues /\ live'.offers = declared /\ live'.used = {}
          /\ live'.subscribed = FALSE /\ live'.skipped = live.skipped
      BY <1>5 DEF Unmet
    <2>6. LiveTyped'
      BY <1>1, <1>3, <1>5, <2>2 DEF LiveTyped, LiveFields, Unmet
    <2>7. lane'.item = 2 /\ LaneTyped' /\ lane'.srv = lane.srv /\ (lane'.green => lane.green)
      BY <1>1, <1>2, <2>1, ForwardTyped DEF Forward
    <2>8. Handshaken'
      BY <2>3, <2>5, <2>7 DEF Handshaken
    <2>9. Exercised' /\ Listed' /\ Subscribed'
      BY <1>1, <2>5, <2>7 DEF Exercised, Listed, Subscribed
    <2> QED BY <2>4, <2>6, <2>7, <2>8, <2>9 DEF LaneInv
  <1> QED BY <1>4, <1>5 DEF Initialize

LEMMA InitializedInv ==
    ASSUME LaneInv, Initialized
    PROVE  LaneInv'
  <1>1. LaneTyped /\ KeptTyped /\ LiveTyped /\ Handshaken /\ Exercised /\ Subscribed /\ AtItem
        /\ Kind = "initialized" /\ MaySend(Kind)
    BY DEF LaneInv, Initialized, Sending, AtKind, Kind
  <1>2. lane.item = 2 /\ kept.init
    BY <1>1, KindPlaces DEF MaySend, Unguarded
  <1>3. CASE TestsPass /\ kept' = [kept EXCEPT !.inited = TRUE] /\ live' = [live EXCEPT !.accepted = lane.srv]
    <2>1. Forward
      BY <1>1, <1>3, TestsPassForward
    <2>2. /\ kept'.init = kept.init /\ kept'.session = kept.session /\ kept'.caps = kept.caps /\ kept'.inited = TRUE
          /\ KeptTyped'
      BY <1>1, <1>3 DEF KeptTyped, KeptFields
    <2>3. /\ live'.opened = live.opened /\ live'.issued = live.issued /\ live'.offers = live.offers
          /\ live'.accepted = lane.srv /\ live'.used = live.used /\ live'.skipped = live.skipped
          /\ live'.subscribed = live.subscribed /\ LiveTyped'
      BY <1>1, <1>3 DEF LiveTyped, LiveFields
    <2>4. lane'.item = 3 /\ LaneTyped' /\ lane'.srv = lane.srv /\ (lane'.green => lane.green)
      BY <1>1, <1>2, <2>1, ForwardTyped DEF Forward
    <2>5. Handshaken'
      BY <1>1, <1>2, <2>2, <2>3, <2>4 DEF Handshaken
    <2>6. Exercised' /\ Listed'
      BY <1>1, <2>3, <2>4 DEF Exercised, Listed
    <2>7. Subscribed'
      BY <1>1, <2>1, <2>3, ForwardUnsubscribed
    <2> QED BY <2>2, <2>3, <2>4, <2>5, <2>6, <2>7 DEF LaneInv
  <1>4. CASE TestsFail /\ kept' = [kept EXCEPT !.inited = FALSE] /\ UNCHANGED live
    <2>1. Forward /\ ~lane'.green
      BY <1>1, <1>4, TestsFailForward
    <2>2. /\ kept'.init = kept.init /\ kept'.session = kept.session /\ kept'.caps = kept.caps /\ kept'.inited = FALSE
          /\ KeptTyped'
      BY <1>1, <1>4 DEF KeptTyped, KeptFields
    <2>3. lane'.item = 3 /\ LaneTyped' /\ lane'.srv = lane.srv
      BY <1>1, <1>2, <2>1, ForwardTyped DEF Forward
    <2>4. LiveTyped' /\ Handshaken'
      BY <1>1, <1>2, <1>4, <2>1, <2>2, <2>3 DEF LiveTyped, Handshaken
    <2>5. Exercised' /\ Listed' /\ Subscribed'
      BY <2>1 DEF Exercised, Listed, Subscribed
    <2> QED BY <2>2, <2>3, <2>4, <2>5 DEF LaneInv
  <1> QED BY <1>3, <1>4 DEF Initialized

LEMMA SavedProperties ==
    ASSUME NEW k, DOMAIN k = KeptFields, NEW cursor
    PROVE  /\ Saved(k, cursor).next = cursor
           /\ DOMAIN Saved(k, cursor) = KeptFields
           /\ \A f \in KeptFields \ {"next", "first"} : Saved(k, cursor)[f] = k[f]
  <1>1. CASE cursor = Nothing
    BY <1>1 DEF Saved, KeptFields
  <1>2. CASE cursor # Nothing
    <2>1. Saved(k, cursor) = [k EXCEPT !.first = IF Truthy(@) THEN @ ELSE cursor, !.next = cursor]
      BY <1>2 DEF Saved
    <2> QED BY <2>1 DEF KeptFields
  <1> QED BY <1>1, <1>2

LEMMA FreshPage ==
    ASSUME NEW page, IsSeq(page), NEW seen, Fresh(page, seen)
    PROVE  IsInjective(page) /\ ToSet(page) \cap seen = {}
  <1>1. Len(page) \in Nat /\ DOMAIN page = 1..Len(page)
    BY IsSeqLen
  <1>2. ASSUME NEW i \in DOMAIN page, NEW j \in DOMAIN page, page[i] = page[j], i # j
        PROVE  FALSE
    <2>1. i \in 1..j - 1 \/ j \in 1..i - 1
      BY <1>1, <1>2
    <2> QED BY <1>2, <2>1 DEF Fresh
  <1> QED BY <1>2 DEF Fresh, IsInjective, ToSet

LEMMA JoinedPages ==
    ASSUME NEW s, NEW t, IsSeq(s), IsSeq(t)
    PROVE  /\ ToSet(s \o t) = ToSet(s) \cup ToSet(t)
           /\ IsInjective(s) /\ IsInjective(t) /\ ToSet(s) \cap ToSet(t) = {} => IsInjective(s \o t)
  <1> DEFINE st == s \o t
  <1>1. /\ Len(s) \in Nat /\ Len(t) \in Nat
        /\ DOMAIN s = 1..Len(s) /\ DOMAIN t = 1..Len(t)
    BY IsSeqLen
  <1>2. /\ IsSeq(st) /\ Len(st) = Len(s) + Len(t)
        /\ \A k \in 1..Len(s) : st[k] = s[k]
        /\ \A k \in 1..Len(t) : st[Len(s) + k] = t[k]
        /\ \A k \in 1..Len(st) : k > Len(s) => k - Len(s) \in 1..Len(t) /\ st[k] = t[k - Len(s)]
    BY Joined
  <1>3. DOMAIN st = 1..Len(st)
    BY <1>2, IsSeqLen
  <1> HIDE DEF st
  <1>4. ASSUME NEW k \in 1..Len(st)
        PROVE  \/ k \in 1..Len(s) /\ st[k] = s[k] /\ st[k] \in ToSet(s)
               \/ k - Len(s) \in 1..Len(t) /\ st[k] = t[k - Len(s)] /\ st[k] \in ToSet(t)
    <2>1. CASE k <= Len(s)
      <3>1. k \in 1..Len(s)
        BY <1>1, <1>4, <2>1
      <3> QED BY <1>1, <1>2, <3>1 DEF ToSet
    <2>2. CASE k > Len(s)
      <3>1. k - Len(s) \in 1..Len(t) /\ st[k] = t[k - Len(s)]
        BY <1>2, <1>4, <2>2
      <3> QED BY <1>1, <3>1 DEF ToSet
    <2> QED BY <1>1, <1>4, <2>1, <2>2
  <1>5. ToSet(st) \subseteq ToSet(s) \cup ToSet(t)
    BY <1>3, <1>4 DEF ToSet
  <1>6. ASSUME NEW x \in ToSet(s) PROVE x \in ToSet(st)
    <2>1. PICK k \in 1..Len(s) : s[k] = x
      BY <1>1 DEF ToSet
    <2>2. k \in 1..Len(st) /\ st[k] = x
      BY <1>1, <1>2, <2>1
    <2> QED BY <1>3, <2>2 DEF ToSet
  <1>7. ASSUME NEW x \in ToSet(t) PROVE x \in ToSet(st)
    <2>1. PICK k \in 1..Len(t) : t[k] = x
      BY <1>1 DEF ToSet
    <2>2. Len(s) + k \in 1..Len(st) /\ st[Len(s) + k] = x
      BY <1>1, <1>2, <2>1
    <2> QED BY <1>3, <2>2 DEF ToSet
  <1>8. ASSUME IsInjective(s), IsInjective(t), ToSet(s) \cap ToSet(t) = {},
               NEW i \in 1..Len(st), NEW j \in 1..Len(st), st[i] = st[j]
        PROVE  i = j
    <2>1. CASE i \in 1..Len(s) /\ st[i] = s[i] /\ j \in 1..Len(s) /\ st[j] = s[j]
      BY <1>1, <1>8, <2>1 DEF IsInjective
    <2>2. CASE i - Len(s) \in 1..Len(t) /\ st[i] = t[i - Len(s)] /\ j - Len(s) \in 1..Len(t) /\ st[j] = t[j - Len(s)]
      <3>1. i - Len(s) = j - Len(s)
        BY <1>1, <1>8, <2>2 DEF IsInjective
      <3>2. i \in Int /\ j \in Int
        BY <1>1, <1>2
      <3> QED BY <1>1, <3>1, <3>2
    <2>3. CASE st[i] \in ToSet(s) /\ st[j] \in ToSet(t)
      BY <1>8, <2>3
    <2>4. CASE st[i] \in ToSet(t) /\ st[j] \in ToSet(s)
      BY <1>8, <2>4
    <2> QED BY <1>4, <1>8, <2>1, <2>2, <2>3, <2>4
  <1>9. IsInjective(s) /\ IsInjective(t) /\ ToSet(s) \cap ToSet(t) = {} => IsInjective(st)
    BY <1>3, <1>8 DEF IsInjective
  <1> QED BY <1>5, <1>6, <1>7, <1>9 DEF st

LEMMA ToolsListInv ==
    ASSUME LaneInv, ToolsList
    PROVE  LaneInv'
  <1>1. LaneTyped /\ KeptTyped /\ LiveTyped /\ Handshaken /\ Exercised /\ Subscribed /\ AtItem
        /\ Kind = "tools/list" /\ MaySend(Kind)
    BY DEF LaneInv, ToolsList, Sending, AtKind, Kind
  <1>2. lane.item = 7 /\ Present \in ToSet(lane.manifest.servers) /\ PageProbes \in Nat \ {0}
    BY <1>1, KindPlaces, AtItemProperties, LaneAssumption
  <1>3. ASSUME NEW page \in Present.pages, NEW cursor \in Present.cursors, NEW formed \in BOOLEAN,
               LET reset == [kept EXCEPT !.seen = {}, !.missing = ToSet(lane.manifest.tools), !.depth = 0, !.first = Nothing]
                   counts == formed /\ Fresh(page, {})
                   counted == IF counts THEN Recorded(reset, page) ELSE reset
               IN  /\ kept' = Saved(counted, cursor)
                   /\ Tested(counts /\ Declares("tools") /\ Complete(counted, cursor))
                   /\ live' = [Serves("tools") EXCEPT !.listed = page, !.cursor = cursor]
        PROVE  LaneInv'
    <2> DEFINE reset == [kept EXCEPT !.seen = {}, !.missing = ToSet(lane.manifest.tools), !.depth = 0, !.first = Nothing]
               counts == formed /\ Fresh(page, {})
               counted == IF counts THEN Recorded(reset, page) ELSE reset
               pass == counts /\ Declares("tools") /\ Complete(counted, cursor)
    <2>1. kept' = Saved(counted, cursor) /\ Tested(pass) /\ live' = [Serves("tools") EXCEPT !.listed = page, !.cursor = cursor]
      BY <1>3
    <2>2. /\ DOMAIN reset = KeptFields /\ reset.seen = {} /\ reset.missing = ToSet(lane.manifest.tools) /\ reset.depth = 0
          /\ reset.init = kept.init /\ reset.inited = kept.inited /\ reset.session = kept.session /\ reset.caps = kept.caps
          /\ reset.subscribed = kept.subscribed
      BY <1>1 DEF KeptTyped, KeptFields
    <2> HIDE DEF reset
    <2>3. /\ DOMAIN counted = KeptFields /\ counted.depth = 0
          /\ counted.init = kept.init /\ counted.inited = kept.inited /\ counted.session = kept.session
          /\ counted.caps = kept.caps /\ counted.subscribed = kept.subscribed
          /\ counts => counted.seen = ToSet(page) /\ counted.missing = ToSet(lane.manifest.tools) \ ToSet(page)
      BY <2>2 DEF Recorded, KeptFields
    <2> HIDE DEF counted
    <2>4. /\ kept'.next = cursor /\ DOMAIN kept' = KeptFields
          /\ \A f \in KeptFields \ {"next", "first"} : kept'[f] = counted[f]
      BY <2>1, <2>3, SavedProperties
    <2>5. /\ kept'.depth = 0 /\ kept'.init = kept.init /\ kept'.inited = kept.inited /\ kept'.session = kept.session
          /\ kept'.caps = kept.caps /\ kept'.subscribed = kept.subscribed
          /\ kept'.seen = counted.seen /\ kept'.missing = counted.missing
      BY <2>3, <2>4 DEF KeptFields
    <2>6. KeptTyped'
      BY <1>1, <2>4, <2>5 DEF KeptTyped
    <2>7. IsSeq(page)
      BY <1>1, <1>2 DEF LaneTyped, ParsedManifest
    <2>8. /\ live'.opened = live.opened /\ live'.accepted = live.accepted /\ live'.issued = live.issued
          /\ live'.offers = live.offers /\ live'.used = live.used \cup {"tools"} /\ live'.listed = page
          /\ live'.cursor = cursor /\ live'.subscribed = live.subscribed /\ live'.skipped = live.skipped
          /\ DOMAIN live' = LiveFields
      BY <1>1, <2>1 DEF LiveTyped, LiveFields, Serves
    <2>9. LiveTyped'
      BY <1>1, <2>7, <2>8 DEF LiveTyped
    <2>10. pass \in BOOLEAN
      BY DEF Declares, Complete
    <2> HIDE DEF pass
    <2>11. Forward /\ (lane'.green => pass)
      BY <1>1, <2>1, <2>10, TestedForward
    <2>12. lane'.item = 8 /\ LaneTyped' /\ lane'.manifest = lane.manifest /\ lane.item > 2 /\ (lane'.green => lane.green)
      BY <1>1, <1>2, <2>11, ForwardTyped DEF Forward
    <2>13. SameHandshake
      BY <2>5, <2>8 DEF SameHandshake
    <2>14. Handshaken'
      BY <1>1, <2>11, <2>12, <2>13, ForwardHandshaken
    <2>15. Subscribed'
      BY <1>1, <2>8, <2>11, ForwardUnsubscribed
    <2>16. ASSUME lane'.green
           PROVE  "tools" \in live.offers /\ lane.green /\ counts /\ Complete(counted, cursor)
      <3>1. lane.green /\ counts /\ Declares("tools") /\ Complete(counted, cursor)
        BY <2>11, <2>12, <2>16 DEF pass
      <3>2. kept.init
        BY <1>1, <1>2, <3>1 DEF Handshaken
      <3>3. kept.caps = live.offers
        BY <1>1, <1>2, <3>2 DEF Handshaken
      <3>4. live.offers # Unknown
        BY <1>1 DEF LiveTyped, Capabilities, Unknown, Nothing
      <3> QED BY <3>1, <3>3, <3>4 DEF Declares
    <2>17. Exercised'
      BY <1>1, <2>8, <2>16 DEF Exercised
    <2>18. Listed'
      <3>1. ASSUME lane'.green
            PROVE  /\ kept'.next = live'.cursor
                   /\ kept'.missing = ToSet(lane'.manifest.tools) \ kept'.seen
                   /\ kept'.seen = ToSet(live'.listed)
                   /\ IsInjective(live'.listed)
                   /\ kept'.next = Nothing => kept'.missing = {}
                   /\ lane'.item <= 10 + PageProbes /\ lane'.item <= 11 /\ kept'.depth = 0
        <4>1. counts /\ Complete(counted, cursor)
          BY <2>16, <3>1
        <4>2. IsInjective(page)
          BY <2>7, <4>1, FreshPage
        <4>3. cursor = Nothing => counted.missing = {}
          BY <4>1 DEF Complete
        <4> QED BY <1>2, <2>3, <2>4, <2>5, <2>8, <2>12, <4>1, <4>2, <4>3
      <3> QED BY <3>1 DEF Listed
    <2> QED BY <2>6, <2>9, <2>12, <2>14, <2>15, <2>17, <2>18 DEF LaneInv
  <1>4. ASSUME TestsFail, live' = live, KeptTyped', kept'.init = kept.init, kept'.inited = kept.inited,
               kept'.session = kept.session, kept'.caps = kept.caps
        PROVE  LaneInv'
    <2>1. Forward /\ ~lane'.green
      BY <1>1, <1>4, TestsFailForward
    <2>2. LaneTyped' /\ LiveTyped' /\ lane.item > 2
      BY <1>1, <1>2, <1>4, <2>1, ForwardTyped DEF LiveTyped
    <2>3. SameHandshake
      BY <1>4 DEF SameHandshake
    <2>4. Handshaken'
      BY <1>1, <2>1, <2>2, <2>3, ForwardHandshaken
    <2>5. Exercised' /\ Listed' /\ Subscribed'
      BY <2>1 DEF Exercised, Listed, Subscribed
    <2> QED BY <1>4, <2>2, <2>4, <2>5 DEF LaneInv
  <1>5. CASE TestsFail /\ UNCHANGED <<kept, live>>
    BY <1>1, <1>4, <1>5 DEF KeptTyped
  <1>6. ASSUME TestsFail, live' = live, NEW cursor \in Present.cursors, kept' = Saved(kept, cursor)
        PROVE  LaneInv'
    <2>1. DOMAIN kept' = KeptFields /\ \A f \in KeptFields \ {"next", "first"} : kept'[f] = kept[f]
      BY <1>1, <1>6, SavedProperties DEF KeptTyped
    <2>2. /\ kept'.init = kept.init /\ kept'.inited = kept.inited /\ kept'.session = kept.session
          /\ kept'.caps = kept.caps /\ kept'.subscribed = kept.subscribed /\ kept'.depth = kept.depth
      BY <2>1 DEF KeptFields
    <2>3. KeptTyped'
      BY <1>1, <2>1, <2>2 DEF KeptTyped
    <2> QED BY <1>4, <1>6, <2>2, <2>3
  <1>7. \/ \E page \in Present.pages, cursor \in Present.cursors, formed \in BOOLEAN :
             LET reset == [kept EXCEPT !.seen = {}, !.missing = ToSet(lane.manifest.tools), !.depth = 0, !.first = Nothing]
                 counts == formed /\ Fresh(page, {})
                 counted == IF counts THEN Recorded(reset, page) ELSE reset
             IN  /\ kept' = Saved(counted, cursor)
                 /\ Tested(counts /\ Declares("tools") /\ Complete(counted, cursor))
                 /\ live' = [Serves("tools") EXCEPT !.listed = page, !.cursor = cursor]
        \/ TestsFail /\ UNCHANGED <<kept, live>>
        \/ TestsFail /\ (\E cursor \in Present.cursors : kept' = Saved(kept, cursor)) /\ live' = live
    BY DEF ToolsList
  <1> QED BY <1>3, <1>5, <1>6, <1>7

\* A failed test past the handshake: what the variables say is not relied on.
LEMMA RedStep ==
    ASSUME LaneInv, Forward, ~lane'.green, SameHandshake, KeptTyped', LiveTyped', lane.item > 2
    PROVE  LaneInv'
  <1>1. LaneTyped /\ KeptTyped /\ Handshaken
    BY DEF LaneInv
  <1>2. LaneTyped' /\ Handshaken'
    BY <1>1, ForwardTyped, ForwardHandshaken
  <1>3. Exercised' /\ Listed' /\ Subscribed'
    BY DEF Exercised, Listed, Subscribed
  <1> QED BY <1>2, <1>3 DEF LaneInv

\* What the tests take for declared was declared by the present server.
LEMMA DeclaredIsOffered ==
    ASSUME LaneInv, lane.item > 2, lane.green, NEW feature, Declares(feature)
    PROVE  feature \in live.offers
  <1>1. lane.item \in Nat
    BY DEF LaneInv, LaneTyped
  <1>2. lane.item > 1
    BY <1>1
  <1>3. kept.init
    BY <1>2 DEF LaneInv, Handshaken
  <1>4. kept.caps = live.offers
    BY <1>2, <1>3 DEF LaneInv, Handshaken
  <1>5. live.offers # Unknown
    BY DEF LaneInv, LiveTyped, Capabilities, Unknown, Nothing
  <1> QED BY <1>4, <1>5 DEF Declares

\* A page whose tools are new and whose cursor leads on.
LEMMA CountedPageInv ==
    ASSUME LaneInv, AtItem, Kind = "page", MaySend(Kind),
           NEW page \in Present.pages, NEW cursor,
           Fresh(page, kept.seen),
           NEW counted, counted = [Recorded(kept, page) EXCEPT !.depth = @ + 1],
           kept' = Saved(counted, cursor),
           live' = [live EXCEPT !.listed = @ \o page, !.cursor = cursor],
           Tested(Complete(counted, cursor) /\ ~(Truthy(kept'.next) /\ kept'.depth >= PageProbes))
    PROVE  LaneInv'
  <1>1. LaneTyped /\ KeptTyped /\ LiveTyped /\ Handshaken /\ Exercised /\ Listed /\ Subscribed
    BY DEF LaneInv
  <1>2. /\ PageProbes \in Nat \ {0} /\ lane.item \in 11..10 + PageProbes /\ Truthy(kept.next)
        /\ Present \in ToSet(lane.manifest.servers)
    BY <1>1, KindPlaces, AtItemProperties, LaneAssumption DEF MaySend, Unguarded
  <1>3. IsSeq(page) /\ lane.item \in Nat /\ lane.item > 2 /\ lane.item > 7
    BY <1>1, <1>2 DEF LaneTyped, ParsedManifest
  <1>4. /\ DOMAIN counted = KeptFields /\ counted.depth = kept.depth + 1
        /\ counted.init = kept.init /\ counted.inited = kept.inited /\ counted.session = kept.session
        /\ counted.caps = kept.caps /\ counted.subscribed = kept.subscribed
        /\ counted.seen = kept.seen \cup ToSet(page) /\ counted.missing = kept.missing \ ToSet(page)
    BY <1>1 DEF Recorded, KeptTyped, KeptFields
  <1>5. /\ kept'.next = cursor /\ DOMAIN kept' = KeptFields
        /\ \A f \in KeptFields \ {"next", "first"} : kept'[f] = counted[f]
    BY <1>4, SavedProperties
  <1>6. /\ kept'.depth = kept.depth + 1 /\ kept'.init = kept.init /\ kept'.inited = kept.inited
        /\ kept'.session = kept.session /\ kept'.caps = kept.caps /\ kept'.subscribed = kept.subscribed
        /\ kept'.seen = kept.seen \cup ToSet(page) /\ kept'.missing = kept.missing \ ToSet(page)
    BY <1>4, <1>5 DEF KeptFields
  <1>7. KeptTyped'
    BY <1>1, <1>5, <1>6 DEF KeptTyped
  <1>8. /\ live'.opened = live.opened /\ live'.accepted = live.accepted /\ live'.issued = live.issued
        /\ live'.offers = live.offers /\ live'.used = live.used /\ live'.listed = live.listed \o page
        /\ live'.cursor = cursor /\ live'.subscribed = live.subscribed /\ live'.skipped = live.skipped
        /\ DOMAIN live' = LiveFields
    BY <1>1 DEF LiveTyped, LiveFields
  <1>9. IsSeq(live.listed \o page)
    BY <1>1, <1>3, Joined DEF LiveTyped
  <1>10. LiveTyped'
    BY <1>1, <1>8, <1>9 DEF LiveTyped
  <1> DEFINE pass == Complete(counted, cursor) /\ ~(Truthy(kept'.next) /\ kept'.depth >= PageProbes)
  <1>11. pass \in BOOLEAN /\ Tested(pass)
    BY DEF Complete
  <1> HIDE DEF pass
  <1>12. Forward /\ (lane'.green => pass)
    BY <1>1, <1>11, TestedForward
  <1>13. SameHandshake
    BY <1>6, <1>8 DEF SameHandshake
  <1>14. LaneTyped' /\ Handshaken' /\ Subscribed'
    BY <1>1, <1>3, <1>8, <1>12, <1>13, ForwardTyped, ForwardHandshaken, ForwardUnsubscribed
  <1>15. Exercised'
    BY <1>1, <1>8, <1>12 DEF Exercised, Forward
  <1>16. ASSUME lane'.green
         PROVE  /\ kept'.missing = ToSet(lane'.manifest.tools) \ kept'.seen
                /\ kept'.seen = ToSet(live'.listed)
                /\ IsInjective(live'.listed)
                /\ kept'.next = Nothing => kept'.missing = {}
                /\ Truthy(kept'.next) => /\ lane'.item <= 10 + PageProbes
                                         /\ kept'.depth = lane'.item - 11 /\ ~(lane'.item <= 11)
    <2>1. lane.green /\ lane'.manifest = lane.manifest /\ lane'.item = lane.item + 1
          /\ Complete(counted, cursor) /\ ~(Truthy(kept'.next) /\ kept'.depth >= PageProbes)
      BY <1>12, <1>16 DEF Forward, pass
    <2>2. /\ kept.missing = ToSet(lane.manifest.tools) \ kept.seen
          /\ kept.seen = ToSet(live.listed) /\ IsInjective(live.listed)
          /\ kept.depth = IF lane.item <= 11 THEN 0 ELSE lane.item - 11
      BY <1>1, <1>2, <1>3, <2>1 DEF Listed
    <2>3. IsInjective(page) /\ ToSet(page) \cap kept.seen = {}
      BY <1>3, FreshPage
    <2>4. /\ ToSet(live.listed \o page) = ToSet(live.listed) \cup ToSet(page)
          /\ IsInjective(live.listed \o page)
      BY <1>1, <1>3, <2>2, <2>3, JoinedPages DEF LiveTyped
    <2>5. kept'.missing = ToSet(lane'.manifest.tools) \ kept'.seen
      BY <1>6, <2>1, <2>2
    <2>6. kept'.seen = ToSet(live'.listed) /\ IsInjective(live'.listed)
      BY <1>6, <1>8, <2>2, <2>4
    <2>7. kept'.next = Nothing => kept'.missing = {}
      BY <1>4, <1>5, <1>6, <2>1 DEF Complete
    <2>8. kept.depth = lane.item - 11
      BY <1>2, <2>2
    <2>9. kept'.depth = lane'.item - 11 /\ ~(lane'.item <= 11)
      BY <1>2, <1>6, <2>1, <2>8
    <2>10. ASSUME Truthy(kept'.next) PROVE lane'.item <= 10 + PageProbes
      <3>1. ~(kept'.depth >= PageProbes)
        BY <2>1, <2>10
      <3>2. lane'.item \in Nat
        BY <1>3, <2>1
      <3> QED BY <1>2, <2>9, <3>1, <3>2
    <2> QED BY <2>5, <2>6, <2>7, <2>9, <2>10
  <1>17. Listed'
    BY <1>5, <1>8, <1>16 DEF Listed
  <1> QED BY <1>7, <1>10, <1>14, <1>15, <1>17 DEF LaneInv

LEMMA NextPageInv ==
    ASSUME LaneInv, NextPage
    PROVE  LaneInv'
  <1>1. LaneTyped /\ KeptTyped /\ LiveTyped /\ AtItem /\ Kind = "page" /\ MaySend(Kind)
    BY DEF LaneInv, NextPage, Sending, AtKind, Kind
  <1>2. /\ lane.item \in 11..10 + PageProbes /\ Present \in ToSet(lane.manifest.servers)
        /\ PageProbes \in Nat
    BY <1>1, KindPlaces, AtItemProperties, LaneAssumption
  <1>3. lane.item > 2
    BY <1>2
  <1>4. CASE TestsFail /\ UNCHANGED <<kept, live>>
    <2>1. Forward /\ ~lane'.green
      BY <1>1, <1>4, TestsFailForward
    <2>2. SameHandshake /\ KeptTyped' /\ LiveTyped'
      BY <1>1, <1>4 DEF SameHandshake, KeptTyped, LiveTyped
    <2> QED BY <1>3, <2>1, <2>2, RedStep
  <1>5. ASSUME NEW page \in Present.pages, NEW cursor \in Present.cursors,
               NEW counted, counted = [Recorded(kept, page) EXCEPT !.depth = @ + 1],
               live' = [live EXCEPT !.listed = @ \o page, !.cursor = cursor],
               IF ~Fresh(page, kept.seen) THEN TestsFail /\ UNCHANGED kept
               ELSE IF cursor = kept.next THEN TestsFail /\ kept' = counted
               ELSE /\ kept' = Saved(counted, cursor)
                    /\ Tested(/\ Complete(counted, cursor)
                              /\ ~(Truthy(Saved(counted, cursor).next) /\ Saved(counted, cursor).depth >= PageProbes))
        PROVE  LaneInv'
    <2>1. IsSeq(page)
      BY <1>1, <1>2 DEF LaneTyped, ParsedManifest
    <2>2. /\ live'.opened = live.opened /\ live'.accepted = live.accepted /\ live'.issued = live.issued
          /\ live'.offers = live.offers /\ live'.listed = live.listed \o page
          /\ live'.subscribed = live.subscribed /\ live'.skipped = live.skipped
          /\ DOMAIN live' = LiveFields
      BY <1>1, <1>5 DEF LiveTyped, LiveFields
    <2>3. IsSeq(live.listed \o page)
      BY <1>1, <2>1, Joined DEF LiveTyped
    <2>4. LiveTyped'
      BY <1>1, <2>2, <2>3 DEF LiveTyped
    <2>5. CASE TestsFail /\ UNCHANGED kept
      <3>1. Forward /\ ~lane'.green
        BY <1>1, <2>5, TestsFailForward
      <3>2. SameHandshake /\ KeptTyped'
        BY <1>1, <2>2, <2>5 DEF SameHandshake, KeptTyped
      <3> QED BY <1>3, <2>4, <3>1, <3>2, RedStep
    <2>6. CASE TestsFail /\ kept' = counted
      <3>1. Forward /\ ~lane'.green
        BY <1>1, <2>6, TestsFailForward
      <3>2. /\ DOMAIN counted = KeptFields /\ counted.depth = kept.depth + 1
            /\ counted.init = kept.init /\ counted.inited = kept.inited /\ counted.session = kept.session
            /\ counted.caps = kept.caps /\ counted.subscribed = kept.subscribed
        BY <1>1, <1>5 DEF Recorded, KeptTyped, KeptFields
      <3>3. SameHandshake /\ KeptTyped'
        BY <1>1, <2>2, <2>6, <3>2 DEF SameHandshake, KeptTyped
      <3> QED BY <1>3, <2>4, <3>1, <3>3, RedStep
    <2>7. CASE /\ Fresh(page, kept.seen) /\ kept' = Saved(counted, cursor)
               /\ Tested(/\ Complete(counted, cursor)
                         /\ ~(Truthy(Saved(counted, cursor).next) /\ Saved(counted, cursor).depth >= PageProbes))
      <3>1. Tested(Complete(counted, cursor) /\ ~(Truthy(kept'.next) /\ kept'.depth >= PageProbes))
        BY <2>7
      <3> QED BY <1>1, <1>5, <2>7, <3>1, CountedPageInv
    <2> QED BY <1>5, <2>5, <2>6, <2>7
  <1>6. \/ \E page \in Present.pages, cursor \in Present.cursors :
            LET counted == [Recorded(kept, page) EXCEPT !.depth = @ + 1]
                saved == Saved(counted, cursor)
            IN  /\ live' = [live EXCEPT !.listed = @ \o page, !.cursor = cursor]
                /\ IF ~Fresh(page, kept.seen) THEN TestsFail /\ UNCHANGED kept
                   ELSE IF cursor = kept.next THEN TestsFail /\ kept' = counted
                   ELSE /\ kept' = saved
                        /\ Tested(Complete(counted, cursor) /\ ~(Truthy(saved.next) /\ saved.depth >= PageProbes))
        \/ TestsFail /\ UNCHANGED <<kept, live>>
    BY DEF NextPage
  <1> QED BY <1>4, <1>5, <1>6

LEMMA SubscriptionStep ==
    ASSUME LaneInv, Forward, SameHandshake, SameListing, KeptTyped', LiveTyped', Subscribed',
           Kind \notin {"initialize", "initialized", "tools/list", "page"},
           live'.skipped = live.skipped, lane'.green => live'.used \subseteq live.offers
    PROVE  LaneInv'
  <1>1. LaneTyped /\ KeptTyped /\ Handshaken /\ Exercised /\ Listed /\ AtItem /\ lane.item \in Nat \ {0}
    BY DEF LaneInv, Forward, LaneTyped
  <1>2. lane.item # 1 /\ lane.item # 2 /\ lane.item # 7 /\ lane.item \notin 11..10 + PageProbes
    BY <1>1, KindPlaces
  <1>3. lane.item > 2
    BY <1>1, <1>2
  <1>4. LaneTyped' /\ Handshaken' /\ Listed'
    BY <1>1, <1>2, <1>3, ForwardTyped, ForwardHandshaken, ForwardListed
  <1>5. Exercised'
    BY <1>1 DEF Exercised, Forward, SameHandshake
  <1> QED BY <1>4, <1>5 DEF LaneInv

\* A test of an answer that changes nothing else.
LEMMA ProbeInv ==
    ASSUME LaneInv, AtItem, Forward, UNCHANGED live, KeptTyped', SameHandshake, SameListing,
           Kind \notin {"initialize", "initialized", "tools/list", "page", "unsubscribe"}
    PROVE  LaneInv'
  <1>1. LiveTyped' /\ live'.subscribed = live.subscribed /\ live'.skipped = live.skipped
    BY DEF LaneInv, LiveTyped
  <1>2. lane'.green => live'.used \subseteq live.offers
    BY DEF LaneInv, Exercised, Forward
  <1> QED BY <1>1, <1>2, PlainStep

FeatureKinds == {"resources/list", "prompts/list", "tools/call", "resources/read", "prompts/get", "templates"}
LEMMA FeatureCallInv ==
    ASSUME LaneInv, FeatureCall
    PROVE  LaneInv'
  <1>1. LaneTyped /\ LiveTyped /\ AtItem /\ Kind \in FeatureKinds /\ kept' = kept /\ lane.item \in Nat \ {0}
    BY DEF LaneInv, LaneTyped, FeatureCall, Sending, AtKind, Kind, FeatureKinds
  <1>2. Kind \notin {"initialize", "initialized", "tools/list", "page", "unsubscribe"} /\ KeptTyped'
    BY <1>1 DEF LaneInv, KeptTyped, FeatureKinds
  <1>3. lane.item > 2
    <2>1. lane.item # 1 /\ lane.item # 2
      BY <1>1, <1>2, KindPlaces
    <2> QED BY <1>1, <2>1
  <1> DEFINE feature == FeatureOf(Kind)
  <1>4. \/ Tested(Declares(feature)) /\ live' = Serves(feature)
        \/ Tested(AtKind({"templates"})) /\ UNCHANGED live
    BY DEF FeatureCall, Kind
  <1> HIDE DEF feature
  <1>5. Declares(feature) \in BOOLEAN /\ AtKind({"templates"}) \in BOOLEAN
    BY DEF Declares, AtKind
  <1>6. CASE Tested(Declares(feature)) /\ live' = Serves(feature)
    <2>1. Forward /\ (lane'.green => Declares(feature))
      BY <1>1, <1>5, <1>6, TestedForward
    <2>2. /\ live'.opened = live.opened /\ live'.accepted = live.accepted /\ live'.issued = live.issued
          /\ live'.offers = live.offers /\ live'.used = live.used \cup {feature} /\ live'.listed = live.listed
          /\ live'.cursor = live.cursor /\ live'.subscribed = live.subscribed /\ live'.skipped = live.skipped
          /\ DOMAIN live' = LiveFields
      BY <1>1, <1>6 DEF LiveTyped, LiveFields, Serves
    <2>3. LiveTyped' /\ SameHandshake /\ SameListing
      BY <1>1, <2>2 DEF LiveTyped, SameHandshake, SameListing
    <2>4. ASSUME lane'.green PROVE live'.used \subseteq live.offers
      <3>1. lane.green /\ Declares(feature)
        BY <2>1, <2>4 DEF Forward
      <3>2. feature \in live.offers
        BY <1>3, <3>1, DeclaredIsOffered
      <3>3. live.used \subseteq live.offers
        BY <3>1 DEF LaneInv, Exercised
      <3> QED BY <2>2, <3>2, <3>3
    <2> QED BY <1>2, <2>1, <2>2, <2>3, <2>4, PlainStep
  <1>7. CASE Tested(AtKind({"templates"})) /\ UNCHANGED live
    <2>1. Forward
      BY <1>1, <1>5, <1>7, TestedForward
    <2>2. SameHandshake /\ SameListing
      BY <1>1, <1>7 DEF SameHandshake, SameListing
    <2> QED BY <1>1, <1>2, <1>7, <2>1, <2>2, ProbeInv
  <1> QED BY <1>4, <1>6, <1>7

\* Behind every subscription of a lap its end.
LEMMA NextIsUnsubscribe ==
    ASSUME LaneTyped, AtItem, Forward, Kind = "subscribe"
    PROVE  AtKind({"unsubscribe"})'
  <1>1. /\ lane.stage = "run" /\ Paired(Lap) /\ DOMAIN Lap = 1..Len(Lap) /\ lane.item \in 1..Len(Lap)
        /\ lane.srv \in DOMAIN lane.manifest.servers
    BY AtItemProperties DEF AtItem, Running
  <1>2. lane.item + 1 \in DOMAIN Lap /\ Lap[lane.item + 1].kind = "unsubscribe"
    BY <1>1 DEF Paired, Kind
  <1>3. Lap' = Lap
    BY DEF Lap, Present, Forward
  <1>4. lane'.item = lane.item + 1 /\ lane'.stage = "run" /\ lane'.srv \in DOMAIN lane'.manifest.servers
    BY <1>1 DEF Forward
  <1>5. lane'.item \in DOMAIN Lap' /\ Lap'[lane'.item].kind = "unsubscribe"
    BY <1>2, <1>3, <1>4
  <1> QED BY <1>4, <1>5 DEF AtKind, AtItem, Running

LEMMA SubscribeInv ==
    ASSUME LaneInv, Subscribe
    PROVE  LaneInv'
  <1>1. LaneTyped /\ KeptTyped /\ LiveTyped /\ AtItem /\ Kind = "subscribe" /\ lane.item \in Nat \ {0}
    BY DEF LaneInv, LaneTyped, Subscribe, Sending, AtKind, Kind
  <1>2. Kind \notin {"initialize", "initialized", "tools/list", "page", "unsubscribe"}
    BY <1>1
  <1>3. lane.item > 2
    <2>1. lane.item # 1 /\ lane.item # 2
      BY <1>1, <1>2, KindPlaces
    <2> QED BY <1>1, <2>1
  <1>4. Declares("subscribe") \in BOOLEAN /\ ("subscribe" \notin kept.caps) \in BOOLEAN
    BY DEF Declares
  <1>5. CASE /\ Tested(Declares("subscribe"))
             /\ kept' = [kept EXCEPT !.subscribed = @ \/ Declares("subscribe")]
             /\ live' = [Serves("subscribe") EXCEPT !.subscribed = TRUE]
    <2>1. Forward /\ (lane'.green => Declares("subscribe"))
      BY <1>1, <1>4, <1>5, TestedForward
    <2>2. /\ kept'.init = kept.init /\ kept'.inited = kept.inited /\ kept'.session = kept.session
          /\ kept'.caps = kept.caps /\ kept'.next = kept.next /\ kept'.seen = kept.seen
          /\ kept'.missing = kept.missing /\ kept'.depth = kept.depth
          /\ kept'.subscribed = (kept.subscribed \/ Declares("subscribe")) /\ DOMAIN kept' = KeptFields
      BY <1>1, <1>5 DEF KeptTyped, KeptFields
    <2>3. KeptTyped'
      BY <1>1, <1>4, <2>2 DEF KeptTyped
    <2>4. /\ live'.opened = live.opened /\ live'.accepted = live.accepted /\ live'.issued = live.issued
          /\ live'.offers = live.offers /\ live'.used = live.used \cup {"subscribe"} /\ live'.listed = live.listed
          /\ live'.cursor = live.cursor /\ live'.subscribed = TRUE /\ live'.skipped = live.skipped
          /\ DOMAIN live' = LiveFields
      BY <1>1, <1>5 DEF LiveTyped, LiveFields, Serves
    <2>5. LiveTyped' /\ SameHandshake /\ SameListing
      BY <1>1, <2>2, <2>4 DEF LiveTyped, SameHandshake, SameListing
    <2>6. ASSUME lane'.green PROVE live'.used \subseteq live.offers /\ kept'.subscribed
      <3>1. lane.green /\ Declares("subscribe")
        BY <2>1, <2>6 DEF Forward
      <3>2. "subscribe" \in live.offers
        BY <1>3, <3>1, DeclaredIsOffered
      <3>3. live.used \subseteq live.offers
        BY <3>1 DEF LaneInv, Exercised
      <3> QED BY <2>2, <2>4, <3>1, <3>2, <3>3
    <2>7. Subscribed'
      <3>1. AtKind({"unsubscribe"})'
        BY <1>1, <2>1, NextIsUnsubscribe
      <3> QED BY <2>6, <3>1 DEF Subscribed
    <2> QED BY <1>2, <2>1, <2>3, <2>4, <2>5, <2>6, <2>7, SubscriptionStep
  <1>6. CASE /\ Tested("subscribe" \notin kept.caps)
             /\ kept' = [kept EXCEPT !.subscribed = FALSE] /\ UNCHANGED live
    <2>1. Forward
      BY <1>1, <1>4, <1>6, TestedForward
    <2>2. SameHandshake /\ SameListing /\ KeptTyped' /\ LiveTyped'
      BY <1>1, <1>6 DEF SameHandshake, SameListing, KeptTyped, KeptFields, LiveTyped
    <2>3. ~(lane.green /\ live.subscribed)
      BY <1>1 DEF LaneInv, Subscribed, AtKind, Kind
    <2>4. Subscribed'
      BY <1>6, <2>1, <2>3 DEF Subscribed, Forward
    <2>5. live'.skipped = live.skipped /\ (lane'.green => live'.used \subseteq live.offers)
      BY <1>6, <2>1 DEF LaneInv, Exercised, Forward
    <2> QED BY <1>2, <2>1, <2>2, <2>4, <2>5, SubscriptionStep
  <1>7. CASE TestsFail /\ UNCHANGED <<kept, live>>
    <2>1. Forward
      BY <1>1, <1>7, TestsFailForward
    <2>2. SameHandshake /\ SameListing /\ KeptTyped'
      BY <1>1, <1>7 DEF SameHandshake, SameListing, KeptTyped
    <2> QED BY <1>1, <1>2, <1>7, <2>1, <2>2, ProbeInv
  <1> QED BY <1>5, <1>6, <1>7 DEF Subscribe

LEMMA UnsubscribeInv ==
    ASSUME LaneInv, Unsubscribe
    PROVE  LaneInv'
  <1>1. LaneTyped /\ KeptTyped /\ LiveTyped /\ AtItem /\ Kind = "unsubscribe"
    BY DEF LaneInv, Unsubscribe, Sending, AtKind, Kind
  <1>2. Kind \notin {"initialize", "initialized", "tools/list", "page"} /\ (~kept.subscribed) \in BOOLEAN
    BY <1>1
  <1>3. CASE Tested(TRUE) /\ kept' = [kept EXCEPT !.subscribed = FALSE] /\ live' = [live EXCEPT !.subscribed = FALSE]
    <2>1. Forward
      BY <1>1, <1>3, TestedForward
    <2>2. SameHandshake /\ SameListing /\ KeptTyped' /\ LiveTyped' /\ live'.subscribed = FALSE
          /\ live'.skipped = live.skipped /\ live'.used = live.used
      BY <1>1, <1>3 DEF SameHandshake, SameListing, KeptTyped, KeptFields, LiveTyped, LiveFields
    <2>3. Subscribed' /\ (lane'.green => live'.used \subseteq live.offers)
      BY <2>1, <2>2 DEF LaneInv, Subscribed, Exercised, Forward
    <2> QED BY <1>2, <2>1, <2>2, <2>3, SubscriptionStep
  <1>4. CASE Tested(~kept.subscribed) /\ UNCHANGED <<kept, live>>
    <2>1. Forward /\ (lane'.green => ~kept.subscribed)
      BY <1>1, <1>2, <1>4, TestedForward
    <2>2. SameHandshake /\ SameListing /\ KeptTyped' /\ LiveTyped' /\ live'.skipped = live.skipped
      BY <1>1, <1>4 DEF SameHandshake, SameListing, KeptTyped, LiveTyped
    <2>3. Subscribed'
      BY <1>4, <2>1 DEF LaneInv, Subscribed, Forward
    <2>4. lane'.green => live'.used \subseteq live.offers
      BY <1>4, <2>1 DEF LaneInv, Exercised, Forward
    <2> QED BY <1>2, <2>1, <2>2, <2>3, <2>4, SubscriptionStep
  <1> QED BY <1>3, <1>4 DEF Unsubscribe

PlainKinds == {"no session", "terminate", "old session", "ping", "notification", "client response", "cancelled",
               "listen", "progress", "unauthenticated", "bogus bearer", "resource metadata",
               "replay", "invalid cursor", "bad version"}
LEMMA PlainKindInv ==
    ASSUME LaneInv, AtItem, Kind \in PlainKinds, TestsPass \/ TestsFail, UNCHANGED live,
           kept' = kept \/ \E status : kept' = [kept EXCEPT !.deleted = status]
    PROVE  LaneInv'
  <1>1. LaneTyped /\ KeptTyped
    BY DEF LaneInv
  <1>2. Forward
    BY <1>1, TestsPassForward, TestsFailForward
  <1>3. SameHandshake /\ SameListing /\ KeptTyped'
    BY <1>1 DEF SameHandshake, SameListing, KeptTyped, KeptFields
  <1>4. Kind \notin {"initialize", "initialized", "tools/list", "page", "unsubscribe"}
    BY DEF PlainKinds
  <1> QED BY <1>2, <1>3, <1>4, ProbeInv

LEMMA PlainInv ==
    ASSUME LaneInv, SessionRequired \/ Terminate \/ OldSession \/ FramingProbe \/ StreamProbe \/ WrongProbe
    PROVE  LaneInv'
  <1>1. TestsPass \/ TestsFail
    BY DEF SessionRequired, Terminate, OldSession, FramingProbe, StreamProbe, WrongProbe, PlainProbe, Tested
  <1>2. UNCHANGED live /\ (kept' = kept \/ \E status : kept' = [kept EXCEPT !.deleted = status])
    BY DEF SessionRequired, Terminate, OldSession, FramingProbe, StreamProbe, WrongProbe, PlainProbe
  <1>3. AtItem /\ Kind \in PlainKinds
    BY DEF SessionRequired, Terminate, OldSession, FramingProbe, StreamProbe, WrongProbe, PlainProbe,
           Sending, AtKind, Kind, PlainKinds
  <1> QED BY <1>1, <1>2, <1>3, PlainKindInv

\* The lap over: the next server begins with nothing known of it.
LEMMA NextServerInv ==
    ASSUME LaneInv, NextServer
    PROVE  LaneInv'
  <1>1. LaneTyped /\ Running /\ ~AtItem /\ kept' = kept /\ live' = live
    BY DEF LaneInv, NextServer
  <1>2. ~(lane.green /\ live.subscribed)
    BY <1>1 DEF LaneInv, Subscribed, AtKind
  <1>3. /\ IsSeq(lane.manifest.servers) /\ Len(lane.manifest.servers) \in Nat
        /\ lane.stage = "run" /\ lane.srv \in 1..Len(lane.manifest.servers)
        /\ DOMAIN lane.manifest.servers = 1..Len(lane.manifest.servers)
    <2>1. IsSeq(lane.manifest.servers)
      BY <1>1 DEF LaneTyped, ParsedManifest
    <2> QED BY <1>1, <2>1, IsSeqLen DEF Running
  <1>4. KeptTyped' /\ LiveTyped'
    BY <1>1 DEF LaneInv, KeptTyped, LiveTyped
  <1>5. CASE lane.srv = Len(lane.manifest.servers)
    <2>1. lane' = [lane EXCEPT !.stage = "done"]
      BY <1>5 DEF NextServer
    <2>2. /\ lane'.stage = "done" /\ lane'.manifest = lane.manifest /\ lane'.srv = lane.srv
          /\ lane'.item = lane.item /\ lane'.green = lane.green /\ DOMAIN lane' = LaneFields
      BY <1>1, <2>1 DEF LaneTyped, LaneFields
    <2>3. LaneTyped'
      BY <1>1, <2>2 DEF LaneTyped
    <2>4. Handshaken' /\ Exercised' /\ Listed' /\ Subscribed'
      BY <1>1, <1>2, <2>2 DEF LaneInv, Handshaken, Exercised, Listed, Subscribed
    <2> QED BY <1>4, <2>3, <2>4 DEF LaneInv
  <1>6. CASE lane.srv # Len(lane.manifest.servers)
    <2>1. lane' = [lane EXCEPT !.srv = @ + 1, !.item = 1]
      BY <1>6 DEF NextServer
    <2>2. /\ lane'.stage = lane.stage /\ lane'.manifest = lane.manifest /\ lane'.srv = lane.srv + 1
          /\ lane'.item = 1 /\ lane'.green = lane.green /\ DOMAIN lane' = LaneFields
      BY <1>1, <2>1 DEF LaneTyped, LaneFields
    <2>3. lane.srv + 1 \in 1..Len(lane.manifest.servers) /\ lane.srv + 1 \in Nat \ {0}
      BY <1>3, <1>6
    <2>4. LaneTyped'
      BY <1>1, <1>3, <2>2, <2>3 DEF LaneTyped
    <2>5. Handshaken' /\ Listed'
      BY <2>2 DEF Handshaken, Listed
    <2>6. Exercised' /\ Subscribed'
      BY <1>1, <1>2, <2>2 DEF LaneInv, Exercised, Subscribed
    <2> QED BY <1>4, <2>4, <2>5, <2>6 DEF LaneInv
  <1> QED BY <1>5, <1>6

LEMMA LaneInvStep ==
    ASSUME LaneInv, [LaneNext]_laneVars
    PROVE  LaneInv'
  <1>1. CASE UNCHANGED laneVars
    BY <1>1 DEF laneVars, LaneInv, LaneTyped, KeptTyped, LiveTyped, Handshaken, Exercised, Listed, Subscribed,
                AtKind, AtItem, Running, Lap, Present
  <1> QED BY <1>1, InstrumentMcpInv, SkipRequestInv, InitializeInv, InitializedInv, ToolsListInv, NextPageInv,
             FeatureCallInv, SubscribeInv, UnsubscribeInv, PlainInv, NextServerInv
          DEF LaneNext

\* Whatever the servers of a manifest answer, a run of its contract collection
\* speaks to each server under a handshake of its own, and passes only a
\* server that was exercised and listed every declared tool.
THEOREM LaneSafe == LaneSpec => []McpLaneIsSafe
  <1>1. LaneSpec => []LaneInv
    BY LaneInitInv, LaneInvStep, PTL DEF LaneSpec
  <1> QED BY <1>1, LaneInvIsSafe, PTL
-----------------------------------------------------------------------------
(* The documents of the protocols and the operations in them.              *)
Document(d) ==
    /\ d.protocol \in {"grpc", "graphql", "soap"}
    /\ d.services \in Seq(Seq(OperationsIn(d)))
    /\ \A p, q \in PlacesIn(d) : OperationAt(d, p) = OperationAt(d, q) => p = q
    /\ d.protocol = "grpc" =>
          /\ \A o \in OperationsIn(d) : o.stream \in {"unary", "client", "server", "bidi"}
          /\ \A m \in DOMAIN d.messages : \A f \in d.messages[m] : f = [name |-> f.name, type |-> f.type]
    /\ d.protocol = "graphql" =>
          /\ Len(d.services) = 1 /\ IsFiniteSet(DOMAIN d.types)
          /\ \A o, p \in OperationsIn(d) : o.key = p.key => o = p
    /\ d.protocol = "soap" =>
          \A o \in OperationsIn(d) : o.version \in {"1.1", "1.2"} /\ o.pattern \in {"reply", "one-way", "in-only"}

LEMMA Documents == \A d \in Contracts : Document(d)
  BY ContractAssumption DEF Document

\* A set of naturals that is bounded and not empty has a greatest element; one
\* that is not empty has a least.
LEMMA LeastOf ==
    ASSUME NEW T \in SUBSET Nat, T # {}
    PROVE  \E x \in T : \A y \in T : x <= y
  <1> DEFINE R == OpToRel(<, Nat)
  <1>1. \A x, y \in Nat : <<y, x>> \in R <=> y < x
    BY DEF OpToRel
  <1>2. IsWellFoundedOn(R, Nat)
    BY NatLessThanWellFounded
  <1> HIDE DEF R
  <1>3. PICK x \in T : \A y \in T : ~(<<y, x>> \in R)
    BY <1>2, WFMin
  <1>4. \A y \in T : ~(y < x)
    BY <1>1, <1>3
  <1>5. \A y \in T : x <= y
    BY <1>4
  <1> QED BY <1>5

LEMMA GreatestOf ==
    ASSUME NEW n \in Nat, NEW T \in SUBSET (0..n), T # {}
    PROVE  \E x \in T : \A y \in T : y <= x
  <1> DEFINE gaps == {n - x : x \in T}
  <1>0. \A x \in T : x \in Nat /\ n - x \in Nat
    OBVIOUS
  <1>1. gaps \in SUBSET Nat /\ gaps # {}
    BY <1>0
  <1>2. PICK g \in gaps : \A h \in gaps : g <= h
    BY <1>1, LeastOf
  <1>3. PICK x \in T : g = n - x
    OBVIOUS
  <1>4. \A y \in T : y <= x
    <2> TAKE y \in T
    <2>1. n - x <= n - y
      BY <1>2, <1>3
    <2> QED BY <1>0, <2>1
  <1> QED BY <1>4

LEMMA PlaceIn ==
    ASSUME NEW d, Document(d)
    PROVE  /\ IsSeq(d.services) /\ Len(d.services) \in Nat /\ DOMAIN d.services = 1..Len(d.services)
           /\ \A s \in 1..Len(d.services) :
                 /\ IsSeq(d.services[s]) /\ Len(d.services[s]) \in Nat
                 /\ DOMAIN d.services[s] = 1..Len(d.services[s])
           /\ \A p \in PlacesIn(d) :
                 /\ p[1] \in 1..Len(d.services) /\ p[2] \in 1..Len(d.services[p[1]])
                 /\ p = <<p[1], p[2]>> /\ OperationAt(d, p) \in OperationsIn(d)
           /\ \A s \in 1..Len(d.services) : \A k \in 1..Len(d.services[s]) : <<s, k>> \in PlacesIn(d)
  <1>1. d.services \in Seq(Seq(OperationsIn(d)))
    BY DEF Document
  <1>2. IsSeq(d.services) /\ Len(d.services) \in Nat /\ DOMAIN d.services = 1..Len(d.services)
    BY <1>1, SeqIsSeq
  <1>3. \A s \in 1..Len(d.services) : d.services[s] \in Seq(OperationsIn(d))
    BY <1>1, <1>2, ElementOfSeq
  <1>4. \A s \in 1..Len(d.services) :
            /\ IsSeq(d.services[s]) /\ Len(d.services[s]) \in Nat
            /\ DOMAIN d.services[s] = 1..Len(d.services[s])
    BY <1>3, SeqIsSeq
  <1>5. ASSUME NEW p \in PlacesIn(d)
        PROVE  /\ p[1] \in 1..Len(d.services) /\ p[2] \in 1..Len(d.services[p[1]])
               /\ p = <<p[1], p[2]>> /\ OperationAt(d, p) \in OperationsIn(d)
    <2>1. PICK s \in DOMAIN d.services : \E k \in DOMAIN d.services[s] : p = <<s, k>>
      BY <1>5, Zenon DEF PlacesIn
    <2>2. PICK k \in DOMAIN d.services[s] : p = <<s, k>>
      BY <2>1
    <2>3. p[1] = s /\ p[2] = k
      BY <2>2
    <2>4. OperationAt(d, p) \in OperationsIn(d)
      BY <1>5, Zenon DEF OperationsIn
    <2> QED BY <1>2, <1>4, <2>2, <2>3, <2>4
  <1>6. ASSUME NEW s \in 1..Len(d.services), NEW k \in 1..Len(d.services[s])
        PROVE  <<s, k>> \in PlacesIn(d)
    <2>1. s \in DOMAIN d.services /\ k \in DOMAIN d.services[s]
      BY <1>2, <1>4
    <2>2. \E t \in DOMAIN d.services : <<s, k>> \in {<<t, j>> : j \in DOMAIN d.services[t]}
      BY <2>1
    <2> QED BY <2>2, Zenon DEF PlacesIn
  <1> QED BY <1>2, <1>4, <1>5, <1>6

LEMMA LastIsNamed ==
    ASSUME NEW d, Document(d), NEW key, PlacesNamed(d, key) # {}
    PROVE  \E p \in PlacesIn(d) : LastNamed(d, key) = OperationAt(d, p) /\ OperationAt(d, p).key = key
  <1> DEFINE named == PlacesNamed(d, key)
             folders == {p[1] : p \in named}
  <1>1. named \subseteq PlacesIn(d) /\ \A p \in named : OperationAt(d, p).key = key
    BY DEF PlacesNamed
  <1>2. Len(d.services) \in Nat /\ \A p \in named : p[1] \in 1..Len(d.services) /\ p[2] \in 1..Len(d.services[p[1]])
    BY <1>1, PlaceIn
  <1>3. folders \in SUBSET (0..Len(d.services)) /\ folders # {}
    BY <1>2
  <1>4. PICK s \in folders : \A t \in folders : t <= s
    BY <1>2, <1>3, GreatestOf
  <1> DEFINE items == {p[2] : p \in {q \in named : q[1] = s}}
  <1>5. s \in 1..Len(d.services) /\ Len(d.services[s]) \in Nat
    BY <1>2, <1>3, PlaceIn
  <1>6. items \in SUBSET (0..Len(d.services[s])) /\ items # {}
    BY <1>2, <1>5
  <1>7. PICK k \in items : \A j \in items : j <= k
    BY <1>5, <1>6, GreatestOf
  <1>8. PICK p \in named : p[1] = s /\ p[2] = k
    BY <1>7
  <1>9. \A q \in named : NotAfter(q, p)
    <2> TAKE q \in named
    <2>1. q[1] \in folders /\ q[1] <= s /\ q[1] \in Nat /\ s \in Nat
      BY <1>2, <1>4, <1>5
    <2>2. q[1] = s => q[2] \in items /\ q[2] <= k
      BY <1>7
    <2>3. q[1] < s \/ (q[1] = s /\ q[2] <= k)
      BY <2>1, <2>2
    <2> QED BY <1>8, <2>3 DEF NotAfter
  <1> DEFINE last == CHOOSE q \in named : \A r \in named : NotAfter(r, q)
  <1>10. last \in named
    BY <1>9
  <1>11. LastNamed(d, key) = OperationAt(d, last)
    BY Zenon DEF LastNamed
  <1> HIDE DEF last, named
  <1> QED BY <1>1, <1>10, <1>11

(***************************************************************************)
(* The items of a collection.                                              *)
(***************************************************************************)
IsProbe(item) == item = ProbeItem(item.key)
ItemOf(d, n, item) == \E p \in PlacesIn(d) : p[1] <= n /\ item = OperationItem(OperationAt(d, p))
\* The items of the first n services: one for each operation, and probes.
Whole(d, items, n) ==
    /\ IsSeq(items)
    /\ \A k \in DOMAIN items : IsProbe(items[k]) \/ ItemOf(d, n, items[k])
    /\ \A p \in PlacesIn(d) : p[1] <= n => \E k \in DOMAIN items : items[k] = OperationItem(OperationAt(d, p))
    /\ \A j, k \in DOMAIN items : items[j] = items[k] /\ items[j].kind = "operation" => j = k
\* The items of one service.
FolderItems(d, s, items) ==
    /\ IsSeq(items)
    /\ \A k \in DOMAIN items :
          IsProbe(items[k]) \/ (k \in 1..Len(d.services[s]) /\ items[k] = OperationItem(d.services[s][k]))
    /\ \A k \in 1..Len(d.services[s]) : k \in DOMAIN items /\ items[k] = OperationItem(d.services[s][k])

LEMMA ItemFields ==
    /\ \A o : OperationItem(o).kind = "operation" /\ OperationItem(o).key = o.key /\ OperationItem(o).op = o
    /\ \A item : IsProbe(item) => item.kind = "probe"
    /\ \A key : IsProbe(ProbeItem(key))
  BY DEF OperationItem, ProbeItem, IsProbe

LEMMA ItemsDiffer == \A o, p : OperationItem(o) = OperationItem(p) => o = p
  <1> TAKE o, p
  <1> HAVE OperationItem(o) = OperationItem(p)
  <1>1. OperationItem(o).op = OperationItem(p).op
    OBVIOUS
  <1> QED BY <1>1, ItemFields

LEMMA ItemsOfService ==
    ASSUME NEW d, Document(d), NEW s \in 1..Len(d.services)
    PROVE  FolderItems(d, s, ItemsOf(d.services[s]))
  <1> DEFINE operations == d.services[s]
             items == ItemsOf(operations)
  <1>1. Len(operations) \in Nat /\ DOMAIN operations = 1..Len(operations)
    BY PlaceIn
  <1>2. items = [k \in 1..Len(operations) |-> OperationItem(operations[k])]
    BY <1>1, Zenon DEF ItemsOf
  <1>3. \A k \in 1..Len(operations) : items[k] = OperationItem(operations[k])
    BY <1>2
  <1>4. items \in [1..Len(operations) -> {OperationItem(operations[k]) : k \in 1..Len(operations)}]
    BY <1>2
  <1> HIDE DEF items
  <1>5. IsSeq(items) /\ Len(items) = Len(operations)
    BY <1>1, <1>4, Tabulated, Zenon
  <1>6. DOMAIN items = 1..Len(operations)
    BY <1>5, IsSeqLen, Zenon
  <1> QED BY <1>3, <1>5, <1>6 DEF FolderItems, items

LEMMA ProbesFollow ==
    ASSUME NEW d, Document(d), NEW s \in 1..Len(d.services), NEW items, FolderItems(d, s, items),
           NEW probes, IsSeq(probes), \A k \in DOMAIN probes : IsProbe(probes[k])
    PROVE  FolderItems(d, s, items \o probes)
  <1> DEFINE all == items \o probes
  <1>1. IsSeq(items) /\ Len(items) \in Nat /\ DOMAIN items = 1..Len(items)
    BY IsSeqLen DEF FolderItems
  <1>2. Len(probes) \in Nat /\ DOMAIN probes = 1..Len(probes)
    BY IsSeqLen
  <1>3. /\ IsSeq(all) /\ Len(all) = Len(items) + Len(probes)
        /\ \A k \in 1..Len(items) : all[k] = items[k]
        /\ \A k \in 1..Len(all) : k > Len(items) => k - Len(items) \in 1..Len(probes) /\ all[k] = probes[k - Len(items)]
    BY <1>1, Joined, ZenonT(40)
  <1>4. DOMAIN all = 1..Len(all)
    BY <1>3, IsSeqLen, Zenon
  <1> HIDE DEF all
  <1>5. ASSUME NEW k \in DOMAIN all
        PROVE  IsProbe(all[k]) \/ (k \in 1..Len(d.services[s]) /\ all[k] = OperationItem(d.services[s][k]))
    <2>1. CASE k <= Len(items)
      <3>1. k \in 1..Len(items) /\ all[k] = items[k]
        BY <1>1, <1>2, <1>3, <1>4, <1>5, <2>1
      <3> QED BY <1>1, <3>1 DEF FolderItems
    <2>2. CASE k > Len(items)
      BY <1>2, <1>3, <1>4, <2>2
    <2> QED BY <1>1, <1>2, <1>3, <1>4, <2>1, <2>2
  <1>6. ASSUME NEW k \in 1..Len(d.services[s])
        PROVE  k \in DOMAIN all /\ all[k] = OperationItem(d.services[s][k])
    <2>1. k \in DOMAIN items /\ items[k] = OperationItem(d.services[s][k])
      BY DEF FolderItems
    <2> QED BY <1>1, <1>2, <1>3, <1>4, <2>1
  <1>7. IsSeq(all) /\ FolderItems(d, s, all)
    BY <1>3, <1>5, <1>6 DEF FolderItems
  <1> QED BY <1>7 DEF all

\* Sequences of probes.
LEMMA NoProbe == IsSeq(<<>>) /\ \A k \in DOMAIN <<>> : IsProbe(<<>>[k])
  <1>1. <<>> \in Seq({}) /\ DOMAIN <<>> = {}
    OBVIOUS
  <1> QED BY <1>1, SeqIsSeq, Zenon

LEMMA OneProbe ==
    ASSUME NEW a
    PROVE  IsSeq(<<ProbeItem(a)>>) /\ \A k \in DOMAIN <<ProbeItem(a)>> : IsProbe(<<ProbeItem(a)>>[k])
  <1>1. <<ProbeItem(a)>> \in Seq({ProbeItem(a)})
    OBVIOUS
  <1>2. \A k \in DOMAIN <<ProbeItem(a)>> : <<ProbeItem(a)>>[k] = ProbeItem(a)
    OBVIOUS
  <1> QED BY <1>1, <1>2, SeqIsSeq, ItemFields, Zenon

LEMMA ThreeProbes ==
    ASSUME NEW a, NEW b, NEW c
    PROVE  LET s == <<ProbeItem(a), ProbeItem(b), ProbeItem(c)>>
           IN  IsSeq(s) /\ \A k \in DOMAIN s : IsProbe(s[k])
  <1> DEFINE s == <<ProbeItem(a), ProbeItem(b), ProbeItem(c)>>
  <1>1. s \in Seq({ProbeItem(a), ProbeItem(b), ProbeItem(c)})
    OBVIOUS
  <1>2. \A k \in DOMAIN s : s[k] \in {ProbeItem(a), ProbeItem(b), ProbeItem(c)}
    OBVIOUS
  <1>3. IsSeq(s)
    BY <1>1, SeqIsSeq, Zenon
  <1> HIDE DEF s
  <1>4. IsSeq(s) /\ \A k \in DOMAIN s : IsProbe(s[k])
    BY <1>2, <1>3, ItemFields
  <1> QED BY <1>4 DEF s

LEMMA ServiceIsFolder ==
    ASSUME NEW d, Document(d), NEW s \in 1..Len(d.services)
    PROVE  FolderItems(d, s, ServiceItems(d, d.services[s]))
  <1> DEFINE soap12 == d.protocol = "soap" /\ \E k \in DOMAIN d.services[s] : d.services[s][k].version = "1.2"
  <1>1. ServiceItems(d, d.services[s]) =
            ItemsOf(d.services[s]) \o (IF soap12 THEN <<ProbeItem(MediaProbe)>> ELSE <<>>)
    BY Zenon DEF ServiceItems
  <1> HIDE DEF soap12
  <1>2. CASE soap12
    <2>1. ServiceItems(d, d.services[s]) = ItemsOf(d.services[s]) \o <<ProbeItem(MediaProbe)>>
      BY <1>1, <1>2, Zenon
    <2> QED BY <2>1, ItemsOfService, OneProbe, ProbesFollow, Zenon
  <1>3. CASE ~soap12
    <2>1. ServiceItems(d, d.services[s]) = ItemsOf(d.services[s]) \o <<>>
      BY <1>1, <1>3, Zenon
    <2> QED BY <2>1, ItemsOfService, NoProbe, ProbesFollow, Zenon
  <1> QED BY <1>2, <1>3

LEMMA GraphqlIsFolder ==
    ASSUME NEW d, Document(d), d.protocol = "graphql"
    PROVE  1 \in 1..Len(d.services) /\ Len(d.services) = 1 /\ FolderItems(d, 1, GraphqlItems(d))
  <1> DEFINE plain == ItemsOf(d.services[1])
             three == <<ProbeItem("introspection"), ProbeItem("invalid document"), ProbeItem("malformed json")>>
             mutation == IF \E o \in OperationsIn(d) : o.kind = "mutation" THEN <<ProbeItem("get mutation")>> ELSE <<>>
             federation == IF d.federated THEN <<ProbeItem("federation")>> ELSE <<>>
  <1>0. Len(d.services) = 1
    BY Zenon DEF Document
  <1>1. Len(d.services) = 1 /\ 1 \in 1..Len(d.services)
    BY <1>0
  <1>2. GraphqlItems(d) = ((plain \o three) \o mutation) \o federation
    BY Zenon DEF GraphqlItems
  <1>3. IsSeq(mutation) /\ \A k \in DOMAIN mutation : IsProbe(mutation[k])
    BY NoProbe, OneProbe, Zenon
  <1>4. IsSeq(federation) /\ \A k \in DOMAIN federation : IsProbe(federation[k])
    BY NoProbe, OneProbe, Zenon
  <1>5. IsSeq(three) /\ \A k \in DOMAIN three : IsProbe(three[k])
    BY ThreeProbes
  <1>6. FolderItems(d, 1, plain)
    BY <1>1, ItemsOfService
  <1> HIDE DEF plain, three, mutation, federation
  <1>7. FolderItems(d, 1, plain \o three)
    BY <1>1, <1>5, <1>6, ProbesFollow, Zenon
  <1>8. FolderItems(d, 1, (plain \o three) \o mutation)
    BY <1>1, <1>3, <1>7, ProbesFollow, Zenon
  <1>9. FolderItems(d, 1, ((plain \o three) \o mutation) \o federation)
    BY <1>1, <1>4, <1>8, ProbesFollow, Zenon
  <1> QED BY <1>1, <1>2, <1>9, Zenon

LEMMA WholeAtFirst ==
    ASSUME NEW d, Document(d)
    PROVE  Whole(d, <<>>, 0)
  <1>1. \A p \in PlacesIn(d) : ~(p[1] <= 0)
    BY PlaceIn
  <1>2. DOMAIN <<>> = {}
    OBVIOUS
  <1> QED BY <1>1, <1>2, NoProbe, Zenon DEF Whole

LEMMA WholeAndFolder ==
    ASSUME NEW d, Document(d), NEW n \in Nat, n + 1 \in 1..Len(d.services), NEW items, Whole(d, items, n),
           NEW part, FolderItems(d, n + 1, part)
    PROVE  Whole(d, items \o part, n + 1)
  <1> DEFINE all == items \o part
             s == n + 1
  <1>1. IsSeq(items) /\ Len(items) \in Nat /\ DOMAIN items = 1..Len(items)
    BY IsSeqLen DEF Whole
  <1>2. IsSeq(part) /\ Len(part) \in Nat /\ DOMAIN part = 1..Len(part)
    BY IsSeqLen DEF FolderItems
  <1>3. /\ IsSeq(all) /\ Len(all) = Len(items) + Len(part)
        /\ \A k \in 1..Len(items) : all[k] = items[k]
        /\ \A k \in 1..Len(part) : all[Len(items) + k] = part[k]
        /\ \A k \in 1..Len(all) : k > Len(items) => k - Len(items) \in 1..Len(part) /\ all[k] = part[k - Len(items)]
    <2>1. IsSeq(all) /\ Len(all) = Len(items) + Len(part)
      BY <1>1, <1>2, Joined, Zenon
    <2>2. \A k \in 1..Len(items) : all[k] = items[k]
      BY <1>1, <1>2, Joined, ZenonT(40)
    <2>3. \A k \in 1..Len(all) : k > Len(items) => k - Len(items) \in 1..Len(part) /\ all[k] = part[k - Len(items)]
      BY <1>1, <1>2, Joined, Zenon
    <2>4. \A k \in 1..Len(part) : all[Len(items) + k] = part[k]
      <3> HIDE DEF all
      <3> TAKE k \in 1..Len(part)
      <3>1. Len(items) + k \in 1..Len(all) /\ Len(items) + k > Len(items) /\ (Len(items) + k) - Len(items) = k
        BY <1>1, <1>2, <2>1
      <3>2. all[Len(items) + k] = part[(Len(items) + k) - Len(items)]
        BY <2>3, <3>1
      <3> QED BY <3>1, <3>2
    <2> QED BY <2>1, <2>2, <2>3, <2>4
  <1>4. DOMAIN all = 1..Len(all)
    BY <1>3, IsSeqLen, Zenon
  <1>5. s \in Nat /\ s \in 1..Len(d.services) /\ Len(d.services[s]) \in Nat
    BY PlaceIn
  <1>6. \A p \in PlacesIn(d) : p[1] \in Nat /\ p[2] \in 1..Len(d.services[p[1]]) /\ p = <<p[1], p[2]>>
    BY PlaceIn
  <1>7. \A k \in 1..Len(d.services[s]) : <<s, k>> \in PlacesIn(d) /\ OperationAt(d, <<s, k>>) = d.services[s][k]
    BY <1>5, PlaceIn DEF OperationAt
  <1> HIDE DEF all, s
  \* what stands behind the old items
  <1>8. ASSUME NEW k \in 1..Len(part)
        PROVE  \/ IsProbe(part[k])
               \/ k \in 1..Len(d.services[s]) /\ part[k] = OperationItem(OperationAt(d, <<s, k>>))
    <2>1. IsProbe(part[k]) \/ (k \in 1..Len(d.services[s]) /\ part[k] = OperationItem(d.services[s][k]))
      BY <1>2 DEF FolderItems, s
    <2> QED BY <1>7, <2>1
  <1>9. ASSUME NEW k \in DOMAIN all
        PROVE  IsProbe(all[k]) \/ ItemOf(d, s, all[k])
    <2>1. CASE k <= Len(items)
      <3>1. k \in DOMAIN items /\ all[k] = items[k]
        BY <1>1, <1>2, <1>3, <1>4, <1>9, <2>1
      <3>2. IsProbe(items[k]) \/ ItemOf(d, n, items[k])
        BY <3>1 DEF Whole
      <3>3. \A p \in PlacesIn(d) : p[1] <= n => p[1] <= s
        BY <1>6 DEF s
      <3> QED BY <3>1, <3>2, <3>3, Zenon DEF ItemOf
    <2>2. CASE k > Len(items)
      <3>1. k - Len(items) \in 1..Len(part) /\ all[k] = part[k - Len(items)]
        BY <1>3, <1>4, <1>9, <2>2
      <3> DEFINE j == k - Len(items)
      <3>2. j \in 1..Len(part) /\ all[k] = part[j]
        BY <3>1
      <3> HIDE DEF j
      <3>3. CASE IsProbe(part[j])
        BY <3>2, <3>3
      <3>4. CASE j \in 1..Len(d.services[s]) /\ part[j] = OperationItem(OperationAt(d, <<s, j>>))
        <4>1. <<s, j>> \in PlacesIn(d) /\ <<s, j>>[1] <= s
          BY <1>5, <1>7, <3>4
        <4> QED BY <3>2, <3>4, <4>1, Zenon DEF ItemOf
      <3> QED BY <1>8, <3>2, <3>3, <3>4
    <2> QED BY <1>1, <1>2, <1>3, <1>4, <2>1, <2>2
  <1>10. ASSUME NEW p \in PlacesIn(d), p[1] <= s
         PROVE  \E k \in DOMAIN all : all[k] = OperationItem(OperationAt(d, p))
    <2>1. CASE p[1] <= n
      <3>1. PICK k \in DOMAIN items : items[k] = OperationItem(OperationAt(d, p))
        BY <2>1, Zenon DEF Whole
      <3>2. k \in DOMAIN all /\ all[k] = items[k]
        BY <1>1, <1>2, <1>3, <1>4, <3>1
      <3> QED BY <3>1, <3>2
    <2>2. CASE ~(p[1] <= n)
      <3>1. p[1] = s
        BY <1>6, <1>10, <2>2 DEF s
      <3>2. p[2] \in 1..Len(d.services[s]) /\ p = <<s, p[2]>>
        BY <1>6, <3>1
      <3>3. p[2] \in DOMAIN part /\ part[p[2]] = OperationItem(d.services[s][p[2]])
        BY <3>2 DEF FolderItems, s
      <3>4. part[p[2]] = OperationItem(OperationAt(d, p))
        BY <1>7, <3>2, <3>3
      <3>5. Len(items) + p[2] \in DOMAIN all /\ all[Len(items) + p[2]] = part[p[2]]
        BY <1>1, <1>2, <1>3, <1>4, <3>3
      <3> QED BY <3>4, <3>5
    <2> QED BY <2>1, <2>2
  \* an operation of the new service is none of the old items
  <1>11. ASSUME NEW j \in DOMAIN all, NEW k \in DOMAIN all, all[j] = all[k], all[j].kind = "operation", j <= Len(items)
         PROVE  j = k
    <2>1. j \in DOMAIN items /\ all[j] = items[j]
      BY <1>1, <1>2, <1>3, <1>4, <1>11
    <2>2. CASE k <= Len(items)
      <3>1. k \in DOMAIN items /\ all[k] = items[k]
        BY <1>1, <1>2, <1>3, <1>4, <2>2
      <3> QED BY <1>11, <2>1, <3>1, Zenon DEF Whole
    <2>3. CASE k > Len(items)
      <3> DEFINE i == k - Len(items)
      <3>1. i \in 1..Len(part) /\ all[k] = part[i]
        BY <1>3, <1>4, <2>3
      <3> HIDE DEF i
      <3>2. part[i].kind = "operation" /\ items[j] = part[i]
        BY <1>11, <2>1, <3>1
      <3>3. i \in 1..Len(d.services[s]) /\ part[i] = OperationItem(OperationAt(d, <<s, i>>))
        BY <1>8, <3>1, <3>2, ItemFields
      <3>4. ~IsProbe(items[j])
        BY <3>2, ItemFields
      <3>5. PICK p \in PlacesIn(d) : p[1] <= n /\ items[j] = OperationItem(OperationAt(d, p))
        BY <2>1, <3>4, Zenon DEF Whole, ItemOf
      <3>6. OperationAt(d, p) = OperationAt(d, <<s, i>>)
        <4>1. OperationItem(OperationAt(d, p)) = OperationItem(OperationAt(d, <<s, i>>))
          BY <3>2, <3>3, <3>5
        <4> QED BY <4>1, ItemsDiffer, Zenon
      <3>7. p = <<s, i>>
        BY <1>7, <3>3, <3>6, Zenon DEF Document
      <3>8. p[1] = n + 1
        BY <3>7 DEF s
      <3> QED BY <1>6, <3>5, <3>8
    <2>4. k \in Nat
      BY <1>1, <1>2, <1>3, <1>4
    <2> QED BY <1>1, <2>2, <2>3, <2>4
  <1>12. ASSUME NEW j \in DOMAIN all, NEW k \in DOMAIN all, all[j] = all[k], all[j].kind = "operation"
         PROVE  j = k
    <2>1. CASE j <= Len(items)
      BY <1>11, <1>12, <2>1
    <2>2. CASE k <= Len(items)
      BY <1>11, <1>12, <2>2
    <2>3. CASE ~(j <= Len(items)) /\ ~(k <= Len(items))
      <3>0. j \in 1..Len(all) /\ k \in 1..Len(all) /\ j > Len(items) /\ k > Len(items)
        BY <1>1, <1>2, <1>3, <1>4, <2>3
      <3> DEFINE i == j - Len(items)
                 l == k - Len(items)
      <3>1. i \in 1..Len(part) /\ all[j] = part[i]
        BY <1>3, <3>0
      <3>2. l \in 1..Len(part) /\ all[k] = part[l]
        BY <1>3, <3>0
      <3>3. i = l => j = k
        BY <1>1, <3>0
      <3> HIDE DEF i, l
      <3>4. ~IsProbe(part[i]) /\ ~IsProbe(part[l])
        BY <1>12, <3>1, <3>2, ItemFields
      <3>5. i \in 1..Len(d.services[s]) /\ part[i] = OperationItem(OperationAt(d, <<s, i>>))
        BY <1>8, <3>1, <3>4
      <3>6. l \in 1..Len(d.services[s]) /\ part[l] = OperationItem(OperationAt(d, <<s, l>>))
        BY <1>8, <3>2, <3>4
      <3>7. OperationAt(d, <<s, i>>) = OperationAt(d, <<s, l>>)
        <4>1. OperationItem(OperationAt(d, <<s, i>>)) = OperationItem(OperationAt(d, <<s, l>>))
          BY <1>12, <3>1, <3>2, <3>5, <3>6
        <4> QED BY <4>1, ItemsDiffer, Zenon
      <3>8. <<s, i>> = <<s, l>>
        BY <1>7, <3>5, <3>6, <3>7, Zenon DEF Document
      <3> QED BY <3>3, <3>8
    <2> QED BY <2>1, <2>2, <2>3
  <1> QED BY <1>3, <1>9, <1>10, <1>12, Zenon DEF Whole, all, s

\* Item k and no other is that of an operation.
OnlyAt(items, k, o) == \A j \in DOMAIN items : items[j] = OperationItem(o) <=> j = k

\* The items of a collection of all services.
LEMMA WholeIsSound ==
    ASSUME NEW d, Document(d), NEW items, NEW n, Whole(d, items, n)
    PROVE  \A k \in DOMAIN items : IsProbe(items[k]) \/ \E o \in OperationsIn(d) : items[k] = OperationItem(o)
  <1>1. \A p \in PlacesIn(d) : OperationAt(d, p) \in OperationsIn(d)
    BY PlaceIn
  <1> QED BY <1>1, Zenon DEF Whole, ItemOf

\* A collection of all services: each operation has an item and only one.
LEMMA WholeIsComplete ==
    ASSUME NEW d, Document(d), NEW items, Whole(d, items, Len(d.services)), NEW o \in OperationsIn(d)
    PROVE  \E k \in DOMAIN items : items[k] = OperationItem(o) /\ OnlyAt(items, k, o)
  <1>1. PICK p \in PlacesIn(d) : o = OperationAt(d, p)
    BY Zenon DEF OperationsIn
  <1>2. p[1] <= Len(d.services)
    BY PlaceIn
  <1>3. PICK k \in DOMAIN items : items[k] = OperationItem(o)
    BY <1>1, <1>2, Zenon DEF Whole
  <1>4. \A j \in DOMAIN items : items[j] = OperationItem(o) => j = k
    BY <1>3, ItemFields, Zenon DEF Whole
  <1> QED BY <1>3, <1>4 DEF OnlyAt
-----------------------------------------------------------------------------
(***************************************************************************)
(* The scripts of a collection.                                            *)
(***************************************************************************)
SoundItems(d, items) ==
    /\ IsSeq(items)
    /\ \A k \in DOMAIN items : IsProbe(items[k]) \/ \E o \in OperationsIn(d) : items[k] = OperationItem(o)
WithinLimit(d, scripts) ==
    d.protocol # "soap" => \A k \in DOMAIN scripts : scripts[k].kind = "operation" => ~scripts[k].op.over
KeysApart(d, scripts) ==
    d.protocol = "grpc" => \A j, k \in DOMAIN scripts :
        scripts[j].kind = "operation" /\ scripts[k].kind = "operation" /\ scripts[j].op.key = scripts[k].op.key => j = k
Scripted(d, items, scripts) ==
    /\ IsSeq(scripts)
    /\ Len(scripts) <= Len(items)
    /\ \A k \in DOMAIN scripts : scripts[k] = ScriptOf(d, items[k])
    /\ WithinLimit(d, scripts) /\ KeysApart(d, scripts)

LEMMA WholeIsSoundItems ==
    ASSUME NEW d, Document(d), NEW items, NEW n, Whole(d, items, n)
    PROVE  SoundItems(d, items)
  <1>1. IsSeq(items)
    BY DEF Whole
  <1> QED BY <1>1, WholeIsSound, Zenon DEF SoundItems

LEMMA ScriptOfProbe ==
    ASSUME NEW d, NEW item, IsProbe(item)
    PROVE  ScriptOf(d, item) = ProbeScript /\ ScriptOf(d, item).kind = "probe" /\ item.kind = "probe"
  <1>1. item.kind = "probe"
    BY ItemFields
  <1>2. ProbeScript.kind = "probe"
    BY DEF ProbeScript
  <1> QED BY <1>1, <1>2 DEF ScriptOf

LEMMA ScriptOfOperation ==
    ASSUME NEW d, Document(d), NEW o \in OperationsIn(d)
    PROVE  /\ ScriptOf(d, OperationItem(o)).kind = "operation"
           /\ ScriptOf(d, OperationItem(o)).op = LastNamed(d, o.key)
           /\ LastNamed(d, o.key) \in OperationsIn(d) /\ LastNamed(d, o.key).key = o.key
  <1> DEFINE item == OperationItem(o)
  <1>1. item.kind = "operation" /\ item.key = o.key
    BY ItemFields
  <1>2. PICK p \in PlacesIn(d) : o = OperationAt(d, p)
    BY Zenon DEF OperationsIn
  <1>3. PlacesNamed(d, o.key) # {}
    BY <1>2 DEF PlacesNamed
  <1>4. PICK q \in PlacesIn(d) : LastNamed(d, o.key) = OperationAt(d, q) /\ OperationAt(d, q).key = o.key
    BY <1>3, LastIsNamed
  <1>5. LastNamed(d, o.key) \in OperationsIn(d) /\ LastNamed(d, o.key).key = o.key
    BY <1>4, PlaceIn
  <1> HIDE DEF item
  <1>6. ScriptOf(d, item) = [kind |-> "operation", op |-> LastNamed(d, o.key)]
    BY <1>1, <1>3 DEF ScriptOf
  <1>7. ScriptOf(d, item).kind = "operation" /\ ScriptOf(d, item).op = LastNamed(d, o.key)
    BY <1>6
  <1> QED BY <1>5, <1>7 DEF item

\* The script of a sound item is of its kind and of an operation of its key.
LEMMA ScriptFits ==
    ASSUME NEW d, Document(d), NEW item, IsProbe(item) \/ \E o \in OperationsIn(d) : item = OperationItem(o)
    PROVE  LET script == ScriptOf(d, item)
           IN  /\ item.kind \in {"probe", "operation"} /\ script.kind = item.kind
               /\ item.kind = "operation" =>
                     /\ item.op \in OperationsIn(d) /\ item = OperationItem(item.op)
                     /\ script.op \in OperationsIn(d) /\ script.op.key = item.op.key
                     /\ script.op = LastNamed(d, item.op.key)
  <1>1. CASE IsProbe(item)
    BY <1>1, ScriptOfProbe
  <1>2. CASE \E o \in OperationsIn(d) : item = OperationItem(o)
    <2>1. PICK o \in OperationsIn(d) : item = OperationItem(o)
      BY <1>2
    <2>2. item.kind = "operation" /\ item.op = o
      BY <2>1, ItemFields
    <2> QED BY <2>1, <2>2, ScriptOfOperation
  <1> QED BY <1>1, <1>2

\* The next item that is given its script.
LEMMA NextScript ==
    ASSUME NEW d, Document(d), NEW items, SoundItems(d, items), NEW scripts, Scripted(d, items, scripts),
           Len(scripts) < Len(items)
    PROVE  /\ Len(scripts) \in Nat /\ DOMAIN scripts = 1..Len(scripts)
           /\ Len(items) \in Nat /\ DOMAIN items = 1..Len(items)
           /\ Len(scripts) + 1 \in DOMAIN items
           /\ \A k \in DOMAIN scripts : k \in DOMAIN items /\ k # Len(scripts) + 1
  <1>1. Len(scripts) \in Nat /\ DOMAIN scripts = 1..Len(scripts)
    BY IsSeqLen DEF Scripted
  <1>2. Len(items) \in Nat /\ DOMAIN items = 1..Len(items)
    BY IsSeqLen DEF SoundItems
  <1> QED BY <1>1, <1>2

LEMMA ScriptAppended ==
    ASSUME NEW d, Document(d), NEW items, SoundItems(d, items), NEW scripts, Scripted(d, items, scripts),
           Len(scripts) < Len(items),
           ~Refuses(d, ScriptOf(d, items[Len(scripts) + 1]), scripts)
    PROVE  Scripted(d, items, Append(scripts, ScriptOf(d, items[Len(scripts) + 1])))
  <1> DEFINE n == Len(scripts)
             script == ScriptOf(d, items[n + 1])
             all == Append(scripts, script)
  <1>1. n \in Nat /\ DOMAIN scripts = 1..n /\ Len(items) \in Nat /\ n < Len(items)
    BY NextScript
  <1>2. scripts \in Seq(ToSet(scripts) \cup {script})
    BY SeqMonotonic, Zenon DEF Scripted, IsSeq
  <1>3. all \in Seq(ToSet(scripts) \cup {script}) /\ Len(all) = n + 1
        /\ \A k \in 1..n : all[k] = scripts[k]
    BY <1>2, AppendProperties
  <1>4. all[n + 1] = script
    BY <1>2, AppendProperties
  <1>5. IsSeq(all) /\ DOMAIN all = 1..(n + 1)
    <2>1. IsSeq(all)
      BY <1>3, SeqIsSeq, Zenon
    <2> HIDE DEF all
    <2> QED BY <1>3, <2>1, IsSeqLen
  <1>6. \A k \in DOMAIN scripts : scripts[k] = ScriptOf(d, items[k])
    BY DEF Scripted
  <1>7. /\ script.kind = "operation" /\ d.protocol = "grpc" => script.op.key \notin CoveredKeys(scripts)
        /\ script.kind = "operation" /\ d.protocol # "soap" => ~script.op.over
    <2>1. d.protocol \in {"grpc", "graphql", "soap"}
      BY DEF Document
    <2> QED BY <2>1, Zenon DEF Refuses
  <1> HIDE DEF n, script, all
  <1>8. \A k \in 1..(n + 1) : (k \in 1..n /\ all[k] = scripts[k]) \/ (k = n + 1 /\ all[k] = script)
    BY <1>1, <1>3, <1>4
  <1>9. \A k \in DOMAIN all : all[k] = ScriptOf(d, items[k])
    BY <1>1, <1>5, <1>6, <1>8 DEF script
  <1>10. WithinLimit(d, all)
    <2>1. WithinLimit(d, scripts)
      BY DEF Scripted
    <2> QED BY <1>1, <1>5, <1>7, <1>8, <2>1 DEF WithinLimit
  <1>11. KeysApart(d, all)
    <2> SUFFICES ASSUME d.protocol = "grpc", NEW j \in DOMAIN all, NEW k \in DOMAIN all,
                        all[j].kind = "operation", all[k].kind = "operation", all[j].op.key = all[k].op.key
                 PROVE  j = k
      BY DEF KeysApart
    <2>1. \A i \in 1..n : scripts[i].kind = "operation" /\ script.kind = "operation" => scripts[i].op.key # script.op.key
      <3> TAKE i \in 1..n
      <3> HAVE scripts[i].kind = "operation" /\ script.kind = "operation"
      <3>1. scripts[i].op.key \in CoveredKeys(scripts)
        BY <1>1 DEF CoveredKeys
      <3> QED BY <1>7, <3>1
    <2>2. CASE j \in 1..n /\ k \in 1..n /\ all[j] = scripts[j] /\ all[k] = scripts[k]
      BY <1>1, <2>2 DEF Scripted, KeysApart
    <2> QED BY <1>1, <1>5, <1>8, <2>1, <2>2
  <1> QED BY <1>1, <1>3, <1>5, <1>9, <1>10, <1>11 DEF Scripted, n, script, all

\* What a gRPC or GraphQL collection refuses at an item.
LEMMA ScriptRefused ==
    ASSUME NEW d, Document(d), NEW items, Whole(d, items, Len(d.services)), NEW scripts, Scripted(d, items, scripts),
           Len(scripts) < Len(items),
           Refuses(d, ScriptOf(d, items[Len(scripts) + 1]), scripts)
    PROVE  \/ d.protocol = "grpc" /\ \E o, p \in OperationsIn(d) : o # p /\ o.key = p.key
           \/ d.protocol # "soap" /\ \E o \in OperationsIn(d) : o.over
  <1> DEFINE n == Len(scripts) + 1
             script == ScriptOf(d, items[n])
  <1>1. SoundItems(d, items)
    BY WholeIsSoundItems
  <1>2. n \in DOMAIN items /\ \A k \in DOMAIN scripts : k \in DOMAIN items /\ k # n
    BY <1>1, NextScript
  <1> HIDE DEF n
  <1>3. \A k \in DOMAIN items : IsProbe(items[k]) \/ \E o \in OperationsIn(d) : items[k] = OperationItem(o)
    BY <1>1 DEF SoundItems
  <1>4. script.kind = "operation"
    BY DEF Refuses, n
  <1>5. /\ items[n].kind = "operation" /\ items[n].op \in OperationsIn(d) /\ items[n] = OperationItem(items[n].op)
        /\ script.op \in OperationsIn(d) /\ script.op.key = items[n].op.key
    BY <1>2, <1>3, <1>4, ScriptFits
  <1>6. CASE d.protocol = "grpc" /\ script.op.key \in CoveredKeys(scripts)
    <2>1. PICK k \in DOMAIN scripts : scripts[k].kind = "operation" /\ scripts[k].op.key = script.op.key
      BY <1>6 DEF CoveredKeys
    <2>2. k \in DOMAIN items /\ k # n /\ scripts[k] = ScriptOf(d, items[k])
      BY <1>2 DEF Scripted
    <2>3. /\ items[k].kind = "operation" /\ items[k].op \in OperationsIn(d) /\ items[k] = OperationItem(items[k].op)
          /\ scripts[k].op.key = items[k].op.key
      BY <1>3, <2>1, <2>2, ScriptFits
    <2>4. items[k] # items[n]
      BY <1>2, <2>2, <2>3, Zenon DEF Whole
    <2>5. items[k].op # items[n].op
      BY <1>5, <2>3, <2>4
    <2> QED BY <1>5, <1>6, <2>1, <2>3, <2>5
  <1>7. CASE d.protocol \in {"grpc", "graphql"} /\ script.op.over
    BY <1>5, <1>7
  <1>8. Refuses(d, script, scripts)
    BY DEF n
  <1> HIDE DEF script
  <1> QED BY <1>6, <1>7, <1>8, Zenon DEF Refuses

\* Every operation of a collection whose items all have scripts is covered.
LEMMA AllCovered ==
    ASSUME NEW d, Document(d), NEW items, Whole(d, items, Len(d.services)), NEW scripts, Scripted(d, items, scripts),
           Len(scripts) = Len(items), NEW o \in OperationsIn(d)
    PROVE  o.key \in CoveredKeys(scripts)
  <1>1. PICK k \in DOMAIN items : items[k] = OperationItem(o)
    BY WholeIsComplete, Zenon
  <1>2. DOMAIN scripts = DOMAIN items
    <2>1. DOMAIN scripts = 1..Len(scripts)
      BY IsSeqLen DEF Scripted
    <2>2. DOMAIN items = 1..Len(items)
      BY IsSeqLen DEF Whole
    <2> QED BY <2>1, <2>2
  <1>3. scripts[k] = ScriptOf(d, OperationItem(o))
    BY <1>1, <1>2 DEF Scripted
  <1>4. scripts[k].kind = "operation" /\ scripts[k].op.key = o.key
    BY <1>3, ScriptOfOperation
  <1> QED BY <1>2, <1>4 DEF CoveredKeys

\* The operation whose tests an item of a finished gRPC or GraphQL collection carries is its own.
LEMMA OwnScript ==
    ASSUME NEW d, Document(d), d.protocol # "soap", NEW items, Whole(d, items, Len(d.services)),
           NEW scripts, Scripted(d, items, scripts), Len(scripts) = Len(items),
           NEW k \in DOMAIN items, items[k].kind = "operation"
    PROVE  scripts[k].op = items[k].op
  <1>1. DOMAIN scripts = DOMAIN items
    <2>1. DOMAIN scripts = 1..Len(scripts)
      BY IsSeqLen DEF Scripted
    <2>2. DOMAIN items = 1..Len(items)
      BY IsSeqLen DEF Whole
    <2> QED BY <2>1, <2>2
  <1>2. \A i \in DOMAIN items : IsProbe(items[i]) \/ \E o \in OperationsIn(d) : items[i] = OperationItem(o)
    BY WholeIsSound
  <1>3. \A i \in DOMAIN items : scripts[i] = ScriptOf(d, items[i])
    BY <1>1 DEF Scripted
  <1> DEFINE o == items[k].op
             p == scripts[k].op
  <1>4. o \in OperationsIn(d) /\ p \in OperationsIn(d) /\ p.key = o.key /\ scripts[k].kind = "operation"
        /\ scripts[k].op.key = p.key /\ items[k].op = o
    BY <1>2, <1>3, ScriptFits
  <1> HIDE DEF o, p
  <1>5. CASE d.protocol = "graphql"
    BY <1>4, <1>5, Zenon DEF Document, o, p
  <1>6. CASE d.protocol = "grpc"
    <2>1. PICK j \in DOMAIN items : items[j] = OperationItem(p)
      BY <1>4, WholeIsComplete, Zenon
    <2>2. scripts[j].kind = "operation" /\ scripts[j].op.key = p.key /\ items[j].op = p
      BY <1>3, <1>4, <2>1, ScriptOfOperation, ItemFields
    <2>3. j = k
      BY <1>1, <1>4, <1>6, <2>2 DEF Scripted, KeysApart
    <2> QED BY <1>4, <2>2, <2>3 DEF o, p
  <1> QED BY <1>4, <1>5, <1>6 DEF Document, o, p
-----------------------------------------------------------------------------
(***************************************************************************)
(* The invariant of the build of a collection and of the call of an item.  *)
(***************************************************************************)
ContractFields == {"stage", "doc", "folder", "items", "scripts"}
Refusal(d) ==
    \/ d.protocol = "grpc" /\ \E o, p \in OperationsIn(d) : o # p /\ o.key = p.key
    \/ d.protocol # "soap" /\ \E o \in OperationsIn(d) : o.over
    \/ d.protocol = "grpc" /\ d.large
    \/ d.protocol = "graphql" /\ \E o \in OperationsIn(d) : Endless(d, o)
ContractTyped ==
    /\ DOMAIN contract = ContractFields
    /\ contract.doc \in Contracts
    /\ contract.stage \in {"build", "inject", "done", "refused"}
    /\ SoundItems(contract.doc, contract.items)
    /\ Scripted(contract.doc, contract.items, contract.scripts)
Built ==
    /\ contract.stage = "build" =>
          /\ contract.folder \in 0..Len(contract.doc.services)
          /\ Whole(contract.doc, contract.items, contract.folder)
          /\ contract.scripts = <<>>
    /\ contract.stage \in {"inject", "done"} =>
          Whole(contract.doc, contract.items, Len(contract.doc.services))
    /\ contract.stage = "done" => Len(contract.scripts) = Len(contract.items)
    /\ contract.stage = "refused" => Refusal(contract.doc)
Called ==
    call # Uncalled =>
        /\ contract.stage = "done"
        /\ call.at \in DOMAIN contract.items
        /\ call.answer \in Answers(contract.doc, contract.items[call.at])
        /\ call.failed = FailedTests(contract.doc, contract.items[call.at], contract.scripts[call.at], call.answer)
ContractInv == ContractTyped /\ Built /\ Called

LEMMA NoScript ==
    ASSUME NEW d, NEW items, IsSeq(items)
    PROVE  Scripted(d, items, <<>>)
  <1>1. Len(<<>>) <= Len(items) /\ DOMAIN <<>> = {}
    <2>1. Len(items) \in Nat
      BY IsSeqLen
    <2> QED BY <2>1
  <1>2. IsSeq(<<>>)
    BY NoProbe
  <1> QED BY <1>1, <1>2, Zenon DEF Scripted, WithinLimit, KeysApart

LEMMA ContractsInitInv == ContractsInit => ContractInv
  <1> SUFFICES ASSUME ContractsInit PROVE ContractInv
    OBVIOUS
  <1>1. PICK d \in Contracts : contract = FreshContract(d)
    BY DEF ContractsInit
  <1>2. /\ DOMAIN contract = ContractFields /\ contract.stage = "build" /\ contract.doc = d
        /\ contract.folder = 0 /\ contract.items = <<>> /\ contract.scripts = <<>>
    BY <1>1 DEF FreshContract, ContractFields
  <1>3. Document(d) /\ Len(d.services) \in Nat
    BY Documents, PlaceIn
  <1>4. Whole(d, <<>>, 0) /\ SoundItems(d, <<>>) /\ Scripted(d, <<>>, <<>>)
    BY <1>3, WholeAtFirst, WholeIsSoundItems, NoScript, NoProbe, Zenon
  <1>5. ContractTyped
    BY <1>2, <1>4 DEF ContractTyped
  <1>6. Built
    BY <1>2, <1>3, <1>4 DEF Built
  <1>7. Called
    BY DEF ContractsInit, Called
  <1> QED BY <1>5, <1>6, <1>7 DEF ContractInv

LEMMA BuildGraphqlItemsInv ==
    ASSUME ContractInv, BuildGraphqlItems
    PROVE  ContractInv'
  <1> DEFINE d == contract.doc
  <1>1. contract.stage = "build" /\ d.protocol = "graphql" /\ call' = call /\ call = Uncalled /\ ContractTyped /\ Built
    BY DEF BuildGraphqlItems, ContractInv, Called
  <1>2. d \in Contracts /\ Document(d)
    BY <1>1, Documents DEF ContractTyped
  <1>3. Called'
    BY <1>1 DEF Called
  <1>4. CASE \E o \in OperationsIn(d) : Endless(d, o)
    <2>1. contract' = [contract EXCEPT !.stage = "refused"]
      BY <1>4, Zenon DEF BuildGraphqlItems
    <2>2. /\ DOMAIN contract' = ContractFields /\ contract'.stage = "refused" /\ contract'.doc = d
          /\ contract'.items = contract.items /\ contract'.scripts = contract.scripts
      BY <1>1, <2>1 DEF ContractTyped, ContractFields
    <2>3. ContractTyped'
      BY <1>1, <2>2 DEF ContractTyped
    <2>4. Refusal(d)
      BY <1>1, <1>4, Zenon DEF Refusal
    <2>5. Built'
      BY <2>2, <2>4 DEF Built
    <2> QED BY <1>3, <2>3, <2>5 DEF ContractInv
  <1>5. CASE ~\E o \in OperationsIn(d) : Endless(d, o)
    <2>1. contract' = [contract EXCEPT !.stage = "inject", !.items = GraphqlItems(d)]
      BY <1>5, Zenon DEF BuildGraphqlItems
    <2>2. /\ DOMAIN contract' = ContractFields /\ contract'.stage = "inject" /\ contract'.doc = d
          /\ contract'.items = GraphqlItems(d) /\ contract'.scripts = contract.scripts
      BY <1>1, <2>1 DEF ContractTyped, ContractFields
    <2>3. contract.scripts = <<>>
      BY <1>1 DEF Built
    <2>4. Len(d.services) = 1 /\ 1 \in 1..Len(d.services) /\ FolderItems(d, 1, GraphqlItems(d))
      BY <1>1, <1>2, GraphqlIsFolder
    <2>5. Whole(d, GraphqlItems(d), 1)
      <3>1. Whole(d, <<>>, 0)
        BY <1>2, WholeAtFirst
      <3>2. Whole(d, <<>> \o GraphqlItems(d), 0 + 1)
        <4>1. 0 \in Nat /\ 0 + 1 = 1
          OBVIOUS
        <4>2. 0 + 1 \in 1..Len(d.services) /\ FolderItems(d, 0 + 1, GraphqlItems(d))
          BY <2>4, <4>1
        <4> QED BY <1>2, <3>1, <4>1, <4>2, WholeAndFolder, Zenon
      <3>3. <<>> \o GraphqlItems(d) = GraphqlItems(d)
        BY <2>4, ConcatEmptySeq, Zenon DEF FolderItems, IsSeq
      <3> QED BY <3>2, <3>3
    <2>6. SoundItems(d, GraphqlItems(d)) /\ Scripted(d, GraphqlItems(d), <<>>)
      BY <1>2, <2>5, WholeIsSoundItems, NoScript, Zenon DEF Whole
    <2>7. ContractTyped'
      BY <1>1, <1>2, <2>2, <2>3, <2>6 DEF ContractTyped
    <2>8. Built'
      BY <2>2, <2>4, <2>5 DEF Built
    <2> QED BY <1>3, <2>7, <2>8 DEF ContractInv
  <1> QED BY <1>4, <1>5

LEMMA BuildFolderInv ==
    ASSUME ContractInv, BuildFolder
    PROVE  ContractInv'
  <1> DEFINE d == contract.doc
  <1>1. contract.stage = "build" /\ call' = call /\ call = Uncalled /\ ContractTyped /\ Built
    BY DEF BuildFolder, ContractInv, Called
  <1>2. d \in Contracts /\ Document(d) /\ Len(d.services) \in Nat
    BY <1>1, Documents, PlaceIn DEF ContractTyped
  <1>3. Called'
    BY <1>1 DEF Called
  <1>4. contract.folder \in 0..Len(d.services) /\ Whole(d, contract.items, contract.folder) /\ contract.scripts = <<>>
    BY <1>1 DEF Built
  <1>5. CASE contract.folder = Len(d.services)
    <2>1. contract' = [contract EXCEPT !.stage = "inject"]
      BY <1>5, Zenon DEF BuildFolder
    <2>2. /\ DOMAIN contract' = ContractFields /\ contract'.stage = "inject" /\ contract'.doc = d
          /\ contract'.items = contract.items /\ contract'.scripts = contract.scripts
      BY <1>1, <2>1 DEF ContractTyped, ContractFields
    <2>3. ContractTyped'
      BY <1>1, <2>2 DEF ContractTyped
    <2>4. Built'
      BY <1>4, <1>5, <2>2 DEF Built
    <2> QED BY <1>3, <2>3, <2>4 DEF ContractInv
  <1>6. CASE contract.folder # Len(d.services)
    <2> DEFINE n == contract.folder
               items == contract.items \o ServiceItems(d, d.services[n + 1])
    <2>1. contract' = [contract EXCEPT !.folder = @ + 1, !.items = @ \o ServiceItems(d, d.services[contract.folder + 1])]
      BY <1>6, Zenon DEF BuildFolder
    <2>2. /\ DOMAIN contract' = ContractFields /\ contract'.stage = "build" /\ contract'.doc = d
          /\ contract'.folder = n + 1 /\ contract'.items = items /\ contract'.scripts = contract.scripts
      BY <1>1, <2>1 DEF ContractTyped, ContractFields
    <2>3. n \in Nat /\ n + 1 \in 1..Len(d.services) /\ n + 1 \in 0..Len(d.services)
      BY <1>2, <1>4, <1>6
    <2>4. Whole(d, items, n + 1)
      BY <1>2, <1>4, <2>3, ServiceIsFolder, WholeAndFolder, Zenon
    <2> HIDE DEF n, items
    <2>5. SoundItems(d, items) /\ Scripted(d, items, <<>>)
      BY <1>2, <2>4, WholeIsSoundItems, NoScript, Zenon DEF Whole
    <2>6. ContractTyped'
      BY <1>2, <1>4, <2>2, <2>5 DEF ContractTyped
    <2>7. Built'
      BY <1>4, <2>2, <2>3, <2>4 DEF Built
    <2> QED BY <1>3, <2>6, <2>7 DEF ContractInv
  <1> QED BY <1>5, <1>6

LEMMA InjectItemInv ==
    ASSUME ContractInv, InjectItem
    PROVE  ContractInv'
  <1> DEFINE d == contract.doc
             script == ScriptOf(d, contract.items[Len(contract.scripts) + 1])
  <1>1. contract.stage = "inject" /\ call' = call /\ call = Uncalled /\ ContractTyped /\ Built
        /\ Len(contract.scripts) < Len(contract.items)
    BY DEF InjectItem, ContractInv, Called
  <1>2. d \in Contracts /\ Document(d)
    BY <1>1, Documents DEF ContractTyped
  <1>3. Called'
    BY <1>1 DEF Called
  <1>4. /\ Whole(d, contract.items, Len(d.services)) /\ SoundItems(d, contract.items)
        /\ Scripted(d, contract.items, contract.scripts)
    BY <1>1 DEF Built, ContractTyped
  <1>5. CASE Refuses(d, script, contract.scripts)
    <2>1. contract' = [contract EXCEPT !.stage = "refused"]
      BY <1>5, Zenon DEF InjectItem
    <2>2. /\ DOMAIN contract' = ContractFields /\ contract'.stage = "refused" /\ contract'.doc = d
          /\ contract'.items = contract.items /\ contract'.scripts = contract.scripts
      BY <1>1, <2>1 DEF ContractTyped, ContractFields
    <2>3. ContractTyped'
      BY <1>1, <2>2 DEF ContractTyped
    <2>4. Refusal(d)
      BY <1>1, <1>2, <1>4, <1>5, ScriptRefused, Zenon DEF Refusal
    <2>5. Built'
      BY <2>2, <2>4 DEF Built
    <2> QED BY <1>3, <2>3, <2>5 DEF ContractInv
  <1>6. CASE ~Refuses(d, script, contract.scripts)
    <2>1. contract' = [contract EXCEPT !.scripts = Append(@, script)]
      BY <1>6, Zenon DEF InjectItem
    <2>2. /\ DOMAIN contract' = ContractFields /\ contract'.stage = "inject" /\ contract'.doc = d
          /\ contract'.items = contract.items /\ contract'.scripts = Append(contract.scripts, script)
      BY <1>1, <2>1 DEF ContractTyped, ContractFields
    <2>3. Scripted(d, contract.items, Append(contract.scripts, script))
      BY <1>1, <1>2, <1>4, <1>6, ScriptAppended, Zenon
    <2> HIDE DEF script
    <2>4. ContractTyped'
      BY <1>2, <1>4, <2>2, <2>3 DEF ContractTyped
    <2>5. Built'
      BY <1>4, <2>2 DEF Built
    <2> QED BY <1>3, <2>4, <2>5 DEF ContractInv
  <1> QED BY <1>5, <1>6

LEMMA FinishInstrumentationInv ==
    ASSUME ContractInv, FinishInstrumentation
    PROVE  ContractInv'
  <1> DEFINE d == contract.doc
             missing == {o \in OperationsIn(d) : o.key \notin CoveredKeys(contract.scripts)}
             large == d.protocol = "grpc" /\ d.large
             stage == IF missing # {} \/ large THEN "refused" ELSE "done"
  <1>1. contract.stage = "inject" /\ call' = call /\ call = Uncalled /\ ContractTyped /\ Built
        /\ Len(contract.scripts) = Len(contract.items)
    BY DEF FinishInstrumentation, ContractInv, Called
  <1>2. d \in Contracts /\ Document(d)
    BY <1>1, Documents DEF ContractTyped
  <1>3. Called'
    BY <1>1 DEF Called
  <1>4. Whole(d, contract.items, Len(d.services)) /\ Scripted(d, contract.items, contract.scripts)
    BY <1>1 DEF Built, ContractTyped
  <1>5. missing = {}
    BY <1>1, <1>2, <1>4, AllCovered, Zenon
  <1>6. contract' = [contract EXCEPT !.stage = stage]
    BY Zenon DEF FinishInstrumentation
  <1> HIDE DEF missing
  <1>7. (stage = "refused" /\ large) \/ stage = "done"
    BY <1>5
  <1> HIDE DEF stage
  <1>8. /\ DOMAIN contract' = ContractFields /\ contract'.stage = stage /\ contract'.doc = d
        /\ contract'.items = contract.items /\ contract'.scripts = contract.scripts
    BY <1>1, <1>6 DEF ContractTyped, ContractFields
  <1>9. ContractTyped'
    BY <1>1, <1>7, <1>8 DEF ContractTyped
  <1>10. large => Refusal(d)
    BY Zenon DEF Refusal
  <1>11. Built'
    BY <1>1, <1>4, <1>7, <1>8, <1>10 DEF Built
  <1> QED BY <1>3, <1>9, <1>11 DEF ContractInv

LEMMA SendItemInv ==
    ASSUME ContractInv, SendItem
    PROVE  ContractInv'
  <1>1. contract.stage = "done" /\ contract' = contract
    BY DEF SendItem
  <1>2. PICK k \in DOMAIN contract.items : \E a \in Answers(contract.doc, contract.items[k]) :
            call' = [at |-> k, answer |-> a,
                     failed |-> FailedTests(contract.doc, contract.items[k], contract.scripts[k], a)]
    BY DEF SendItem
  <1>3. PICK a \in Answers(contract.doc, contract.items[k]) :
            call' = [at |-> k, answer |-> a,
                     failed |-> FailedTests(contract.doc, contract.items[k], contract.scripts[k], a)]
    BY <1>2
  <1>4. /\ call'.at = k /\ call'.answer = a
        /\ call'.failed = FailedTests(contract.doc, contract.items[k], contract.scripts[k], a)
    BY <1>3
  <1>5. Called'
    BY <1>1, <1>4 DEF Called
  <1>6. ContractTyped' /\ Built'
    BY <1>1 DEF ContractInv, ContractTyped, Built
  <1> QED BY <1>5, <1>6 DEF ContractInv

LEMMA ContractInvStep ==
    ASSUME ContractInv, [ContractsNext]_contractVars
    PROVE  ContractInv'
  <1>1. CASE UNCHANGED contractVars
    BY <1>1 DEF contractVars, ContractInv, ContractTyped, Built, Called
  <1> QED BY <1>1, BuildGraphqlItemsInv, BuildFolderInv, InjectItemInv, FinishInstrumentationInv, SendItemInv
          DEF ContractsNext

(***************************************************************************)
(* What the invariant says of the collection.                              *)
(***************************************************************************)
LEMMA ContractInvWhole == ContractInv => CollectionIsWhole
  <1> SUFFICES ASSUME ContractInv PROVE CollectionIsWhole
    OBVIOUS
  <1> DEFINE d == contract.doc
             items == contract.items
  <1>1. Document(d) /\ Built
    BY Documents DEF ContractInv, ContractTyped
  <1>2. ASSUME contract.stage = "done", NEW o \in OperationsIn(d)
        PROVE  \E k \in DOMAIN items : \A j \in DOMAIN items : items[j] = OperationItem(o) <=> j = k
    <2>1. Whole(d, items, Len(d.services))
      BY <1>1, <1>2 DEF Built
    <2> HIDE DEF d, items
    <2>2. PICK k \in DOMAIN items : OnlyAt(items, k, o)
      BY <1>1, <2>1, WholeIsComplete, Zenon
    <2> QED BY <2>2, Zenon DEF OnlyAt
  <1>3. contract.stage = "refused" => Refusal(d)
    BY <1>1 DEF Built
  <1> QED BY <1>2, <1>3, Zenon DEF CollectionIsWhole, Refusal

LEMMA ContractInvOwn == ContractInv => ScriptsAreOwn
  <1> SUFFICES ASSUME ContractInv PROVE ScriptsAreOwn
    OBVIOUS
  <1> DEFINE d == contract.doc
             items == contract.items
             scripts == contract.scripts
  <1>1. Document(d) /\ Built /\ SoundItems(d, items) /\ Scripted(d, items, scripts)
    BY Documents DEF ContractInv, ContractTyped
  <1>2. \A k \in DOMAIN scripts : k \in DOMAIN items
    <2>1. DOMAIN scripts = 1..Len(scripts) /\ Len(scripts) \in Nat /\ Len(scripts) <= Len(items)
      BY <1>1, IsSeqLen DEF Scripted
    <2>2. DOMAIN items = 1..Len(items) /\ Len(items) \in Nat
      BY <1>1, IsSeqLen DEF SoundItems
    <2> QED BY <2>1, <2>2
  <1> DEFINE OwnAt(item, script) ==
                 /\ script.kind = item.kind
                 /\ item.kind = "operation" =>
                       /\ script.op \in OperationsIn(d) /\ script.op.key = item.op.key
                       /\ script.op # item.op => d.protocol # "graphql" /\ Shadowed(d, item.op)
                 /\ item.kind = "operation" /\ d.protocol # "soap" => ~script.op.over
  <1>3. ASSUME NEW k \in DOMAIN scripts PROVE OwnAt(items[k], scripts[k])
    <2> DEFINE item == items[k]
               script == scripts[k]
    <2>1. script = ScriptOf(d, item) /\ (IsProbe(item) \/ \E o \in OperationsIn(d) : item = OperationItem(o))
      BY <1>1, <1>2 DEF Scripted, SoundItems
    <2>2. /\ script.kind = item.kind
          /\ item.kind = "operation" =>
                /\ item.op \in OperationsIn(d)
                /\ script.op \in OperationsIn(d) /\ script.op.key = item.op.key
                /\ script.op = LastNamed(d, item.op.key)
      BY <1>1, <2>1, ScriptFits
    <2>3. script.kind = "operation" /\ d.protocol # "soap" => ~script.op.over
      BY <1>1 DEF Scripted, WithinLimit
    <2>4. item.kind = "operation" /\ d.protocol = "graphql" => script.op = item.op
      BY <1>1, <2>2, Zenon DEF Document
    <2> HIDE DEF item, script
    <2>5. item.kind = "operation" /\ script.op # item.op => d.protocol # "graphql" /\ Shadowed(d, item.op)
      BY <2>2, <2>4 DEF Shadowed
    <2> QED BY <2>2, <2>3, <2>5 DEF item, script
  <1>4. ASSUME contract.stage = "done"
        PROVE  Len(scripts) = Len(items) /\ \A o \in OperationsIn(d) : o.key \in CoveredKeys(scripts)
    <2>1. Len(scripts) = Len(items) /\ Whole(d, items, Len(d.services))
      BY <1>1, <1>4 DEF Built
    <2> QED BY <1>1, <2>1, AllCovered, Zenon
  <1> QED BY <1>3, <1>4, Zenon DEF ScriptsAreOwn
-----------------------------------------------------------------------------
(***************************************************************************)
(* The tests of a script against the contract of its operation.            *)
(***************************************************************************)
LEMMA ShapePasses ==
    ASSUME NEW d, NEW o, NEW m
    PROVE  ~ShapeFails(d, o, m) <=> m.object /\ \A p \in m.wrong : p \notin AssertedPaths(d, o.response)
  BY DEF ShapeFails

LEMMA GrpcTests ==
    ASSUME NEW d, NEW o, NEW a
    PROVE  GrpcFails(d, o, a) = {} <=>
               /\ a.code = 0
               /\ a.wire
               /\ ~(~Streams(o) /\ a.code = 0 /\ (a.messages = <<>> \/ ~Last(a.messages).object))
               /\ ~(/\ HasShape(d, o) /\ a.code = 0
                    /\ IF a.messages = <<>> THEN ~Streams(o) ELSE ShapeFails(d, o, Last(a.messages)))
               /\ ~(/\ HasShape(d, o) /\ a.code = 0 /\ Streams(o)
                    /\ \E m \in ToSet(a.messages) : ShapeFails(d, o, m))
  <1> DEFINE terminal == ~Streams(o) /\ a.code = 0 /\ (a.messages = <<>> \/ ~Last(a.messages).object)
             shape == /\ HasShape(d, o) /\ a.code = 0
                      /\ IF a.messages = <<>> THEN ~Streams(o) ELSE ShapeFails(d, o, Last(a.messages))
             stream == /\ HasShape(d, o) /\ a.code = 0 /\ Streams(o)
                       /\ \E m \in ToSet(a.messages) : ShapeFails(d, o, m)
             tests == {t \in {"status", "wire", "terminal", "shape", "stream"} :
                          CASE t = "status" -> a.code # 0
                            [] t = "wire" -> ~a.wire
                            [] t = "terminal" -> terminal
                            [] t = "shape" -> shape
                            [] t = "stream" -> stream}
  <1>1. GrpcFails(d, o, a) = tests
    BY Zenon DEF GrpcFails
  <1> HIDE DEF terminal, shape, stream
  <1>2. tests = {} <=> a.code = 0 /\ a.wire /\ ~terminal /\ ~shape /\ ~stream
    OBVIOUS
  <1> QED BY <1>1, <1>2 DEF terminal, shape, stream

\* The sequences of messages a call can end with.
LEMMA GrpcMessages ==
    ASSUME NEW o, NEW a \in GrpcAnswers(o)
    PROVE  \/ a.messages = <<>>
           \/ \E m \in Messages : a.messages = <<m>>
           \/ Streams(o) /\ \E m, n \in Messages : a.messages = <<m, n>>
  <1> DEFINE some == {<<>>} \cup {<<m>> : m \in Messages}
                     \cup (IF Streams(o) THEN {<<m, n>> : m, n \in Messages} ELSE {})
  <1>1. a.messages \in some
    BY DEF GrpcAnswers
  <1> QED BY <1>1

LEMMA GrpcVerdict ==
    ASSUME NEW d, Document(d), d.protocol = "grpc", NEW o \in OperationsIn(d), NEW a \in GrpcAnswers(o)
    PROVE  GrpcFails(d, o, a) = {} <=> GrpcMeets(d, o, a)
  <1>1. o.stream \in {"unary", "client", "server", "bidi"}
    BY Zenon DEF Document
  <1>2. Streams(o) <=> ~(o.stream \in {"unary", "client"})
    BY <1>1 DEF Streams
  <1> DEFINE ms == a.messages
             Good(m) == m.object /\ \A p \in m.wrong : p \notin AssertedPaths(d, o.response)
  <1>3. \A m : ~ShapeFails(d, o, m) <=> Good(m)
    BY ShapePasses
  <1>4. GrpcMeets(d, o, a) <=>
            /\ a.code = 0 /\ a.wire
            /\ ~Streams(o) => Len(ms) = 1 /\ ms[1].object
            /\ HasShape(d, o) => \A k \in DOMAIN ms : Good(ms[k])
    BY <1>2, Zenon DEF GrpcMeets
  <1>5. GrpcFails(d, o, a) = {} <=>
            /\ a.code = 0 /\ a.wire
            /\ ~Streams(o) => ms # <<>> /\ Last(ms).object
            /\ HasShape(d, o) => IF ms = <<>> THEN Streams(o) ELSE Good(Last(ms))
            /\ HasShape(d, o) /\ Streams(o) => \A m \in ToSet(ms) : Good(m)
    BY <1>3, GrpcTests, Zenon
  <1> HIDE DEF Good
  <1>6. CASE ms = <<>>
    <2>1. Len(ms) # 1 /\ DOMAIN ms = {} /\ ToSet(ms) = {}
      BY <1>6 DEF ToSet
    <2> QED BY <1>4, <1>5, <1>6, <2>1, Zenon
  <1>7. ASSUME NEW m \in Messages, ms = <<m>>
        PROVE  GrpcFails(d, o, a) = {} <=> GrpcMeets(d, o, a)
    <2>1. Len(ms) = 1 /\ ms # <<>> /\ ms[1] = m /\ DOMAIN ms = {1}
      BY <1>7
    <2>2. Last(ms) = m
      BY <1>7, <2>1 DEF Last
    <2>3. ToSet(ms) = {m}
      BY <2>1 DEF ToSet
    <2>4. (\A k \in DOMAIN ms : Good(ms[k])) <=> Good(m)
      BY <2>1
    <2>5. (\A n \in ToSet(ms) : Good(n)) <=> Good(m)
      BY <2>3
    <2> HIDE DEF ms
    <2> QED BY <1>4, <1>5, <2>1, <2>2, <2>4, <2>5, Zenon
  <1>8. ASSUME Streams(o), NEW m \in Messages, NEW n \in Messages, ms = <<m, n>>
        PROVE  GrpcFails(d, o, a) = {} <=> GrpcMeets(d, o, a)
    <2>1. Len(ms) = 2 /\ ms # <<>> /\ ms[1] = m /\ ms[2] = n /\ DOMAIN ms = {1, 2}
      BY <1>8
    <2>2. Last(ms) = n
      BY <1>8, <2>1 DEF Last
    <2>3. ToSet(ms) = {m, n}
      BY <2>1 DEF ToSet
    <2>4. (\A k \in DOMAIN ms : Good(ms[k])) <=> Good(m) /\ Good(n)
      BY <2>1
    <2>5. (\A l \in ToSet(ms) : Good(l)) <=> Good(m) /\ Good(n)
      BY <2>3
    <2> HIDE DEF ms
    <2> QED BY <1>4, <1>5, <1>8, <2>1, <2>2, <2>4, <2>5, Zenon
  <1> QED BY <1>6, <1>7, <1>8, GrpcMessages

LEMMA OneWayTests ==
    ASSUME NEW o, NEW own, NEW a
    PROVE  LET faulted == o.pattern = "one-way" /\ a.status = 500 /\ a.body = "fault"
           IN  OneWayFails(o, own, a) = {} <=>
                   /\ faulted \/ a.body = "empty"
                   /\ IF o.pattern = "in-only" THEN a.status \in {202, 204} ELSE faulted \/ Succeeded(a)
                   /\ ~(o.pattern = "one-way" /\ a.status = 500 /\ ~faulted)
                   /\ ~RequestFails(o, own)
                   /\ ~(o.version = "1.2" /\ ~o.get)
  <1> DEFINE faulted == o.pattern = "one-way" /\ a.status = 500 /\ a.body = "fault"
             empty == ~faulted /\ a.body # "empty"
             status == IF o.pattern = "in-only" THEN a.status \notin {202, 204} ELSE ~faulted /\ ~Succeeded(a)
             wrong == o.pattern = "one-way" /\ a.status = 500 /\ ~faulted
             undefined == o.version = "1.2" /\ ~o.get
             tests == {t \in {"empty", "status", "faulted", "request", "undefined"} :
                          CASE t = "empty" -> empty
                            [] t = "status" -> status
                            [] t = "faulted" -> wrong
                            [] t = "request" -> RequestFails(o, own)
                            [] t = "undefined" -> undefined}
  <1>1. OneWayFails(o, own, a) = tests
    BY Zenon DEF OneWayFails
  <1> HIDE DEF empty, status, wrong, undefined
  <1>2. tests = {} <=> ~empty /\ ~status /\ ~wrong /\ ~RequestFails(o, own) /\ ~undefined
    OBVIOUS
  <1> HIDE DEF tests
  <1>3. OneWayFails(o, own, a) = {} <=> ~empty /\ ~status /\ ~wrong /\ ~RequestFails(o, own) /\ ~undefined
    BY <1>1, <1>2
  <1>4. ~empty <=> faulted \/ a.body = "empty"
    BY Zenon DEF empty
  <1>5. ~status <=> IF o.pattern = "in-only" THEN a.status \in {202, 204} ELSE faulted \/ Succeeded(a)
    BY DEF status
  <1> QED BY <1>3, <1>4, <1>5, Zenon DEF wrong, undefined

LEMMA OneWayVerdict ==
    ASSUME NEW d, NEW o, NEW own, NEW a \in SoapAnswers, OneWay(o), o.version \in {"1.1", "1.2"}
    PROVE  OneWayFails(o, own, a) = {} <=>
               SoapMeets(d, o, a) /\ ~RequestFails(o, own) /\ (o.get \/ o.version = "1.1")
  <1>1. o.pattern \in {"one-way", "in-only"}
    BY DEF OneWay
  <1>2. a.status = 500 => ~Succeeded(a)
    BY DEF Succeeded
  <1>3. CASE o.pattern = "in-only"
    <2>1. SoapMeets(d, o, a) <=> a.status \in {202, 204} /\ a.body = "empty"
      BY <1>3 DEF SoapMeets
    <2> QED BY <1>3, <2>1, OneWayTests
  <1>4. CASE o.pattern = "one-way"
    <2>1. SoapMeets(d, o, a) <=> (Succeeded(a) /\ a.body = "empty") \/ (a.status = 500 /\ a.body = "fault")
      BY <1>4 DEF SoapMeets
    <2> QED BY <1>2, <1>4, <2>1, OneWayTests
  <1> QED BY <1>1, <1>3, <1>4

LEMMA ReplyTests ==
    ASSUME NEW d, NEW o, NEW own, NEW a
    PROVE  ReplyFails(d, o, own, a) = {} <=>
               /\ Accepted(a) \/ a.status = 200
               /\ Accepted(a) \/ a.version = o.version
               /\ Accepted(a) \/ Enveloped(a)
               /\ ~(Enveloped(a) /\ a.version # o.version)
               /\ ~(a.body = "fault" \/ a.status = 500)
               /\ ~Malformed(a)
               /\ ~(o.element /\ a.body \notin {"fault", "reply", "malformed"})
               /\ ~Unaddressed(d, a)
               /\ ~RequestFails(o, own)
  <1> DEFINE status == ~Accepted(a) /\ a.status # 200
             media == ~Accepted(a) /\ a.version # o.version
             envelope == ~Accepted(a) /\ ~Enveloped(a)
             namespace == Enveloped(a) /\ a.version # o.version
             fault == a.body = "fault" \/ a.status = 500
             element == o.element /\ a.body \notin {"fault", "reply", "malformed"}
             tests == {t \in {"status", "media", "envelope", "namespace", "fault", "conformance", "element",
                              "addressing", "request"} :
                          CASE t = "status" -> status
                            [] t = "media" -> media
                            [] t = "envelope" -> envelope
                            [] t = "namespace" -> namespace
                            [] t = "fault" -> fault
                            [] t = "conformance" -> Malformed(a)
                            [] t = "element" -> element
                            [] t = "addressing" -> Unaddressed(d, a)
                            [] t = "request" -> RequestFails(o, own)}
  <1>1. ReplyFails(d, o, own, a) = tests
    BY Zenon DEF ReplyFails
  <1> HIDE DEF status, media, envelope, namespace, fault, element
  <1>2. tests = {} <=> /\ ~status /\ ~media /\ ~envelope /\ ~namespace /\ ~fault /\ ~Malformed(a) /\ ~element
                       /\ ~Unaddressed(d, a) /\ ~RequestFails(o, own)
    OBVIOUS
  <1> HIDE DEF tests
  <1>3. ReplyFails(d, o, own, a) = {} <=>
            /\ ~status /\ ~media /\ ~envelope /\ ~namespace /\ ~fault /\ ~Malformed(a) /\ ~element
            /\ ~Unaddressed(d, a) /\ ~RequestFails(o, own)
    BY <1>1, <1>2
  <1> QED BY <1>3 DEF status, media, envelope, namespace, fault, element

LEMMA ReplyVerdict ==
    ASSUME NEW d, NEW o, NEW own, NEW a \in SoapAnswers, o.pattern = "reply"
    PROVE  ReplyFails(d, o, own, a) = {} <=>
               /\ SoapMeets(d, o, a) /\ ~RequestFails(o, own)
               /\ Accepted(a) => ~o.element /\ ~d.addressed
  <1>1. SoapMeets(d, o, a) <=> \/ Accepted(a)
                               \/ /\ a.status = 200 /\ a.version = o.version
                                  /\ a.body \in (IF o.element THEN {"reply"} ELSE {"reply", "stranger"})
                                  /\ d.addressed => a.headers
    BY DEF SoapMeets
  <1>2. a.body \in {"empty", "fault", "reply", "stranger", "malformed", "text"}
    BY DEF SoapAnswers
  <1>3. CASE Accepted(a)
    <2>1. a.status = 202 /\ a.body = "empty"
      BY <1>3 DEF Accepted
    <2>2. ~Enveloped(a) /\ ~Malformed(a) /\ (Unaddressed(d, a) <=> d.addressed)
      BY <2>1 DEF Enveloped, Malformed, Unaddressed
    <2> QED BY <1>1, <1>3, <2>1, <2>2, ReplyTests
  <1>4. CASE ~Accepted(a)
    <2>1. Unaddressed(d, a) <=> d.addressed /\ a.body # "fault" /\ ~(Enveloped(a) /\ a.headers)
      BY DEF Unaddressed
    <2>2. (Malformed(a) <=> a.body = "malformed") /\ (Enveloped(a) <=> a.body \in {"fault", "reply", "stranger", "malformed"})
      BY DEF Malformed, Enveloped
    <2> QED BY <1>1, <1>2, <1>4, <2>1, <2>2, ReplyTests
  <1> QED BY <1>3, <1>4

LEMMA NeverSucceeded ==
    ASSUME NEW a, a.status = 415
    PROVE  ~Succeeded(a)
  <1>1. 415 \notin 200..299
    OBVIOUS
  <1> QED BY <1>1 DEF Succeeded

LEMMA ProbeVerdict ==
    ASSUME NEW a \in ProbeAnswers, NEW key \in {"get mutation", "malformed json", "invalid document", MediaProbe},
           ProbeFails(key, a) = {}
    PROVE  ~(Succeeded(a) /\ a.data)
  <1>2. a.status = 415 => ~Succeeded(a)
    BY NeverSucceeded, Zenon
  <1> SUFFICES ASSUME Succeeded(a), a.data PROVE FALSE
    OBVIOUS
  <1>1. "probe" \notin ProbeFails(key, a)
    OBVIOUS
  <1> QED BY <1>1, <1>2 DEF ProbeFails, MediaProbe
-----------------------------------------------------------------------------
(***************************************************************************)
(* The levels of a selection: the recursion that opens them is defined.    *)
(***************************************************************************)
Opened(d, o, n, f) ==
    f = [k \in 0..n |-> IF k = 0 THEN {RootValue(o)} ELSE UNION {SelectFields(d, at) : at \in f[k - 1]}]

LEMMA LevelsExist ==
    ASSUME NEW d, NEW o, NEW N \in Nat
    PROVE  \E f : Opened(d, o, N, f)
  <1> DEFINE Bad == {n \in Nat : ~\E f : Opened(d, o, n, f)}
  <1> SUFFICES ASSUME Bad # {} PROVE FALSE
    OBVIOUS
  <1>1. PICK m \in Bad : \A n \in Bad : m <= n
    BY LeastOf
  <1>2. m \in Nat /\ ~\E f : Opened(d, o, m, f)
    OBVIOUS
  <1>3. CASE m = 0
    <2> DEFINE f == [k \in 0..0 |-> {RootValue(o)}]
    <2>1. f = [k \in 0..0 |-> IF k = 0 THEN {RootValue(o)} ELSE UNION {SelectFields(d, at) : at \in f[k - 1]}]
      OBVIOUS
    <2> HIDE DEF f
    <2>2. Opened(d, o, 0, f)
      BY <2>1, Zenon DEF Opened
    <2> QED BY <1>2, <1>3, <2>2
  <1>4. CASE m # 0
    <2>1. m - 1 \in Nat /\ m - 1 \notin Bad
      BY <1>1, <1>2, <1>4
    <2>2. PICK f : Opened(d, o, m - 1, f)
      BY <2>1
    <2> DEFINE g == [k \in 0..m |-> IF k = m THEN UNION {SelectFields(d, at) : at \in f[m - 1]} ELSE f[k]]
               Body(h, k) == IF k = 0 THEN {RootValue(o)} ELSE UNION {SelectFields(d, at) : at \in h[k - 1]}
    <2>3. f = [k \in 0..(m - 1) |-> Body(f, k)]
      BY <2>2, Zenon DEF Opened
    <2>4. \A k \in 0..(m - 1) : f[k] = Body(f, k)
      <3> HIDE DEF Body
      <3> QED BY <2>3
    <2>5. ASSUME NEW k \in 0..m PROVE g[k] = Body(g, k)
      <3>1. CASE k = m
        <4>1. m - 1 \in 0..m /\ m - 1 # m
          BY <1>2, <1>4
        <4>2. g[m - 1] = f[m - 1]
          BY <4>1
        <4>3. g[k] = UNION {SelectFields(d, at) : at \in f[m - 1]}
          BY <3>1
        <4> HIDE DEF g
        <4> QED BY <1>4, <3>1, <4>2, <4>3
      <3>2. CASE k # m /\ k # 0
        <4>1. k - 1 \in 0..m /\ k - 1 # m /\ k \in 0..(m - 1)
          BY <1>2, <2>5, <3>2
        <4>2. g[k - 1] = f[k - 1] /\ g[k] = f[k]
          BY <3>2, <4>1
        <4>3. f[k] = Body(f, k)
          BY <2>4, <4>1
        <4> HIDE DEF g
        <4> QED BY <3>2, <4>2, <4>3
      <3>3. CASE k = 0
        <4>1. g[k] = f[k] /\ k \in 0..(m - 1)
          BY <1>2, <1>4, <3>3
        <4>2. f[k] = Body(f, k)
          BY <2>4, <4>1
        <4> HIDE DEF g
        <4> QED BY <3>3, <4>1, <4>2
      <3> QED BY <3>1, <3>2, <3>3
    <2>6. DOMAIN g = 0..m /\ g = [k \in DOMAIN g |-> g[k]]
      OBVIOUS
    <2> HIDE DEF g, Body
    <2>7. g = [k \in 0..m |-> Body(g, k)]
      BY <2>5, <2>6
    <2>8. Opened(d, o, m, g)
      BY <2>7, Zenon DEF Opened, Body
    <2> QED BY <1>2, <2>8
  <1> QED BY <1>3, <1>4

LEMMA SelectionOpens ==
    ASSUME NEW d, Document(d), d.protocol = "graphql", NEW o
    PROVE  /\ Cardinality(DOMAIN d.types) + 3 \in Nat
           /\ Opened(d, o, Cardinality(DOMAIN d.types) + 3, SelectionLevels(d, o))
  <1> DEFINE N == Cardinality(DOMAIN d.types) + 3
  <1>1. N \in Nat
    <2>1. IsFiniteSet(DOMAIN d.types)
      BY Zenon DEF Document
    <2>2. Cardinality(DOMAIN d.types) \in Nat
      BY <2>1, FS_CardinalityType, Zenon
    <2> QED BY <2>2
  <1>2. SelectionLevels(d, o) =
            CHOOSE f : f = [k \in 0..N |-> IF k = 0 THEN {RootValue(o)} ELSE UNION {SelectFields(d, at) : at \in f[k - 1]}]
    BY DEF SelectionLevels
  <1>3. \E f : f = [k \in 0..N |-> IF k = 0 THEN {RootValue(o)} ELSE UNION {SelectFields(d, at) : at \in f[k - 1]}]
    <2> HIDE DEF N
    <2>1. \E f : Opened(d, o, N, f)
      BY <1>1, LevelsExist, Zenon
    <2> QED BY <2>1, Zenon DEF Opened
  <1> HIDE DEF N
  <1>4. Opened(d, o, N, SelectionLevels(d, o))
    BY <1>2, <1>3, Zenon DEF Opened
  <1> QED BY <1>1, <1>4 DEF N
-----------------------------------------------------------------------------
LEMMA SelectedBelow ==
    ASSUME NEW d, NEW at, NEW x \in SelectFields(d, at)
    PROVE  \E f, part : x = Selected(at.path, f, part)
  <1> DEFINE fields == TypeFields(d, at.ref)
             relay == at.part = "all" /\ Connection(d, at.ref)
             A == {g \in fields : g.ref.kind \in {"scalar", "custom"} /\ g.name \in PageInfoFields}
             B == {g \in fields : g.ref.kind \in {"scalar", "custom"} /\ g.name = "cursor"}
             C == {g \in fields : relay /\ g.name \in {"pageInfo", "edges"}}
             D == {g \in fields : Leaf(g.ref) /\ ~(relay /\ g.name \in {"pageInfo", "edges"})}
                  \cup (IF at.ref.kind = "interface" THEN {TypenameField} ELSE {})
             E == {g \in fields : Connection(d, g.ref) /\ ~(relay /\ g.name \in {"pageInfo", "edges"})}
             a == {Selected(at.path, f, "leaf") : f \in A}
             b == {Selected(at.path, f, "leaf") : f \in B}
             c == {Selected(at.path, f, f.name) : f \in C} \cup {Selected(at.path, f, "leaf") : f \in D}
                  \cup {Selected(at.path, f, "all") : f \in E}
             deep == at.part = "all" /\ Composite(at.ref) /\ at.ref.type \in DOMAIN d.types
  <1>1. SelectFields(d, at) = CASE at.part = "pageInfo" -> a [] at.part = "edges" -> b [] deep -> c [] OTHER -> {}
    BY Zenon DEF SelectFields
  <1>2. \A y \in a : \E f, part : y = Selected(at.path, f, part)
    <2> HIDE DEF A
    <2> QED BY Zenon
  <1>3. \A y \in b : \E f, part : y = Selected(at.path, f, part)
    <2> HIDE DEF B
    <2> QED BY Zenon
  <1>4. \A y \in c : \E f, part : y = Selected(at.path, f, part)
    <2> HIDE DEF C, D, E
    <2> QED BY Zenon
  <1> HIDE DEF a, b, c, deep
  <1>5. x \in a \/ x \in b \/ x \in c \/ x \in {}
    <2>1. CASE at.part = "pageInfo"
      BY <1>1, <2>1
    <2>2. CASE at.part # "pageInfo" /\ at.part = "edges"
      BY <1>1, <2>2
    <2>3. CASE at.part # "pageInfo" /\ at.part # "edges" /\ deep
      BY <1>1, <2>3
    <2>4. CASE at.part # "pageInfo" /\ at.part # "edges" /\ ~deep
      BY <1>1, <2>4
    <2> QED BY <2>1, <2>2, <2>3, <2>4
  <1> QED BY <1>2, <1>3, <1>4, <1>5

LEMMA Lengthened ==
    ASSUME NEW s, IsSeq(s), NEW x
    PROVE  IsSeq(Append(s, x)) /\ Append(s, x) # <<>>
  <1>1. s \in Seq(ToSet(s) \cup {x}) /\ Len(s) \in Nat
    BY SeqMonotonic, IsSeqLen, Zenon DEF IsSeq
  <1>2. Append(s, x) \in Seq(ToSet(s) \cup {x}) /\ Len(Append(s, x)) = Len(s) + 1
    BY <1>1, AppendProperties
  <1>3. IsSeq(Append(s, x))
    BY <1>2, SeqIsSeq, Zenon
  <1>4. Len(Append(s, x)) # 0 /\ Len(<<>>) = 0
    BY <1>1, <1>2
  <1> QED BY <1>3, <1>4, Zenon

\* Only the value of the operation itself is at the root of what is selected.
LEMMA RootOfSelection ==
    ASSUME NEW d, Document(d), d.protocol = "graphql", NEW o, NEW at \in Selection(d, o), at.path = <<>>
    PROVE  at.ref = o.returns
  <1> DEFINE N == Cardinality(DOMAIN d.types) + 3
             level == SelectionLevels(d, o)
             Step(k) == IF k = 0 THEN {RootValue(o)} ELSE UNION {SelectFields(d, x) : x \in level[k - 1]}
  <1>1. N \in Nat /\ Opened(d, o, N, level)
    BY SelectionOpens
  <1>2. level = [k \in 0..N |-> Step(k)]
    BY <1>1, Zenon DEF Opened
  <1> HIDE DEF N, level
  <1>3. DOMAIN level = 0..N /\ level[0] = {RootValue(o)}
        /\ \A k \in 1..N : level[k] = UNION {SelectFields(d, x) : x \in level[k - 1]}
    <2>1. \A k \in 0..N : level[k] = Step(k)
      <3> HIDE DEF Step
      <3> QED BY <1>2
    <2>2. DOMAIN level = 0..N
      <3> HIDE DEF Step
      <3> QED BY <1>2
    <2>3. 0 \in 0..N /\ \A k \in 1..N : k \in 0..N /\ k # 0
      BY <1>1
    <2> QED BY <2>1, <2>2, <2>3
  <1> DEFINE Rooted(k) == \A x \in level[k] : IsSeq(x.path) /\ (k # 0 => x.path # <<>>)
             Bad == {k \in 0..N : ~Rooted(k)}
  <1>4. Bad = {}
    <2> SUFFICES ASSUME Bad # {} PROVE FALSE
      OBVIOUS
    <2>1. Bad \in SUBSET Nat
      BY <1>1
    <2>2. PICK m \in Bad : \A k \in Bad : m <= k
      BY <2>1, LeastOf
    <2>3. m \in 0..N /\ ~Rooted(m)
      OBVIOUS
    <2>4. Rooted(0)
      <3>1. RootValue(o).path = <<>>
        BY DEF RootValue
      <3> QED BY <1>3, <3>1, NoProbe
    <2>5. m \in 1..N /\ m - 1 \in 0..N /\ m - 1 \notin Bad
      BY <1>1, <2>2, <2>3, <2>4
    <2>6. Rooted(m - 1)
      BY <2>5
    <2>7. ASSUME NEW x \in level[m] PROVE IsSeq(x.path) /\ x.path # <<>>
      <3>1. PICK y \in level[m - 1] : x \in SelectFields(d, y)
        <4>1. x \in UNION {SelectFields(d, z) : z \in level[m - 1]}
          BY <1>3, <2>5, <2>7
        <4> HIDE DEF Rooted, Bad
        <4> QED BY <4>1, Zenon
      <3>2. PICK f, part : x = Selected(y.path, f, part)
        BY <3>1, SelectedBelow
      <3>3. x.path = Append(y.path, f.name)
        BY <3>2 DEF Selected
      <3>4. IsSeq(y.path)
        BY <2>6, <3>1
      <3> QED BY <3>3, <3>4, Lengthened
    <2> QED BY <2>3, <2>7
  <1>5. PICK k \in DOMAIN level : at \in level[k]
    BY Zenon DEF Selection, level
  <1>6. k = 0
    BY <1>3, <1>4, <1>5
  <1>7. at = RootValue(o)
    BY <1>3, <1>5, <1>6
  <1> QED BY <1>7 DEF RootValue

\* What can be wrong with the data.
LEMMA FlawKinds ==
    ASSUME NEW d, NEW o, NEW f \in Flaws(d, o)
    PROVE  \/ f = Sound
           \/ /\ f.place \in Selection(d, o)
              /\ f.what \in {"absent", "null", "type", "extra", "null item"}
              /\ f.what = "extra" => Composite(f.place.ref) \/ f.place.ref.kind = "union"
  <1> SUFFICES ASSUME f # Sound
               PROVE  /\ f.place \in Selection(d, o)
                      /\ f.what \in {"absent", "null", "type", "extra", "null item"}
                      /\ f.what = "extra" => Composite(f.place.ref) \/ f.place.ref.kind = "union"
    OBVIOUS
  <1>1. PICK at \in Selection(d, o) : f \in FlawsAt(at)
    BY Zenon DEF Flaws
  <1>2. \/ \E w \in {"absent", "null", "type"} : f = Flaw(at, w, 0)
        \/ \E w \in IF Composite(at.ref) \/ at.ref.kind = "union" THEN {"extra"} ELSE {} : f = Flaw(at, w, 0)
        \/ \E k \in DOMAIN at.ref.items : f = Flaw(at, "null item", k)
    BY <1>1, Zenon DEF FlawsAt
  <1>3. \A w, k : Flaw(at, w, k).place = at /\ Flaw(at, w, k).what = w
    BY DEF Flaw
  <1>4. CASE \E w \in {"absent", "null", "type"} : f = Flaw(at, w, 0)
    <2>1. PICK w \in {"absent", "null", "type"} : f = Flaw(at, w, 0)
      BY <1>4
    <2>2. f.place = at /\ f.what = w
      BY <1>3, <2>1, Zenon
    <2>3. w # "extra"
      BY <2>1
    <2> QED BY <2>2, <2>3
  <1>5. CASE \E w \in IF Composite(at.ref) \/ at.ref.kind = "union" THEN {"extra"} ELSE {} : f = Flaw(at, w, 0)
    <2>1. (Composite(at.ref) \/ at.ref.kind = "union") /\ f = Flaw(at, "extra", 0)
      BY <1>5
    <2> QED BY <1>3, <2>1
  <1>6. CASE \E k \in DOMAIN at.ref.items : f = Flaw(at, "null item", k)
    <2>1. PICK k \in DOMAIN at.ref.items : f = Flaw(at, "null item", k)
      BY <1>6
    <2>2. f.place = at /\ f.what = "null item"
      BY <1>3, <2>1, Zenon
    <2> QED BY <2>2
  <1> QED BY <1>2, <1>4, <1>5, <1>6

LEMMA GraphqlTests ==
    ASSUME NEW d, NEW o, NEW a, a.data = "map"
    PROVE  GraphqlFails(d, o, a) = {} <=>
               /\ ~(a.status >= 500)
               /\ ~((a.media = "graphql" /\ ~Succeeded(a)) \/ (a.media = "json" /\ a.status # 200))
               /\ ~Untrusted(a)
               /\ ~(~Untrusted(a) /\ (AtRoot(a.flaw, "absent") \/ (o.returns.nonNull /\ AtRoot(a.flaw, "null"))))
               /\ ~(~Untrusted(a) /\ o.returns.nonNull /\ AtRoot(a.flaw, "null"))
               /\ ~(/\ ~Untrusted(a) /\ ~AtRoot(a.flaw, "absent") /\ ~AtRoot(a.flaw, "null")
                    /\ Misordered(d, o, a.flaw) \/ FlawFails(a.flaw))
  <1> DEFINE transport == a.status >= 500
             media == \/ a.media = "graphql" /\ a.data = "absent" /\ a.status < 400
                      \/ a.media = "graphql" /\ a.data = "map" /\ ~Succeeded(a)
                      \/ a.media = "json" /\ a.data = "map" /\ a.status # 200
             map == ~Untrusted(a) /\ a.data = "absent" /\ ~a.errors
             errors == ~Untrusted(a) /\ a.errors /\ a.data # "map"
             present == /\ ~Untrusted(a)
                        /\ a.data # "map" \/ AtRoot(a.flaw, "absent") \/ (o.returns.nonNull /\ AtRoot(a.flaw, "null"))
             propagation == /\ ~Untrusted(a) /\ o.returns.nonNull
                            /\ AtRoot(a.flaw, "null") \/ (a.data = "null" /\ ~a.errors)
             shape == /\ ~Untrusted(a) /\ a.data = "map" /\ ~AtRoot(a.flaw, "absent") /\ ~AtRoot(a.flaw, "null")
                      /\ Misordered(d, o, a.flaw) \/ FlawFails(a.flaw)
             tests == {t \in {"transport", "media", "untrusted", "map", "errors", "present", "propagation", "shape"} :
                          CASE t = "transport" -> transport
                            [] t = "media" -> media
                            [] t = "untrusted" -> Untrusted(a)
                            [] t = "map" -> map
                            [] t = "errors" -> errors
                            [] t = "present" -> present
                            [] t = "propagation" -> propagation
                            [] t = "shape" -> shape}
  <1>1. GraphqlFails(d, o, a) = tests
    BY Zenon DEF GraphqlFails
  <1> HIDE DEF transport, media, map, errors, present, propagation, shape
  <1>2. tests = {} <=> /\ ~transport /\ ~media /\ ~Untrusted(a) /\ ~map /\ ~errors /\ ~present
                       /\ ~propagation /\ ~shape
    OBVIOUS
  <1> HIDE DEF tests
  <1>3. GraphqlFails(d, o, a) = {} <=> /\ ~transport /\ ~media /\ ~Untrusted(a) /\ ~map /\ ~errors /\ ~present
                                       /\ ~propagation /\ ~shape
    BY <1>1, <1>2
  <1>4. a.data = "map" /\ a.data # "absent" /\ a.data # "null"
    OBVIOUS
  <1>5. transport <=> a.status >= 500
    BY Zenon DEF transport
  <1>6. media <=> (a.media = "graphql" /\ ~Succeeded(a)) \/ (a.media = "json" /\ a.status # 200)
    BY <1>4, Zenon DEF media
  <1>7. ~map /\ ~errors
    BY <1>4, Zenon DEF map, errors
  <1>8. present <=> ~Untrusted(a) /\ (AtRoot(a.flaw, "absent") \/ (o.returns.nonNull /\ AtRoot(a.flaw, "null")))
    BY <1>4, Zenon DEF present
  <1>9. propagation <=> ~Untrusted(a) /\ o.returns.nonNull /\ AtRoot(a.flaw, "null")
    BY <1>4, Zenon DEF propagation
  <1>10. shape <=> /\ ~Untrusted(a) /\ ~AtRoot(a.flaw, "absent") /\ ~AtRoot(a.flaw, "null")
                   /\ Misordered(d, o, a.flaw) \/ FlawFails(a.flaw)
    BY <1>4, Zenon DEF shape
  <1> HIDE DEF transport, media, map, errors, present, propagation, shape
  <1>11. GraphqlFails(d, o, a) = {} <=> /\ ~transport /\ ~media /\ ~Untrusted(a) /\ ~present
                                        /\ ~propagation /\ ~shape
    BY <1>3, <1>7, Zenon
  <1> QED BY <1>5, <1>6, <1>8, <1>9, <1>10, <1>11, Zenon

\* Where there is no map of data, a test fails.
LEMMA NoData ==
    ASSUME NEW d, NEW o, NEW a, a.data # "map"
    PROVE  GraphqlFails(d, o, a) # {}
  <1>1. CASE Untrusted(a)
    <2>1. "untrusted" \in GraphqlFails(d, o, a)
      BY <1>1 DEF GraphqlFails
    <2> QED BY <2>1
  <1>2. CASE ~Untrusted(a)
    <2>1. "present" \in GraphqlFails(d, o, a)
      BY <1>2 DEF GraphqlFails
    <2> QED BY <2>1
  <1> QED BY <1>1, <1>2

LEMMA GraphqlVerdict ==
    ASSUME NEW d, Document(d), d.protocol = "graphql", NEW o, NEW a \in GraphqlAnswers(d, o)
    PROVE  GraphqlFails(d, o, a) = {} <=> GraphqlMeets(a) /\ ~Misordered(d, o, a.flaw)
  <1>1. a.media \in {"graphql", "json"} /\ a.status \in {200, 294, 400, 500}
    BY DEF GraphqlAnswers
  <1>2. a.data = "map" => a.flaw \in Flaws(d, o)
    BY DEF GraphqlAnswers
  <1>3. Succeeded(a) <=> a.status \in {200, 294}
    BY <1>1 DEF Succeeded
  <1>4. CASE a.data # "map"
    BY <1>4, NoData, Zenon DEF GraphqlMeets
  <1>5. CASE a.data = "map"
    <2> DEFINE flaw == a.flaw
               Answered == IF a.media = "json" THEN a.status = 200 ELSE Succeeded(a)
               Hidden == AtRoot(flaw, "absent") \/ (o.returns.nonNull /\ AtRoot(flaw, "null"))
               Flawed == ~AtRoot(flaw, "absent") /\ ~AtRoot(flaw, "null") /\ (Misordered(d, o, flaw) \/ FlawFails(flaw))
    <2>1. Answered <=> /\ ~(a.status >= 500)
                       /\ ~((a.media = "graphql" /\ ~Succeeded(a)) \/ (a.media = "json" /\ a.status # 200))
                       /\ ~Untrusted(a)
      BY <1>1, <1>3 DEF Untrusted
    <2>2. GraphqlFails(d, o, a) = {} <=> Answered /\ ~Hidden /\ ~Flawed
      <3>1. GraphqlFails(d, o, a) = {} <=>
               /\ ~(a.status >= 500)
               /\ ~((a.media = "graphql" /\ ~Succeeded(a)) \/ (a.media = "json" /\ a.status # 200))
               /\ ~Untrusted(a)
               /\ ~(~Untrusted(a) /\ Hidden)
               /\ ~(~Untrusted(a) /\ o.returns.nonNull /\ AtRoot(flaw, "null"))
               /\ ~(~Untrusted(a) /\ Flawed)
        BY <1>5, GraphqlTests
      <3>2. o.returns.nonNull /\ AtRoot(flaw, "null") => Hidden
        OBVIOUS
      <3> HIDE DEF Answered, Hidden, Flawed
      <3> QED BY <2>1, <3>1, <3>2
    <2>3. GraphqlMeets(a) <=> Answered /\ Legal(flaw)
      BY <1>5 DEF GraphqlMeets
    <2>4. AtRoot(flaw, "absent") \/ AtRoot(flaw, "null") => ~Misordered(d, o, flaw)
      BY DEF AtRoot, Misordered, Reached
    <2>5. ~Hidden /\ ~Flawed <=> Legal(flaw) /\ ~Misordered(d, o, flaw)
      <3>1. CASE flaw = Sound
        <4>1. flaw.what = "nothing"
          BY <3>1 DEF Sound
        <4>2. Legal(flaw) /\ ~FlawFails(flaw) /\ ~AtRoot(flaw, "absent") /\ ~AtRoot(flaw, "null")
          BY <4>1 DEF Legal, FlawFails, AtRoot
        <4> HIDE DEF flaw
        <4> QED BY <4>2
      <3>2. CASE /\ flaw.place \in Selection(d, o)
                 /\ flaw.what \in {"absent", "null", "type", "extra", "null item"}
                 /\ flaw.what = "extra" => Composite(flaw.place.ref) \/ flaw.place.ref.kind = "union"
        <4>1. AtRoot(flaw, "null") => flaw.place.ref = o.returns
          BY <3>2, RootOfSelection DEF AtRoot
        <4> DEFINE ref == flaw.place.ref
        <4>2. Composite(ref) => ref.kind # "union"
          BY DEF Composite
        <4> HIDE DEF flaw, ref
        <4>3. CASE flaw.what = "absent"
          <5>1. ~Legal(flaw) /\ FlawFails(flaw) /\ ~AtRoot(flaw, "null")
            BY <4>3 DEF Legal, FlawFails, AtRoot
          <5> QED BY <5>1
        <4>4. CASE flaw.what = "null"
          <5>1. /\ Legal(flaw) <=> ~flaw.place.ref.nonNull
                /\ FlawFails(flaw) <=> flaw.place.ref.nonNull
                /\ ~AtRoot(flaw, "absent")
            BY <4>4 DEF Legal, FlawFails, AtRoot
          <5> QED BY <2>4, <4>1, <5>1, Zenon
        <4>5. CASE flaw.what = "null item"
          <5>1. /\ Legal(flaw) <=> ~flaw.place.ref.items[flaw.dim]
                /\ FlawFails(flaw) <=> flaw.place.ref.items[flaw.dim]
                /\ ~AtRoot(flaw, "absent") /\ ~AtRoot(flaw, "null")
            BY <4>5 DEF Legal, FlawFails, AtRoot
          <5> QED BY <5>1, Zenon
        <4>6. CASE flaw.what = "type"
          <5>1. /\ Legal(flaw) <=> flaw.place.ref.kind \in {"custom", "unknown"}
                /\ FlawFails(flaw) <=> flaw.place.ref.kind \notin {"custom", "unknown"}
                /\ ~AtRoot(flaw, "absent") /\ ~AtRoot(flaw, "null")
            BY <4>6 DEF Legal, FlawFails, AtRoot
          <5> QED BY <5>1, Zenon
        <4>7. CASE flaw.what = "extra"
          <5>1. /\ Legal(flaw) <=> flaw.place.ref.kind = "union"
                /\ FlawFails(flaw) <=> Composite(flaw.place.ref)
                /\ ~AtRoot(flaw, "absent") /\ ~AtRoot(flaw, "null")
            BY <4>7 DEF Legal, FlawFails, AtRoot
          <5> QED BY <3>2, <4>2, <4>7, <5>1, Zenon DEF ref
        <4> QED BY <3>2, <4>3, <4>4, <4>5, <4>6, <4>7
      <3> QED BY <1>2, <1>5, <3>1, <3>2, FlawKinds
    <2> HIDE DEF Answered, Hidden, Flawed, flaw
    <2>6. GraphqlFails(d, o, a) = {} <=> GraphqlMeets(a) /\ ~Misordered(d, o, flaw)
      BY <2>2, <2>3, <2>5
    <2> QED BY <2>6 DEF flaw
  <1> QED BY <1>4, <1>5
-----------------------------------------------------------------------------
LEMMA ContractInvVerdicts == ContractInv => VerdictsAreRight
  <1> SUFFICES ASSUME ContractInv, call # Uncalled PROVE VerdictsAreRight
    BY DEF VerdictsAreRight
  <1> DEFINE d == contract.doc
             items == contract.items
             scripts == contract.scripts
             item == items[call.at]
             script == scripts[call.at]
             o == script.op
             a == call.answer
             passed == call.failed = {}
  <1>1. Document(d) /\ Built /\ Called /\ Scripted(d, items, scripts)
    BY Documents DEF ContractInv, ContractTyped
  <1>2. /\ Whole(d, items, Len(d.services)) /\ Len(scripts) = Len(items)
        /\ call.at \in DOMAIN items /\ a \in Answers(d, item) /\ call.failed = FailedTests(d, item, script, a)
    BY <1>1 DEF Built, Called
  <1>3. DOMAIN scripts = DOMAIN items
    <2>1. DOMAIN scripts = 1..Len(scripts)
      BY <1>1, IsSeqLen DEF Scripted
    <2>2. DOMAIN items = 1..Len(items)
      BY <1>2, IsSeqLen DEF Whole
    <2> QED BY <1>2, <2>1, <2>2
  <1>4. script = ScriptOf(d, item) /\ (IsProbe(item) \/ \E p \in OperationsIn(d) : item = OperationItem(p))
    <2>1. script = ScriptOf(d, item)
      BY <1>1, <1>2, <1>3 DEF Scripted
    <2>2. \A k \in DOMAIN items : IsProbe(items[k]) \/ \E p \in OperationsIn(d) : items[k] = OperationItem(p)
      BY <1>1, <1>2, WholeIsSound
    <2> QED BY <1>2, <2>1, <2>2
  <1>5. /\ item.kind \in {"probe", "operation"} /\ script.kind = item.kind
        /\ item.kind = "operation" => o \in OperationsIn(d)
    BY <1>1, <1>4, ScriptFits
  <1>6. item.kind = "operation" /\ d.protocol # "soap" => o = item.op
    BY <1>1, <1>2, OwnScript
  <1>7. d.protocol \in {"grpc", "graphql", "soap"}
    BY <1>1 DEF Document
  <1> HIDE DEF d, items, scripts, item, script, o, a
  <1>8. CASE item.kind = "probe"
    <2>1. a \in ProbeAnswers /\ call.failed = ProbeFails(item.key, a)
      BY <1>2, <1>5, <1>8 DEF Answers, FailedTests
    <2>2. item.key \in {"get mutation", "malformed json", "invalid document", MediaProbe} =>
              ~(passed /\ Succeeded(a) /\ a.data)
      BY <2>1, ProbeVerdict
    <2> QED BY <1>8, <2>2, Zenon DEF VerdictsAreRight, d, items, scripts, item, script, o, a
  <1>9. CASE item.kind = "operation" /\ d.protocol = "grpc"
    <2>1. a \in GrpcAnswers(o)
      BY <1>2, <1>6, <1>9 DEF Answers
    <2>2. call.failed = GrpcFails(d, o, a)
      BY <1>2, <1>5, <1>9 DEF FailedTests, o
    <2>3. passed <=> GrpcMeets(d, o, a)
      BY <1>1, <1>5, <1>9, <2>1, <2>2, GrpcVerdict
    <2> QED BY <1>9, <2>3, Zenon DEF VerdictsAreRight, d, items, scripts, item, script, o, a
  <1>10. CASE item.kind = "operation" /\ d.protocol = "graphql"
    <2>1. a \in GraphqlAnswers(d, o)
      BY <1>2, <1>6, <1>10 DEF Answers
    <2>2. call.failed = GraphqlFails(d, o, a)
      BY <1>2, <1>5, <1>10 DEF FailedTests, o
    <2>3. passed <=> GraphqlMeets(a) /\ ~Misordered(d, o, a.flaw)
      BY <1>1, <1>10, <2>1, <2>2, GraphqlVerdict
    <2> QED BY <1>10, <2>3, Zenon DEF VerdictsAreRight, d, items, scripts, item, script, o, a
  <1>11. CASE item.kind = "operation" /\ d.protocol = "soap"
    <2>1. a \in SoapAnswers
      BY <1>2, <1>11 DEF Answers
    <2>2. o.version \in {"1.1", "1.2"} /\ o.pattern \in {"reply", "one-way", "in-only"}
      BY <1>1, <1>5, <1>11, Zenon DEF Document
    <2> DEFINE Verdict == /\ SoapMeets(d, o, a) /\ ~RequestFails(o, item.op)
                          /\ OneWay(o) => o.get \/ o.version = "1.1"
                          /\ ~OneWay(o) /\ Accepted(a) => ~o.element /\ ~d.addressed
    <2>3. ASSUME OneWay(o) PROVE passed <=> Verdict
      <3>1. call.failed = OneWayFails(o, item.op, a)
        BY <1>2, <1>5, <1>11, <2>3 DEF FailedTests, o
      <3> QED BY <2>1, <2>2, <2>3, <3>1, OneWayVerdict
    <2>4. ASSUME ~OneWay(o) PROVE passed <=> Verdict
      <3>1. call.failed = ReplyFails(d, o, item.op, a)
        BY <1>2, <1>5, <1>11, <2>4 DEF FailedTests, o
      <3>2. o.pattern = "reply"
        BY <2>2, <2>4 DEF OneWay
      <3> QED BY <2>1, <2>4, <3>1, <3>2, ReplyVerdict
    <2>5. passed <=> Verdict
      BY <2>3, <2>4
    <2> QED BY <1>11, <2>5, Zenon DEF VerdictsAreRight, d, items, scripts, item, script, o, a
  <1> QED BY <1>5, <1>7, <1>8, <1>9, <1>10, <1>11
-----------------------------------------------------------------------------
(***************************************************************************)
(* The shapes of messages: what is expanded is what is in sight.           *)
(***************************************************************************)
LEMMA AppendedIs ==
    ASSUME NEW s, IsSeq(s), NEW x
    PROVE  /\ IsSeq(Append(s, x)) /\ Len(s) \in Nat /\ Len(Append(s, x)) = Len(s) + 1
           /\ \A i \in 1..Len(s) : Append(s, x)[i] = s[i]
           /\ Append(s, x)[Len(s) + 1] = x
  <1>1. s \in Seq(ToSet(s) \cup {x}) /\ Len(s) \in Nat
    BY SeqMonotonic, IsSeqLen, Zenon DEF IsSeq
  <1>2. /\ Append(s, x) \in Seq(ToSet(s) \cup {x}) /\ Len(Append(s, x)) = Len(s) + 1
        /\ \A i \in 1..Len(s) : Append(s, x)[i] = s[i]
        /\ Append(s, x)[Len(s) + 1] = x
    BY <1>1, AppendProperties
  <1>3. IsSeq(Append(s, x))
    BY <1>2, SeqIsSeq, Zenon
  <1> QED BY <1>1, <1>2, <1>3

LEMMA FieldsWellFormed ==
    ASSUME NEW d, Document(d), d.protocol = "grpc", NEW m, NEW f \in FieldsOf(d, m)
    PROVE  /\ f = Field(f.name, f.type)
           /\ Declared(d, m) \/ m = StatusMessage
           /\ ~Declared(d, m) => f.type = "scalar"
  <1>1. CASE Declared(d, m)
    <2>1. m \in DOMAIN d.messages /\ f \in d.messages[m]
      BY <1>1, Zenon DEF Declared, FieldsOf
    <2>2. f = [name |-> f.name, type |-> f.type]
      BY <2>1, Zenon DEF Document
    <2> QED BY <1>1, <2>2, Zenon DEF Field
  <1>2. CASE ~Declared(d, m) /\ m = StatusMessage
    <2>1. f \in StatusFields
      BY <1>2, Zenon DEF FieldsOf
    <2> QED BY <1>2, <2>1 DEF StatusFields, Field
  <1>3. CASE ~Declared(d, m) /\ m # StatusMessage
    <2>1. f \in {}
      BY <1>3, Zenon DEF FieldsOf
    <2> QED BY <2>1
  <1> QED BY <1>1, <1>2, <1>3

Leveled(d, m, n, f) ==
    f = [k \in 0..n |-> IF k = 0 THEN {Root(m)} ELSE UNION {ExpandedBelow(d, node, k) : node \in f[k - 1]}]

LEMMA ShapesExist ==
    ASSUME NEW d, NEW m, NEW N \in Nat
    PROVE  \E f : Leveled(d, m, N, f)
  <1> DEFINE Bad == {n \in Nat : ~\E f : Leveled(d, m, n, f)}
  <1> SUFFICES ASSUME Bad # {} PROVE FALSE
    OBVIOUS
  <1>1. PICK l \in Bad : \A n \in Bad : l <= n
    BY LeastOf
  <1>2. l \in Nat /\ ~\E f : Leveled(d, m, l, f)
    OBVIOUS
  <1>3. CASE l = 0
    <2> DEFINE f == [k \in 0..0 |-> {Root(m)}]
    <2>1. f = [k \in 0..0 |-> IF k = 0 THEN {Root(m)} ELSE UNION {ExpandedBelow(d, node, k) : node \in f[k - 1]}]
      OBVIOUS
    <2> HIDE DEF f
    <2>2. Leveled(d, m, 0, f)
      BY <2>1, Zenon DEF Leveled
    <2> QED BY <1>2, <1>3, <2>2
  <1>4. CASE l # 0
    <2>1. l - 1 \in Nat /\ l - 1 \notin Bad
      BY <1>1, <1>2, <1>4
    <2>2. PICK f : Leveled(d, m, l - 1, f)
      BY <2>1
    <2> DEFINE g == [k \in 0..l |-> IF k = l THEN UNION {ExpandedBelow(d, node, l) : node \in f[l - 1]} ELSE f[k]]
               Body(h, k) == IF k = 0 THEN {Root(m)} ELSE UNION {ExpandedBelow(d, node, k) : node \in h[k - 1]}
    <2>3. f = [k \in 0..(l - 1) |-> Body(f, k)]
      BY <2>2, Zenon DEF Leveled
    <2>4. \A k \in 0..(l - 1) : f[k] = Body(f, k)
      <3> HIDE DEF Body
      <3> QED BY <2>3
    <2>5. ASSUME NEW k \in 0..l PROVE g[k] = Body(g, k)
      <3>1. CASE k = l
        <4>1. l - 1 \in 0..l /\ l - 1 # l
          BY <1>2, <1>4
        <4>2. g[l - 1] = f[l - 1]
          BY <4>1
        <4>3. g[k] = UNION {ExpandedBelow(d, node, l) : node \in f[l - 1]}
          BY <3>1
        <4> HIDE DEF g
        <4> QED BY <1>4, <3>1, <4>2, <4>3
      <3>2. CASE k # l /\ k # 0
        <4>1. k - 1 \in 0..l /\ k - 1 # l /\ k \in 0..(l - 1)
          BY <1>2, <2>5, <3>2
        <4>2. g[k - 1] = f[k - 1] /\ g[k] = f[k]
          BY <3>2, <4>1
        <4>3. f[k] = Body(f, k)
          BY <2>4, <4>1
        <4> HIDE DEF g
        <4> QED BY <3>2, <4>2, <4>3
      <3>3. CASE k = 0
        <4>1. g[k] = f[k] /\ k \in 0..(l - 1)
          BY <1>2, <1>4, <3>3
        <4>2. f[k] = Body(f, k)
          BY <2>4, <4>1
        <4> HIDE DEF g
        <4> QED BY <3>3, <4>1, <4>2
      <3> QED BY <3>1, <3>2, <3>3
    <2>6. DOMAIN g = 0..l /\ g = [k \in DOMAIN g |-> g[k]]
      OBVIOUS
    <2> HIDE DEF g, Body
    <2>7. g = [k \in 0..l |-> Body(g, k)]
      BY <2>5, <2>6
    <2>8. Leveled(d, m, l, g)
      BY <2>7, Zenon DEF Leveled, Body
    <2> QED BY <1>2, <2>8
  <1> QED BY <1>3, <1>4

\* The levels of a shape, by their recursion.
LEMMA ShapeOpens ==
    ASSUME NEW d, NEW m
    PROVE  /\ ShapeDepth \in Nat
           /\ ShapeLevels(d, m)[0] = {Root(m)}
           /\ \A k \in 1..(ShapeDepth + 1) :
                 ShapeLevels(d, m)[k] = UNION {ExpandedBelow(d, node, k) : node \in ShapeLevels(d, m)[k - 1]}
  <1> DEFINE N == ShapeDepth + 1
             level == ShapeLevels(d, m)
             Step(k) == IF k = 0 THEN {Root(m)} ELSE UNION {ExpandedBelow(d, node, k) : node \in level[k - 1]}
  <1>1. ShapeDepth \in Nat /\ N \in Nat
    <2>1. ShapeDepth \in Nat
      BY ContractAssumption, Zenon
    <2> QED BY <2>1
  <1>2. level = CHOOSE f : f = [k \in 0..N |-> IF k = 0 THEN {Root(m)}
                                               ELSE UNION {ExpandedBelow(d, node, k) : node \in f[k - 1]}]
    BY DEF ShapeLevels
  <1>3. \E f : f = [k \in 0..N |-> IF k = 0 THEN {Root(m)} ELSE UNION {ExpandedBelow(d, node, k) : node \in f[k - 1]}]
    <2> HIDE DEF N
    <2>1. \E f : Leveled(d, m, N, f)
      BY <1>1, ShapesExist, Zenon
    <2> QED BY <2>1, Zenon DEF Leveled
  <1> HIDE DEF N, level
  <1>4. level = [k \in 0..N |-> Step(k)]
    BY <1>2, <1>3, Zenon
  <1>5. \A k \in 0..N : level[k] = Step(k)
    <2> HIDE DEF Step
    <2> QED BY <1>4
  <1>6. 0 \in 0..N /\ \A k \in 1..N : k \in 0..N /\ k # 0
    BY <1>1
  <1>7. level[0] = {Root(m)} /\ \A k \in 1..N : level[k] = UNION {ExpandedBelow(d, node, k) : node \in level[k - 1]}
    BY <1>5, <1>6
  <1> QED BY <1>1, <1>7 DEF N, level
-----------------------------------------------------------------------------
LEMMA SameSequence ==
    ASSUME NEW s, NEW t, IsSeq(s), IsSeq(t), Len(s) = Len(t), \A i \in 1..Len(s) : s[i] = t[i]
    PROVE  s = t
  <1> DEFINE S == ToSet(s) \cup ToSet(t)
  <1>1. s \in Seq(S)
    BY SeqMonotonic, Zenon DEF IsSeq
  <1>2. t \in Seq(S)
    BY SeqMonotonic, Zenon DEF IsSeq
  <1> HIDE DEF S
  <1> QED BY <1>1, <1>2, SeqEqual

\* A message on a way is none that came before, and not too deep.
NewOnWay(d, way, i) == Declared(d, way[i]) => i <= ShapeDepth + 1 /\ \A j \in 1..(i - 1) : way[j] # way[i]
\* The path to a node and the messages on the way there.
Trail(d, m, path, way, k) ==
    /\ IsSeq(path) /\ Len(path) = k
    /\ IsSeq(way) /\ Len(way) = k + 1
    /\ way[1] = m
    /\ \A i \in 1..k : Field(path[i], way[i + 1]) \in FieldsOf(d, way[i])
    /\ \A i \in 1..(k + 1) : NewOnWay(d, way, i) /\ way[i] \in DOMAIN d.messages \cup {m, StatusMessage}

LEMMA RootIs ==
    ASSUME NEW m
    PROVE  /\ IsSeq(Root(m).path) /\ Len(Root(m).path) = 0
           /\ IsSeq(Root(m).way) /\ Len(Root(m).way) = 1 /\ Root(m).way[1] = m
  <1>1. Root(m).path = <<>> /\ Root(m).way = <<m>>
    BY DEF Root
  <1>2. <<m>> \in Seq({m}) /\ Len(<<m>>) = 1 /\ <<m>>[1] = m /\ Len(<<>>) = 0
    OBVIOUS
  <1>3. IsSeq(<<m>>) /\ IsSeq(<<>>)
    BY <1>2, SeqIsSeq, NoProbe, Zenon
  <1> QED BY <1>1, <1>2, <1>3

LEMMA TrailStarts ==
    ASSUME NEW d, NEW m
    PROVE  Trail(d, m, Root(m).path, Root(m).way, 0)
  <1> DEFINE path == Root(m).path
             way == Root(m).way
  <1>1. IsSeq(path) /\ Len(path) = 0 /\ IsSeq(way) /\ Len(way) = 0 + 1 /\ way[1] = m
    BY RootIs
  <1> HIDE DEF path, way
  <1>2. \A i \in 1..(0 + 1) : NewOnWay(d, way, i) /\ way[i] \in DOMAIN d.messages \cup {m, StatusMessage}
    <2>1. ShapeDepth \in Nat
      BY ContractAssumption, Zenon
    <2>2. \A i \in 1..(0 + 1) : i = 1 /\ i <= ShapeDepth + 1 /\ 1..(i - 1) = {}
      BY <2>1
    <2> QED BY <1>1, <2>2 DEF NewOnWay
  <1>3. \A i \in 1..0 : Field(path[i], way[i + 1]) \in FieldsOf(d, way[i])
    OBVIOUS
  <1>4. Trail(d, m, path, way, 0)
    BY <1>1, <1>2, <1>3, Zenon DEF Trail
  <1> QED BY <1>4 DEF path, way

LEMMA TrailGrows ==
    ASSUME NEW d, Document(d), d.protocol = "grpc", NEW m, NEW k \in Nat, NEW node,
           Trail(d, m, node.path, node.way, k),
           NEW f \in FieldsOf(d, Last(node.way)), Expands(d, node, f, k + 1)
    PROVE  Trail(d, m, Below(node, f).path, Below(node, f).way, k + 1)
  <1> DEFINE path == node.path
             way == node.way
             path2 == Below(node, f).path
             way2 == Below(node, f).way
  <1>1. /\ IsSeq(path) /\ Len(path) = k /\ IsSeq(way) /\ Len(way) = k + 1 /\ way[1] = m
        /\ \A i \in 1..k : Field(path[i], way[i + 1]) \in FieldsOf(d, way[i])
        /\ \A i \in 1..(k + 1) : NewOnWay(d, way, i) /\ way[i] \in DOMAIN d.messages \cup {m, StatusMessage}
    BY DEF Trail
  <1>2. path2 = Append(path, f.name) /\ way2 = Append(way, f.type)
    BY DEF Below
  <1>3. Last(way) = way[k + 1] /\ f = Field(f.name, f.type)
    BY <1>1, FieldsWellFormed DEF Last
  <1>4. f \in FieldsOf(d, way[k + 1])
    BY <1>3
  <1>5. /\ Declared(d, f.type) => k + 1 <= ShapeDepth /\ f.type \notin ToSet(way)
        /\ Declared(d, f.type) \/ f.type = StatusMessage
    BY Zenon DEF Expands
  <1> HIDE DEF path, way, path2, way2
  <1>6. /\ IsSeq(path2) /\ Len(path2) = k + 1 /\ path2[k + 1] = f.name
        /\ \A i \in 1..k : path2[i] = path[i]
    BY <1>1, <1>2, AppendedIs
  <1>7. /\ IsSeq(way2) /\ Len(way2) = (k + 1) + 1 /\ way2[(k + 1) + 1] = f.type
        /\ \A i \in 1..(k + 1) : way2[i] = way[i]
    BY <1>1, <1>2, AppendedIs
  <1>8. way2[1] = m
    BY <1>1, <1>7
  <1>9. ASSUME NEW i \in 1..(k + 1)
        PROVE  Field(path2[i], way2[i + 1]) \in FieldsOf(d, way2[i])
    <2>1. CASE i = k + 1
      BY <1>3, <1>4, <1>6, <1>7, <2>1
    <2>2. CASE i # k + 1
      <3>1. i \in 1..k /\ i + 1 \in 1..(k + 1)
        BY <1>9, <2>2
      <3> QED BY <1>1, <1>6, <1>7, <3>1
    <2> QED BY <2>1, <2>2
  <1>10. ASSUME NEW i \in 1..((k + 1) + 1)
         PROVE  NewOnWay(d, way2, i) /\ way2[i] \in DOMAIN d.messages \cup {m, StatusMessage}
    <2>1. CASE i = (k + 1) + 1
      <3>1. way2[i] = f.type
        BY <1>7, <2>1
      <3>2. f.type \in DOMAIN d.messages \cup {m, StatusMessage}
        BY <1>5 DEF Declared
      <3>3. \A j \in 1..(i - 1) : j \in 1..(k + 1) /\ way2[j] = way[j] /\ way[j] \in ToSet(way)
        <4>1. DOMAIN way = 1..(k + 1)
          BY <1>1, IsSeqLen
        <4>2. \A j \in 1..(k + 1) : way[j] \in ToSet(way)
          BY <4>1 DEF ToSet
        <4>3. \A j \in 1..(i - 1) : j \in 1..(k + 1)
          BY <2>1
        <4> QED BY <1>7, <4>2, <4>3
      <3>4. ShapeDepth \in Nat /\ (k + 1 <= ShapeDepth => i <= ShapeDepth + 1)
        <4>1. ShapeDepth \in Nat
          BY ContractAssumption, Zenon
        <4> QED BY <2>1, <4>1
      <3>5. NewOnWay(d, way2, i)
        BY <1>5, <3>1, <3>3, <3>4 DEF NewOnWay
      <3> QED BY <3>1, <3>2, <3>5
    <2>2. CASE i # (k + 1) + 1
      <3>1. i \in 1..(k + 1) /\ \A j \in 1..(i - 1) : j \in 1..(k + 1)
        BY <1>10, <2>2
      <3>2. way2[i] = way[i] /\ \A j \in 1..(i - 1) : way2[j] = way[j]
        BY <1>7, <3>1
      <3> QED BY <1>1, <3>1, <3>2 DEF NewOnWay
    <2> QED BY <2>1, <2>2
  <1>11. Trail(d, m, path2, way2, k + 1)
    BY <1>6, <1>7, <1>8, <1>9, <1>10, Zenon DEF Trail
  <1> QED BY <1>11 DEF path2, way2

LEMMA TrailsLead ==
    ASSUME NEW d, Document(d), d.protocol = "grpc", NEW m
    PROVE  \A k \in 0..(ShapeDepth + 1) : \A node \in ShapeLevels(d, m)[k] : Trail(d, m, node.path, node.way, k)
  <1> DEFINE level == ShapeLevels(d, m)
             Led(k) == \A node \in level[k] : Trail(d, m, node.path, node.way, k)
             Bad == {k \in 0..(ShapeDepth + 1) : ~Led(k)}
  <1>1. /\ ShapeDepth \in Nat /\ level[0] = {Root(m)}
        /\ \A k \in 1..(ShapeDepth + 1) : level[k] = UNION {ExpandedBelow(d, node, k) : node \in level[k - 1]}
    BY ShapeOpens
  <1> HIDE DEF level
  <1> SUFFICES ASSUME Bad # {} PROVE FALSE
    BY DEF level
  <1>2. Bad \in SUBSET Nat
    BY <1>1
  <1>3. PICK l \in Bad : \A k \in Bad : l <= k
    BY <1>2, LeastOf
  <1>4. l \in 0..(ShapeDepth + 1) /\ ~Led(l)
    OBVIOUS
  <1>5. Led(0)
    BY <1>1, TrailStarts
  <1>6. l \in 1..(ShapeDepth + 1) /\ l - 1 \in Nat /\ l - 1 \in 0..(ShapeDepth + 1) /\ l - 1 \notin Bad /\ (l - 1) + 1 = l
    BY <1>1, <1>3, <1>4, <1>5
  <1>7. Led(l - 1)
    BY <1>6
  <1>8. ASSUME NEW x \in level[l] PROVE Trail(d, m, x.path, x.way, l)
    <2>1. x \in UNION {ExpandedBelow(d, node, l) : node \in level[l - 1]}
      BY <1>1, <1>6, <1>8
    <2>2. PICK node \in level[l - 1] : x \in ExpandedBelow(d, node, l)
      <3> HIDE DEF Led, Bad
      <3> QED BY <2>1, Zenon
    <2>3. PICK f \in FieldsOf(d, Last(node.way)) : Expands(d, node, f, l) /\ x = Below(node, f)
      BY <2>2, Zenon DEF ExpandedBelow
    <2>4. Trail(d, m, node.path, node.way, l - 1)
      BY <1>7, <2>2
    <2>5. Expands(d, node, f, (l - 1) + 1)
      BY <1>6, <2>3
    <2>6. Trail(d, m, x.path, x.way, (l - 1) + 1)
      BY <1>6, <2>3, <2>4, <2>5, TrailGrows, Zenon
    <2> QED BY <1>6, <2>6
  <1> QED BY <1>4, <1>8

LEMMA AssertedIsInSight ==
    ASSUME NEW d, Document(d), d.protocol = "grpc", NEW m, NEW p \in AssertedPaths(d, m)
    PROVE  InSight(d, m, p)
  <1>1. PICK node \in Shape(d, m) :
            \E f \in FieldsOf(d, Last(node.way)) : f.type # "unresolved" /\ p = Append(node.path, f.name)
    BY Zenon DEF AssertedPaths
  <1>2. PICK f \in FieldsOf(d, Last(node.way)) : f.type # "unresolved" /\ p = Append(node.path, f.name)
    BY <1>1
  <1>3. PICK k \in 0..(ShapeDepth + 1) : node \in ShapeLevels(d, m)[k]
    BY Zenon DEF Shape
  <1>4. k \in Nat /\ Trail(d, m, node.path, node.way, k)
    <2>1. Trail(d, m, node.path, node.way, k)
      BY <1>3, TrailsLead, Zenon
    <2>2. ShapeDepth \in Nat
      BY ContractAssumption, Zenon
    <2> QED BY <2>1, <2>2
  <1> DEFINE path == node.path
             way == node.way
             known == DOMAIN d.messages \cup {m, StatusMessage}
  <1>5. /\ IsSeq(path) /\ Len(path) = k /\ IsSeq(way) /\ Len(way) = k + 1 /\ way[1] = m
        /\ \A i \in 1..k : Field(path[i], way[i + 1]) \in FieldsOf(d, way[i])
        /\ \A i \in 1..(k + 1) : NewOnWay(d, way, i) /\ way[i] \in known
    BY <1>4 DEF Trail
  <1> HIDE DEF path, way, known
  <1>6. p = Append(path, f.name) /\ f \in FieldsOf(d, Last(way))
    BY <1>2 DEF path, way
  <1>7. IsSeq(p) /\ Len(p) = k + 1 /\ p[k + 1] = f.name /\ \A i \in 1..k : p[i] = path[i]
    BY <1>5, <1>6, AppendedIs
  <1>8. DOMAIN p = 1..(k + 1)
    BY <1>7, IsSeqLen
  <1>9. way \in [DOMAIN p -> known]
    <2>1. way \in Seq(ToSet(way))
      BY <1>5 DEF IsSeq
    <2>2. way \in [1..(k + 1) -> ToSet(way)]
      BY <1>5, <2>1, LenProperties
    <2> QED BY <1>5, <1>8, <2>2
  <1>10. \A i \in 1..(Len(p) - 1) : Field(p[i], way[i + 1]) \in FieldsOf(d, way[i])
    <2>1. Len(p) - 1 = k
      BY <1>4, <1>7
    <2> QED BY <1>5, <1>7, <2>1
  <1>11. \E g \in FieldsOf(d, way[Len(p)]) : g.name = p[Len(p)] /\ g.type # "unresolved"
    <2>1. Last(way) = way[k + 1]
      BY <1>5 DEF Last
    <2> QED BY <1>2, <1>6, <1>7, <2>1
  <1>12. \A i \in DOMAIN p : Declared(d, way[i]) => i <= ShapeDepth + 1 /\ \A j \in 1..(i - 1) : way[j] # way[i]
    BY <1>5, <1>8, Zenon DEF NewOnWay
  <1> QED BY <1>5, <1>9, <1>10, <1>11, <1>12, Zenon DEF InSight, known
-----------------------------------------------------------------------------
\* The ways on which a path is in sight.
Sighted(d, m, p, way) ==
    /\ way[1] = m
    /\ \A i \in 1..(Len(p) - 1) : Field(p[i], way[i + 1]) \in FieldsOf(d, way[i])
    /\ \E f \in FieldsOf(d, way[Len(p)]) : f.name = p[Len(p)] /\ f.type # "unresolved"
    /\ \A i \in DOMAIN p : NewOnWay(d, way, i)

LEMMA InSightOnAWay ==
    ASSUME NEW d, NEW m, NEW p, InSight(d, m, p)
    PROVE  \E way : Sighted(d, m, p, way)
  BY Zenon DEF InSight, Sighted, NewOnWay

\* Every message on the way has fields, and the way is not longer than the levels.
LEMMA SightEnds ==
    ASSUME NEW d, Document(d), d.protocol = "grpc", NEW m, NEW p, IsSeq(p), p # <<>>,
           NEW way, Sighted(d, m, p, way)
    PROVE  /\ Len(p) \in Nat \ {0} /\ DOMAIN p = 1..Len(p)
           /\ \A i \in 1..Len(p) : Declared(d, way[i]) \/ way[i] = StatusMessage
           /\ Len(p) - 1 <= ShapeDepth + 1
  <1> DEFINE n == Len(p)
  <1>1. n \in Nat \ {0} /\ DOMAIN p = 1..n
    <2>1. n \in Nat /\ DOMAIN p = 1..n
      BY IsSeqLen
    <2>2. n # 0
      BY EmptySeq, Zenon DEF IsSeq
    <2> QED BY <2>1, <2>2
  <1>2. ShapeDepth \in Nat
    BY ContractAssumption, Zenon
  <1>3. /\ \A i \in 1..(n - 1) : Field(p[i], way[i + 1]) \in FieldsOf(d, way[i])
        /\ \E f \in FieldsOf(d, way[n]) : f.name = p[n] /\ f.type # "unresolved"
        /\ \A i \in 1..n : NewOnWay(d, way, i)
    BY <1>1 DEF Sighted
  <1> HIDE DEF n
  <1>4. ASSUME NEW i \in 1..n PROVE Declared(d, way[i]) \/ way[i] = StatusMessage
    <2>1. \E f : f \in FieldsOf(d, way[i])
      <3>1. CASE i = n
        BY <1>3, <3>1
      <3>2. CASE i # n
        <4>1. i \in 1..(n - 1)
          BY <1>1, <1>4, <3>2
        <4> QED BY <1>3, <4>1
      <3> QED BY <3>1, <3>2
    <2>2. PICK f : f \in FieldsOf(d, way[i])
      BY <2>1
    <2> QED BY <2>2, FieldsWellFormed
  <1>5. n - 1 <= ShapeDepth + 1
    <2> DEFINE i == ShapeDepth + 2
    <2> SUFFICES ASSUME ~(n - 1 <= ShapeDepth + 1) PROVE FALSE
      OBVIOUS
    <2>1. i \in 1..(n - 1) /\ i \in 1..n /\ i + 1 \in 1..n /\ ~(i <= ShapeDepth + 1) /\ ~(i + 1 <= ShapeDepth + 1)
      BY <1>1, <1>2
    <2> HIDE DEF i
    <2>2. ~Declared(d, way[i]) /\ ~Declared(d, way[i + 1])
      BY <1>3, <2>1 DEF NewOnWay
    <2>3. Field(p[i], way[i + 1]) \in FieldsOf(d, way[i])
      BY <1>3, <2>1
    <2>4. Field(p[i], way[i + 1]).type = "scalar"
      BY <2>2, <2>3, FieldsWellFormed
    <2>5. way[i + 1] = "scalar"
      BY <2>4 DEF Field
    <2>6. way[i + 1] = StatusMessage
      BY <1>4, <2>1, <2>2
    <2> QED BY <2>5, <2>6 DEF StatusMessage
  <1> QED BY <1>1, <1>4, <1>5 DEF n

\* The node at level k is there by the first steps of the path.
Reaches(p, way, node, k) ==
    /\ IsSeq(node.path) /\ Len(node.path) = k /\ \A i \in 1..k : node.path[i] = p[i]
    /\ IsSeq(node.way) /\ Len(node.way) = k + 1 /\ \A i \in 1..(k + 1) : node.way[i] = way[i]

LEMMA ReachedNext ==
    ASSUME NEW d, Document(d), d.protocol = "grpc", NEW m, NEW p, NEW way, NEW k \in Nat, NEW node,
           Reaches(p, way, node, k), k + 1 <= ShapeDepth + 1,
           Field(p[k + 1], way[k + 2]) \in FieldsOf(d, way[k + 1]),
           NewOnWay(d, way, k + 2), Declared(d, way[k + 2]) \/ way[k + 2] = StatusMessage
    PROVE  \E x \in ExpandedBelow(d, node, k + 1) : Reaches(p, way, x, k + 1)
  <1> DEFINE f == Field(p[k + 1], way[k + 2])
             x == Below(node, f)
  <1>1. f.name = p[k + 1] /\ f.type = way[k + 2]
    BY DEF Field
  <1>2. /\ IsSeq(node.path) /\ Len(node.path) = k /\ \A i \in 1..k : node.path[i] = p[i]
        /\ IsSeq(node.way) /\ Len(node.way) = k + 1 /\ \A i \in 1..(k + 1) : node.way[i] = way[i]
    BY DEF Reaches
  <1>3. Last(node.way) = way[k + 1]
    <2>1. Last(node.way) = node.way[k + 1] /\ k + 1 \in 1..(k + 1)
      BY <1>2 DEF Last
    <2> QED BY <1>2, <2>1
  <1>4. Expands(d, node, f, k + 1)
    <2>1. ShapeDepth \in Nat
      BY ContractAssumption, Zenon
    <2>2. Declared(d, way[k + 2]) => k + 1 <= ShapeDepth /\ \A j \in 1..(k + 1) : way[j] # way[k + 2]
      <3>1. Declared(d, way[k + 2]) => k + 2 <= ShapeDepth + 1 /\ \A j \in 1..((k + 2) - 1) : way[j] # way[k + 2]
        BY Zenon DEF NewOnWay
      <3>2. (k + 2) - 1 = k + 1 /\ (k + 2 <= ShapeDepth + 1 => k + 1 <= ShapeDepth)
        BY <2>1
      <3> QED BY <3>1, <3>2
    <2>3. \A t \in ToSet(node.way) : \E j \in 1..(k + 1) : t = way[j]
      <3>1. DOMAIN node.way = 1..(k + 1)
        BY <1>2, IsSeqLen
      <3> QED BY <1>2, <3>1 DEF ToSet
    <2>4. Declared(d, way[k + 2]) => way[k + 2] \notin ToSet(node.way)
      BY <2>2, <2>3
    <2> HIDE DEF f
    <2> QED BY <1>1, <2>2, <2>4, Zenon DEF Expands
  <1>5. f \in FieldsOf(d, Last(node.way))
    BY <1>3
  <1> HIDE DEF f
  <1>6. x \in ExpandedBelow(d, node, k + 1)
    BY <1>4, <1>5, Zenon DEF ExpandedBelow
  <1>7. x.path = Append(node.path, p[k + 1]) /\ x.way = Append(node.way, way[k + 2])
    BY <1>1 DEF Below
  <1> HIDE DEF x
  <1>8. IsSeq(x.path) /\ Len(x.path) = k + 1 /\ \A i \in 1..(k + 1) : x.path[i] = p[i]
    <2>1. /\ IsSeq(x.path) /\ Len(x.path) = k + 1 /\ x.path[k + 1] = p[k + 1]
          /\ \A i \in 1..k : x.path[i] = node.path[i]
      BY <1>2, <1>7, AppendedIs
    <2>2. \A i \in 1..(k + 1) : i \in 1..k \/ i = k + 1
      OBVIOUS
    <2> QED BY <1>2, <2>1, <2>2
  <1>9. IsSeq(x.way) /\ Len(x.way) = (k + 1) + 1 /\ \A i \in 1..((k + 1) + 1) : x.way[i] = way[i]
    <2>1. /\ IsSeq(x.way) /\ Len(x.way) = (k + 1) + 1 /\ x.way[(k + 1) + 1] = way[k + 2]
          /\ \A i \in 1..(k + 1) : x.way[i] = node.way[i]
      BY <1>2, <1>7, AppendedIs
    <2>2. (k + 1) + 1 = k + 2 /\ \A i \in 1..((k + 1) + 1) : i \in 1..(k + 1) \/ i = k + 2
      OBVIOUS
    <2> QED BY <1>2, <2>1, <2>2
  <1>10. Reaches(p, way, x, k + 1)
    BY <1>8, <1>9, Zenon DEF Reaches
  <1> QED BY <1>6, <1>10

LEMMA ReachedInLevel ==
    ASSUME NEW d, Document(d), d.protocol = "grpc", NEW m, NEW p, IsSeq(p), p # <<>>,
           NEW way, Sighted(d, m, p, way)
    PROVE  \A k \in 0..(Len(p) - 1) : \E node \in ShapeLevels(d, m)[k] : Reaches(p, way, node, k)
  <1> DEFINE n == Len(p)
             level == ShapeLevels(d, m)
             There(k) == \E node \in level[k] : Reaches(p, way, node, k)
             Bad == {k \in 0..(n - 1) : ~There(k)}
  <1>1. /\ n \in Nat \ {0} /\ DOMAIN p = 1..n /\ n - 1 <= ShapeDepth + 1
        /\ \A i \in 1..n : Declared(d, way[i]) \/ way[i] = StatusMessage
    BY SightEnds
  <1>2. /\ ShapeDepth \in Nat /\ level[0] = {Root(m)}
        /\ \A k \in 1..(ShapeDepth + 1) : level[k] = UNION {ExpandedBelow(d, node, k) : node \in level[k - 1]}
    BY ShapeOpens
  <1>3. /\ way[1] = m
        /\ \A i \in 1..(n - 1) : Field(p[i], way[i + 1]) \in FieldsOf(d, way[i])
        /\ \A i \in 1..n : NewOnWay(d, way, i)
    BY <1>1 DEF Sighted
  <1> HIDE DEF n, level
  <1> SUFFICES ASSUME Bad # {} PROVE FALSE
    BY DEF n, level
  <1>4. Bad \in SUBSET Nat
    BY <1>1
  <1>5. PICK l \in Bad : \A k \in Bad : l <= k
    BY <1>4, LeastOf
  <1>6. l \in 0..(n - 1) /\ ~There(l)
    OBVIOUS
  <1>7. There(0)
    <2>1. Reaches(p, way, Root(m), 0)
      <3>1. \A i \in 1..(0 + 1) : i = 1
        OBVIOUS
      <3>2. \A i \in 1..0 : FALSE
        OBVIOUS
      <3>3. Len(Root(m).way) = 0 + 1
        BY RootIs
      <3> QED BY <1>3, <3>1, <3>2, <3>3, RootIs, Zenon DEF Reaches
    <2> QED BY <1>2, <2>1
  <1>8. l \in Nat \ {0} /\ l - 1 \in 0..(n - 1) /\ l - 1 \notin Bad /\ l \in 1..(ShapeDepth + 1)
    BY <1>1, <1>2, <1>5, <1>6, <1>7
  <1>9. PICK node \in level[l - 1] : Reaches(p, way, node, l - 1)
    BY <1>8
  <1> DEFINE k == l - 1
  <1>10. k \in Nat /\ k + 1 = l /\ k + 1 <= ShapeDepth + 1 /\ k + 1 \in 1..(n - 1) /\ (k + 1) + 1 = k + 2 /\ k + 2 \in 1..n
    BY <1>1, <1>2, <1>6, <1>8
  <1>11. Field(p[k + 1], way[k + 2]) \in FieldsOf(d, way[k + 1])
    <2> HIDE DEF k
    <2>1. Field(p[k + 1], way[(k + 1) + 1]) \in FieldsOf(d, way[k + 1])
      BY <1>3, <1>10
    <2> QED BY <1>10, <2>1
  <1>12. NewOnWay(d, way, k + 2) /\ (Declared(d, way[k + 2]) \/ way[k + 2] = StatusMessage)
    <2> HIDE DEF k
    <2> QED BY <1>1, <1>3, <1>10
  <1>13. PICK x \in ExpandedBelow(d, node, k + 1) : Reaches(p, way, x, k + 1)
    <2>1. Reaches(p, way, node, k)
      BY <1>9
    <2> HIDE DEF k
    <2> QED BY <1>10, <1>11, <1>12, <2>1, ReachedNext, Zenon
  <1>14. x \in level[l]
    <2>1. x \in ExpandedBelow(d, node, l)
      BY <1>10, <1>13
    <2>2. level[l] = UNION {ExpandedBelow(d, y, l) : y \in level[l - 1]}
      BY <1>2, <1>8
    <2> QED BY <1>9, <2>1, <2>2, Zenon
  <1>15. Reaches(p, way, x, l)
    BY <1>10, <1>13
  <1> QED BY <1>6, <1>14, <1>15

LEMMA InSightIsAsserted ==
    ASSUME NEW d, Document(d), d.protocol = "grpc", NEW m, NEW p, IsSeq(p), p # <<>>, InSight(d, m, p)
    PROVE  p \in AssertedPaths(d, m)
  <1>1. PICK way : Sighted(d, m, p, way)
    BY InSightOnAWay, Zenon
  <1> DEFINE n == Len(p)
             k == n - 1
  <1>2. n \in Nat \ {0} /\ n - 1 <= ShapeDepth + 1 /\ ShapeDepth \in Nat
    <2>1. ShapeDepth \in Nat
      BY ContractAssumption, Zenon
    <2> QED BY <1>1, <2>1, SightEnds
  <1>3. \A i \in 0..(n - 1) : \E node \in ShapeLevels(d, m)[i] : Reaches(p, way, node, i)
    BY <1>1, ReachedInLevel, Zenon
  <1>4. PICK f \in FieldsOf(d, way[n]) : f.name = p[n] /\ f.type # "unresolved"
    BY <1>1 DEF Sighted
  <1> HIDE DEF n
  <1>5. k \in Nat /\ k \in 0..(n - 1) /\ k \in 0..(ShapeDepth + 1) /\ k + 1 = n
    BY <1>2
  <1> HIDE DEF k
  <1>6. PICK node \in ShapeLevels(d, m)[k] : Reaches(p, way, node, k)
    BY <1>3, <1>5
  <1>7. node \in Shape(d, m)
    BY <1>5, <1>6, Zenon DEF Shape
  <1>8. /\ IsSeq(node.path) /\ Len(node.path) = k /\ \A i \in 1..k : node.path[i] = p[i]
        /\ IsSeq(node.way) /\ Len(node.way) = k + 1 /\ \A i \in 1..(k + 1) : node.way[i] = way[i]
    BY <1>6 DEF Reaches
  <1>9. Last(node.way) = way[n]
    <2>1. Last(node.way) = node.way[k + 1] /\ k + 1 \in 1..(k + 1)
      BY <1>5, <1>8 DEF Last
    <2> QED BY <1>5, <1>8, <2>1
  <1>10. Append(node.path, f.name) = p
    <2> DEFINE t == Append(node.path, f.name)
    <2>1. IsSeq(t) /\ Len(t) = k + 1 /\ t[k + 1] = f.name /\ \A i \in 1..k : t[i] = node.path[i]
      BY <1>8, AppendedIs
    <2> HIDE DEF t
    <2>2. \A i \in 1..(k + 1) : i \in 1..k \/ i = k + 1
      BY <1>5
    <2>3. Len(t) = Len(p) /\ \A i \in 1..Len(t) : t[i] = p[i]
      BY <1>4, <1>5, <1>8, <2>1, <2>2 DEF n
    <2>4. t = p
      BY <2>1, <2>3, SameSequence, Zenon
    <2> QED BY <2>4 DEF t
  <1>11. f \in FieldsOf(d, Last(node.way))
    BY <1>9
  <1>12. p \in {Append(node.path, g.name) : g \in {h \in FieldsOf(d, Last(node.way)) : h.type # "unresolved"}}
    BY <1>4, <1>10, <1>11, Zenon
  <1> QED BY <1>7, <1>12, Zenon DEF AssertedPaths

LEMMA ContractInvSight == ContractInv => ShapesAreInSight
  <1> SUFFICES ASSUME ContractInv, contract.doc.protocol = "grpc",
                      NEW o \in OperationsIn(contract.doc), NEW p \in UNION WrongFields
               PROVE  p \in AssertedPaths(contract.doc, o.response) <=> InSight(contract.doc, o.response, p)
    BY Zenon DEF ShapesAreInSight
  <1>1. Document(contract.doc)
    BY Documents DEF ContractInv, ContractTyped
  <1>2. IsSeq(p) /\ p # <<>>
    BY ContractAssumption, Zenon DEF IsSeq
  <1> QED BY <1>1, <1>2, AssertedIsInSight, InSightIsAsserted, Zenon

\* Every finished collection of a gRPC, GraphQL or SOAP document has an item
\* and tests for each operation, what it asserts of a message is what lies in
\* sight, and an item passes just the answers that meet the contract, apart
\* from the named exceptions.
THEOREM ContractsSafe == ContractsSpec => []ContractsAreSafe
  <1>1. ContractsSpec => []ContractInv
    BY ContractsInitInv, ContractInvStep, PTL DEF ContractsSpec
  <1>2. ContractInv => ContractsAreSafe
    BY ContractInvWhole, ContractInvOwn, ContractInvSight, ContractInvVerdicts DEF ContractsAreSafe
  <1> QED BY <1>1, <1>2, PTL
=============================================================================
