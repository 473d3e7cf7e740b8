------------------------- MODULE GatewayClientProofs -------------------------
(***************************************************************************)
(* Theorems about the mechanisms of the gateway client: the shared access  *)
(* token, for any set of callers and any number of mint attempts and       *)
(* tokens, the paged inventory reads, for any number of loops, delays and  *)
(* pages, the import lanes, for any set of writes, the generated           *)
(* collections, for any number of runs, ids, polls and retries, and the    *)
(* collection import, for any set of importers, roots and payloads, any    *)
(* number of failing calls, and with or without deferred verification.     *)
(***************************************************************************)
EXTENDS TokenProvider, InventoryReads, ImportLanes, GeneratedCollections, CollectionImport,
        FiniteSetTheorems, SequenceTheorems, WellFoundedInduction, TLAPS

-----------------------------------------------------------------------------
(* The access token provider                                               *)

\* The promise that refresh() hands out is the one mint that runs.
FlightIsTheMint == \A c \in Callers : mint[c].pc # "none" <=> inflight = c

\* Who waits, waits for that mint.
WaitersShareFlight ==
    \A c \in Callers : caller[c].pc = "waiting" => inflight \in Callers /\ caller[c].on = inflight

\* Nobody carries a token that was not minted yet.
TokensCarried == \A c \in Callers : caller[c].with <= token

TokenInv == TokenTypeOK /\ FlightIsTheMint /\ WaitersShareFlight /\ TokensCarried

LEMMA CallerFields ==
    ASSUME NEW s \in CallerState
    PROVE  /\ \A v \in {"sent", "waiting"} : [s EXCEPT !.pc = v] \in CallerState
           /\ \A v \in Tokens : [s EXCEPT !.with = v] \in CallerState
           /\ \A v \in Callers : [s EXCEPT !.on = v] \in CallerState
BY SMT DEF CallerState

LEMMA TokenInitOK == TokenInit => TokenInv
<1> SUFFICES ASSUME TokenInit PROVE TokenInv
  OBVIOUS
<1>1. NoMint \in MintState /\ [pc |-> "idle", with |-> 0, on |-> NoCaller] \in CallerState
      /\ 0 \in Tokens
  BY TokenAssumption, SMT DEF MintState, CallerState, Tokens, NoMint
<1>2. TokenTypeOK
  BY <1>1 DEF TokenInit, TokenTypeOK
<1>3. FlightIsTheMint /\ WaitersShareFlight /\ TokensCarried
  BY TokenAssumption, SMT DEF TokenInit, FlightIsTheMint, WaitersShareFlight, TokensCarried, NoMint
<1> QED
  BY <1>2, <1>3 DEF TokenInv

\* What the settling of the mint in flight does to its waiters.
LEMMA SettleOK ==
    ASSUME TokenInv, NEW c \in Callers, mint[c].pc # "none",
           NEW outcome \in {"resent", "error"}, NEW fresh \in Tokens,
           Settle(c, outcome, fresh), token' \in Tokens, fresh <= token', token <= token',
           accepted' \subseteq Tokens, validated' \in BOOLEAN,
           outcome = "resent" => fresh > token
    PROVE  TokenInv' /\ ResendsFreshToken
<1>1. /\ mint \in [Callers -> MintState] /\ caller \in [Callers -> CallerState]
      /\ inflight = c /\ token \in Nat /\ token' \in Nat
  BY TokenAssumption, SMT DEF TokenInv, TokenTypeOK, FlightIsTheMint, Tokens
<1>2. NoMint \in MintState /\ [pc |-> outcome, with |-> fresh, on |-> NoCaller] \in CallerState
  BY TokenAssumption, SMT DEF NoMint, MintState, CallerState
<1>3. TokenTypeOK'
  BY <1>1, <1>2, SMT DEF Settle, TokenTypeOK
<1>4. FlightIsTheMint'
  BY <1>1, TokenAssumption, SMT DEF TokenInv, FlightIsTheMint, Settle, NoMint
<1>5. \A d \in Callers : caller[d].pc = "waiting" => caller[d].on = c
  BY <1>1 DEF TokenInv, WaitersShareFlight
<1>6. WaitersShareFlight'
  BY <1>5, SMT DEF Settle, WaitersShareFlight
<1>7. \A d \in Callers : caller[d].with \in Nat /\ caller[d].with <= token
  BY <1>1, TokenAssumption, SMT DEF TokenInv, TokensCarried, CallerState, Tokens
<1>8. TokensCarried'
  BY <1>1, <1>7, SMT DEF Settle, TokensCarried
<1>9. ResendsFreshToken
  BY <1>1, <1>5, <1>7, SMT DEF Settle, ResendsFreshToken, Tokens
<1> QED
  BY <1>3, <1>4, <1>6, <1>8, <1>9 DEF TokenInv

LEMMA SendKeeps ==
    ASSUME TokenInv, NEW c \in Callers, Send(c) PROVE TokenInv' /\ ResendsFreshToken
<1> DEFINE sent == [[caller[c] EXCEPT !.pc = "sent"] EXCEPT !.with = token]
<1>a. caller \in [Callers -> CallerState] /\ token \in Tokens
  BY DEF TokenInv, TokenTypeOK
<1>b. caller[c] \in CallerState /\ sent \in CallerState
  BY <1>a, CallerFields
<1>c. caller' = [caller EXCEPT ![c] = sent]
  BY <1>a, <1>b DEF Send
<1>0. caller' \in [Callers -> CallerState]
  BY <1>a, <1>b, <1>c, SMT
<1>1. TokenTypeOK'
  BY <1>0 DEF TokenInv, TokenTypeOK, Send, ProviderIdle
<1>2. FlightIsTheMint' /\ WaitersShareFlight' /\ TokensCarried' /\ ResendsFreshToken
  BY SMT DEF TokenInv, TokenTypeOK, Tokens, Send, ProviderIdle, CallerState, FlightIsTheMint,
     WaitersShareFlight, TokensCarried, ResendsFreshToken
<1> QED
  BY <1>1, <1>2 DEF TokenInv

LEMMA AnswerKeeps ==
    ASSUME TokenInv, NEW c \in Callers, Answer(c) PROVE TokenInv' /\ ResendsFreshToken
<1>1. TokenTypeOK'
  BY SMT DEF TokenInv, TokenTypeOK, Answer, ProviderIdle, CallerState
<1>2. FlightIsTheMint' /\ WaitersShareFlight' /\ TokensCarried' /\ ResendsFreshToken
  BY SMT DEF TokenInv, TokenTypeOK, Tokens, Answer, ProviderIdle, CallerState, FlightIsTheMint,
     WaitersShareFlight, TokensCarried, ResendsFreshToken
<1> QED
  BY <1>1, <1>2 DEF TokenInv

LEMMA RefreshKeeps ==
    ASSUME TokenInv, NEW c \in Callers, Refresh(c) PROVE TokenInv' /\ ResendsFreshToken
<1>0. inflight' \in Callers \cup {NoCaller} /\ mint' \in [Callers -> MintState]
  BY TokenAssumption, SMT DEF TokenInv, TokenTypeOK, Refresh, MintState
<1> DEFINE flight == IF inflight = NoCaller THEN c ELSE inflight
           waits == [[caller[c] EXCEPT !.pc = "waiting"] EXCEPT !.on = flight]
<1>b. caller \in [Callers -> CallerState] /\ flight \in Callers
  BY SMT DEF TokenInv, TokenTypeOK
<1>c. caller[c] \in CallerState /\ waits \in CallerState
  BY <1>b, CallerFields
<1>d. caller' = [caller EXCEPT ![c] = waits]
  BY <1>b, <1>c DEF Refresh
<1>a. caller' \in [Callers -> CallerState]
  BY <1>b, <1>c, <1>d, SMT
<1>1. TokenTypeOK'
  BY <1>0, <1>a DEF TokenInv, TokenTypeOK, Refresh
<1>2. FlightIsTheMint'
  BY TokenAssumption, SMT DEF TokenInv, TokenTypeOK, Refresh, FlightIsTheMint, MintState
<1>3. WaitersShareFlight' /\ TokensCarried' /\ ResendsFreshToken
  BY TokenAssumption, SMT DEF TokenInv, TokenTypeOK, Refresh, CallerState, WaitersShareFlight,
     TokensCarried, ResendsFreshToken
<1> QED
  BY <1>1, <1>2, <1>3 DEF TokenInv

\* A mint that goes on keeps its caller and its waiters.
LEMMA MintGoesOn ==
    ASSUME TokenInv, NEW c \in Callers, mint[c].pc # "none", NEW m \in MintState, m.pc # "none",
           mint' = [mint EXCEPT ![c] = m], validated' \in BOOLEAN,
           UNCHANGED <<token, accepted, inflight, caller>>
    PROVE  TokenInv' /\ ResendsFreshToken
<1>1. TokenTypeOK'
  BY SMT DEF TokenInv, TokenTypeOK
<1>2. FlightIsTheMint'
  BY SMT DEF TokenInv, TokenTypeOK, FlightIsTheMint
<1>3. WaitersShareFlight' /\ TokensCarried' /\ ResendsFreshToken
  BY SMT DEF TokenInv, WaitersShareFlight, TokensCarried, ResendsFreshToken
<1> QED
  BY <1>1, <1>2, <1>3 DEF TokenInv

LEMMA MintFailsKeeps ==
    ASSUME TokenInv, NEW c \in Callers, mint[c].pc # "none", MintFails(c)
    PROVE  TokenInv' /\ ResendsFreshToken
<1>1. /\ token' = token /\ token \in Tokens /\ accepted' \subseteq Tokens /\ validated' \in BOOLEAN
      /\ Settle(c, "error", 0)
  BY DEF MintFails, TokenInv, TokenTypeOK
<1>2. 0 \in Tokens /\ token' \in Tokens /\ 0 <= token' /\ token <= token'
  BY <1>1, TokenAssumption, SMT DEF Tokens
<1> QED
  BY <1>1, <1>2, SettleOK, SMT

LEMMA MintRetriesKeeps ==
    ASSUME TokenInv, NEW c \in Callers, mint[c].pc # "none", MintRetries(c)
    PROVE  TokenInv' /\ ResendsFreshToken
<1>1. CASE mint[c].tries < MintAttempts
  <2> DEFINE m == [mint[c] EXCEPT !.tries = @ + 1]
  <2>1. m \in MintState /\ m.pc # "none" /\ mint' = [mint EXCEPT ![c] = m]
    BY <1>1, TokenAssumption, SMT DEF TokenInv, TokenTypeOK, MintState, MintRetries
  <2>2. validated' \in BOOLEAN /\ UNCHANGED <<token, accepted, inflight, caller>>
    BY <1>1 DEF MintRetries, TokenInv, TokenTypeOK
  <2> QED
    BY <2>1, <2>2, MintGoesOn
<1>2. CASE ~(mint[c].tries < MintAttempts)
  <2>1. MintFails(c)
    BY <1>2 DEF MintRetries, MintFails
  <2> QED
    BY <2>1, MintFailsKeeps
<1> QED
  BY <1>1, <1>2

LEMMA PreflightKeeps ==
    ASSUME TokenInv, NEW c \in Callers, Preflight(c) PROVE TokenInv' /\ ResendsFreshToken
<1>1. mint[c].pc # "none"
  BY DEF Preflight
<1>2. CASE /\ mint' = [mint EXCEPT ![c] = [pc |-> "post", tries |-> 1]]
           /\ validated' = TRUE
           /\ UNCHANGED <<token, accepted, inflight, caller>>
  <2>1. [pc |-> "post", tries |-> 1] \in MintState
    BY TokenAssumption, SMT DEF MintState
  <2> QED
    BY <1>1, <1>2, <2>1, MintGoesOn
<1>3. CASE MintFails(c) \/ MintRetries(c)
  BY <1>1, <1>3, MintFailsKeeps, MintRetriesKeeps
<1> QED
  BY <1>2, <1>3 DEF Preflight

LEMMA MintOnceKeeps ==
    ASSUME TokenInv, NEW c \in Callers, MintOnce(c) PROVE TokenInv' /\ ResendsFreshToken
<1>1. mint[c].pc = "post"
  BY DEF MintOnce
<1>2. CASE /\ token < MaxTokens /\ token' = token + 1 /\ accepted' = accepted \cup {token + 1}
           /\ Settle(c, "resent", token + 1) /\ UNCHANGED validated
  <2>1. /\ token + 1 \in Tokens /\ token' \in Tokens /\ token + 1 <= token' /\ token <= token'
        /\ accepted' \subseteq Tokens /\ validated' \in BOOLEAN /\ token + 1 > token
    BY <1>2, TokenAssumption, SMT DEF TokenInv, TokenTypeOK, Tokens
  <2> QED
    BY <1>1, <1>2, <2>1, SettleOK, SMT
<1>3. CASE MintFails(c) \/ MintRetries(c)
  BY <1>1, <1>3, MintFailsKeeps, MintRetriesKeeps, SMT
<1>4. CASE /\ mint' = [mint EXCEPT ![c].pc = "diagnose"]
           /\ UNCHANGED <<token, accepted, validated, inflight, caller>>
  <2> DEFINE m == [mint[c] EXCEPT !.pc = "diagnose"]
  <2>1. m \in MintState /\ m.pc # "none" /\ mint' = [mint EXCEPT ![c] = m]
    BY <1>4, SMT DEF TokenInv, TokenTypeOK, MintState
  <2>2. validated' \in BOOLEAN
    BY <1>4 DEF TokenInv, TokenTypeOK
  <2>3. mint[c].pc # "none" /\ UNCHANGED <<token, accepted, inflight, caller>>
    BY <1>1, <1>4
  <2> HIDE DEF m
  <2> QED
    BY <2>1, <2>2, <2>3, MintGoesOn
<1> QED
  BY <1>2, <1>3, <1>4 DEF MintOnce

LEMMA ExpireKeeps == ASSUME TokenInv, Expire PROVE TokenInv' /\ ResendsFreshToken
<1>1. accepted' \subseteq accepted /\ UNCHANGED <<token, validated, inflight, mint, caller>>
  BY DEF Expire, ProviderIdle
<1> QED
  BY <1>1, SMT DEF TokenInv, TokenTypeOK, FlightIsTheMint, WaitersShareFlight, TokensCarried,
     ResendsFreshToken

LEMMA TokenStepKeeps ==
    ASSUME TokenInv, [TokenNext]_tokenVars PROVE TokenInv' /\ (TokenNext => ResendsFreshToken)
<1>1. ASSUME NEW c \in Callers, TokenStep(c) PROVE TokenInv' /\ ResendsFreshToken
  <2>1. CASE Diagnose(c)
    BY <2>1, MintFailsKeeps, SMT DEF Diagnose
  <2> QED
    BY <1>1, <2>1, SendKeeps, AnswerKeeps, RefreshKeeps, PreflightKeeps, MintOnceKeeps DEF TokenStep
<1>2. CASE UNCHANGED tokenVars
  BY <1>2, SMT DEF tokenVars, TokenInv, TokenTypeOK, FlightIsTheMint, WaitersShareFlight,
     TokensCarried, ResendsFreshToken
<1> QED
  BY <1>1, <1>2, ExpireKeeps DEF TokenNext

LEMMA TokenInvImplies == TokenInv => OneMintAtATime /\ WaitsForRunningMint
BY SMT DEF TokenInv, FlightIsTheMint, WaitersShareFlight, OneMintAtATime, WaitsForRunningMint

\* AccessTokenProvider.refresh: however the refused calls, their mints and the
\* expiry of tokens interleave, one mint runs at a time, a refused call waits
\* for a mint that still runs, and what it sends again is a token newer than
\* the one that was refused.
THEOREM TokensSafe == TokenSpec => TokensAreSafe
<1>1. TokenInit => TokenInv
  BY TokenInitOK
<1>2. TokenInv /\ [TokenNext]_tokenVars => TokenInv'
  BY TokenStepKeeps
<1>3. TokenInv /\ TokenInv' /\ [TokenNext]_tokenVars =>
        [TokenTypeOK' /\ OneMintAtATime' /\ WaitsForRunningMint' /\ ResendsFreshToken]_tokenVars
  <2> SUFFICES ASSUME TokenInv, TokenInv', TokenNext
               PROVE  TokenTypeOK' /\ OneMintAtATime' /\ WaitsForRunningMint' /\ ResendsFreshToken
    OBVIOUS
  <2>1. OneMintAtATime' /\ WaitsForRunningMint'
    BY TokenInvImplies, PTL
  <2> QED
    BY <2>1, TokenStepKeeps DEF TokenInv
<1> QED
  BY <1>1, <1>2, <1>3, PTL DEF TokenSpec, TokensAreSafe

-----------------------------------------------------------------------------
(* The paged reads of the inventory                                        *)

\* A collection stays on a page that the inventory has.
ShownOnAPage == \A l \in Loops : shown[l] <= lastPage

\* What the read in flight promised and has not listed is on a page to come, and
\* the cursors it follows go forward.
PromisesAhead ==
    reading.on => /\ reading.cursors \subseteq 2..reading.page
                  /\ reading.page <= lastPage
                  /\ \A l \in reading.promised \ reading.rows : shown[l] >= reading.page

\* A loop that joined a read which was under way has all of its delays left.
JoinersHaveDelays ==
    \A l \in Loops : /\ loop[l].pc = "new" => loop[l].delays = SettleDelays
                     /\ loop[l].pc = "reading" /\ loop[l].joined => loop[l].delays = SettleDelays

InventoryInv == /\ InventoryTypeOK /\ GivesUpOnOwnRead /\ ListsAreComplete
                /\ ShownOnAPage /\ PromisesAhead /\ JoinersHaveDelays

LEMMA NoReadTyped == NoRead \in ReadState
BY InventoryAssumption, SMT DEF NoRead, ReadState

LEMMA ReadFields ==
    ASSUME NEW s \in ReadState
    PROVE  /\ \A v \in BOOLEAN : [s EXCEPT !.on = v] \in ReadState
           /\ \A v \in 1..Pages : [s EXCEPT !.page = v] \in ReadState
           /\ \A v \in 0..PageLimit : [s EXCEPT !.count = v] \in ReadState
           /\ \A v \in SUBSET (1..Pages) : [s EXCEPT !.cursors = v] \in ReadState
           /\ \A v \in SUBSET Loops : [s EXCEPT !.rows = v] \in ReadState
           /\ \A v \in SUBSET Loops : [s EXCEPT !.promised = v] \in ReadState
BY SMT DEF ReadState

LEMMA InventoryInitOK == InventoryInit => InventoryInv
<1> SUFFICES ASSUME InventoryInit PROVE InventoryInv
  OBVIOUS
<1>1. lastPage \in 1..Pages /\ shown \in [Loops -> 0..Pages] /\ loop \in [Loops -> LoopState]
  BY InventoryAssumption, SMT DEF InventoryInit, LoopState
<1>2. InventoryTypeOK
  BY <1>1, NoReadTyped DEF InventoryInit, InventoryTypeOK
<1>3. /\ GivesUpOnOwnRead /\ ListsAreComplete /\ ShownOnAPage /\ PromisesAhead
      /\ JoinersHaveDelays
  BY SMT DEF InventoryInit, NoRead, GivesUpOnOwnRead, ListsAreComplete, ShownOnAPage,
     PromisesAhead, JoinersHaveDelays
<1> QED
  BY <1>2, <1>3 DEF InventoryInv

LEMMA ShowKeeps == ASSUME InventoryInv, NEW l \in Loops, Show(l) PROVE InventoryInv'
<1>1. PICK p \in 1..lastPage : shown' = [shown EXCEPT ![l] = p]
  BY DEF Show
<1>2. /\ lastPage \in 1..Pages /\ shown \in [Loops -> 0..Pages] /\ shown[l] = 0
      /\ reading \in ReadState /\ UNCHANGED <<lastPage, reading, loop>>
  BY DEF InventoryInv, InventoryTypeOK, Show
<1>3. shown' \in [Loops -> 0..Pages] /\ ShownOnAPage'
  BY <1>1, <1>2, InventoryAssumption, SMT DEF InventoryInv, ShownOnAPage
<1>4. PromisesAhead'
  BY <1>1, <1>2, InventoryAssumption, SMT DEF InventoryInv, PromisesAhead, ReadState
<1>5. InventoryTypeOK' /\ GivesUpOnOwnRead' /\ ListsAreComplete' /\ JoinersHaveDelays'
  BY <1>2, <1>3 DEF InventoryInv, InventoryTypeOK, GivesUpOnOwnRead, ListsAreComplete,
     JoinersHaveDelays
<1> QED
  BY <1>3, <1>4, <1>5 DEF InventoryInv

LEMMA LoopFields ==
    ASSUME NEW s \in LoopState
    PROVE  /\ \A v \in {"reading", "sleeping", "found", "absent"} : [s EXCEPT !.pc = v] \in LoopState
           /\ \A v \in 0..SettleDelays : [s EXCEPT !.delays = v] \in LoopState
           /\ \A v \in BOOLEAN : [s EXCEPT !.joined = v] \in LoopState
           /\ \A v \in BOOLEAN : [s EXCEPT !.own = v] \in LoopState
           /\ \A v \in BOOLEAN : [s EXCEPT !.missed = v] \in LoopState
BY SMT DEF LoopState

LEMMA ObserveKeeps == ASSUME InventoryInv, NEW l \in Loops, Observe(l) PROVE InventoryInv'
<1> DEFINE j == loop[l].pc = "new" /\ reading.on
           hears == [[loop[l] EXCEPT !.pc = "reading"] EXCEPT !.joined = j]
           begun == [[NoRead EXCEPT !.on = TRUE] EXCEPT !.promised = Shown]
<1>1. /\ lastPage \in 1..Pages /\ shown \in [Loops -> 0..Pages] /\ UNCHANGED <<lastPage, shown>>
      /\ reading \in ReadState /\ loop \in [Loops -> LoopState] /\ loop[l] \in LoopState
      /\ loop[l].pc \in {"new", "sleeping"}
      /\ reading' = IF reading.on THEN reading ELSE begun
  BY DEF InventoryInv, InventoryTypeOK, Observe
<1>2. hears \in LoopState /\ loop' = [loop EXCEPT ![l] = hears]
  <2>1. j \in BOOLEAN
    OBVIOUS
  <2>2. hears \in LoopState
    BY <1>1, <2>1, LoopFields
  <2>3. loop' = [loop EXCEPT ![l] = hears]
    BY <1>1 DEF Observe
  <2> QED
    BY <2>2, <2>3
<1>3. hears.pc = "reading" /\ hears.delays = loop[l].delays
  BY <1>1, SMT DEF LoopState
<1>a. hears.joined => loop[l].pc = "new"
  <2>1. hears.joined = j
    <3>1. loop[l] \in LoopState
      BY <1>1
    <3> HIDE DEF j
    <3> QED
      BY <3>1, SMT DEF LoopState
  <2> QED
    BY <2>1
<1>b. hears.missed = loop[l].missed /\ hears.own = loop[l].own
  <2>1. loop[l] \in LoopState
    BY <1>1
  <2> HIDE DEF j
  <2> QED
    BY <2>1, SMT DEF LoopState
<1>4. begun \in ReadState
  <2>1. Shown \in SUBSET Loops /\ TRUE \in BOOLEAN
    BY DEF Shown
  <2> QED
    BY <2>1, NoReadTyped, ReadFields
<1>5. InventoryTypeOK'
  <2>1. loop' \in [Loops -> LoopState]
    BY <1>1, <1>2, SMT
  <2> QED
    BY <1>1, <1>4, <2>1 DEF InventoryTypeOK
<1> HIDE DEF hears
<1>6. GivesUpOnOwnRead' /\ ListsAreComplete' /\ ShownOnAPage'
  BY <1>1, <1>2, <1>3, <1>b, SMT DEF InventoryInv, GivesUpOnOwnRead, ListsAreComplete, ShownOnAPage
<1>7. JoinersHaveDelays'
  BY <1>1, <1>2, <1>3, <1>a, SMT DEF InventoryInv, JoinersHaveDelays
<1>8. PromisesAhead'
  <2>1. CASE reading.on
    BY <1>1, <2>1 DEF InventoryInv, PromisesAhead
  <2>2. CASE ~reading.on
    BY <1>1, <2>2, InventoryAssumption, SMT DEF PromisesAhead, NoRead, Shown
  <2> QED
    BY <2>1, <2>2
<1> QED
  BY <1>5, <1>6, <1>7, <1>8 DEF InventoryInv

\* What a settled read tells a loop: a success lists all that it promised.
LEMMA HeardKeeps ==
    ASSUME InventoryInv, NEW rows \in SUBSET Loops, NEW ok \in BOOLEAN,
           ok => reading.promised \subseteq rows,
           AnswerLoops(rows, ok), UNCHANGED <<lastPage, shown>>
    PROVE  InventoryInv'
<1>1. /\ loop \in [Loops -> LoopState] /\ reading' = NoRead /\ NoRead.on = FALSE
      /\ loop' = [l \in Loops |-> IF loop[l].pc = "reading" THEN Heard(l, rows, ok) ELSE loop[l]]
  BY DEF InventoryInv, InventoryTypeOK, AnswerLoops, NoRead
<1>2. ASSUME NEW l \in Loops, loop[l].pc = "reading"
      PROVE  /\ Heard(l, rows, ok) \in LoopState
             /\ Heard(l, rows, ok).pc \in {"found", "sleeping", "absent"}
             /\ ~Heard(l, rows, ok).missed
             /\ Heard(l, rows, ok).pc = "absent" /\ SettleDelays > 0 => Heard(l, rows, ok).own
  <2> DEFINE o == loop[l].own \/ ~loop[l].joined
             m == loop[l].missed \/ (ok /\ l \in reading.promised \ rows)
             state == [[loop[l] EXCEPT !.own = o] EXCEPT !.missed = m]
  <2>1. loop[l] \in LoopState /\ o \in BOOLEAN /\ m = FALSE
    BY <1>1, SMT DEF InventoryInv, ListsAreComplete, LoopState
  <2>2. state \in LoopState
    BY <2>1, LoopFields
  <2>3. /\ state.delays = loop[l].delays /\ state.own = o /\ state.missed = FALSE
        /\ state.delays \in 0..SettleDelays /\ state.pc = "reading"
    BY <1>2, <2>1, SMT DEF LoopState
  <2>4. Heard(l, rows, ok) = IF ok /\ l \in rows THEN [state EXCEPT !.pc = "found"] ELSE Sleep(state)
    BY DEF Heard
  <2>5. ~o => loop[l].delays = SettleDelays
    BY <1>2 DEF InventoryInv, JoinersHaveDelays
  <2> HIDE DEF state, o, m
  <2>6. CASE ok /\ l \in rows
    <3>1. [state EXCEPT !.pc = "found"] \in LoopState
      BY <2>2, LoopFields
    <3>2. [state EXCEPT !.pc = "found"].pc = "found" /\ [state EXCEPT !.pc = "found"].missed = FALSE
      BY <2>2, <2>3, SMT DEF LoopState
    <3> QED
      BY <2>4, <2>6, <3>1, <3>2
  <2>7. CASE ~(ok /\ l \in rows) /\ state.delays > 0
    <3> DEFINE s1 == [state EXCEPT !.pc = "sleeping"]
               s2 == [s1 EXCEPT !.delays = state.delays - 1]
    <3>1. s1 \in LoopState /\ s1.missed = FALSE /\ s1.pc = "sleeping" /\ s1.delays = state.delays
      BY <2>2, <2>3, LoopFields, SMT DEF LoopState
    <3>2. state.delays - 1 \in 0..SettleDelays
      BY <2>3, <2>7, InventoryAssumption, SMT
    <3> HIDE DEF s1
    <3>3. s2 \in LoopState /\ s2.missed = FALSE /\ s2.pc = "sleeping"
      BY <3>1, <3>2, LoopFields, SMT DEF LoopState
    <3>4. Sleep(state) = s2
      BY <2>7 DEF Sleep, s1
    <3> HIDE DEF s2
    <3> QED
      BY <2>4, <2>7, <3>3, <3>4
  <2>8. CASE ~(ok /\ l \in rows) /\ ~(state.delays > 0)
    <3> DEFINE s1 == [state EXCEPT !.pc = "absent"]
    <3>1. s1 \in LoopState /\ s1.missed = FALSE /\ s1.own = o
      BY <2>2, <2>3, LoopFields, SMT DEF LoopState
    <3>2. SettleDelays > 0 => o
      BY <2>3, <2>5, <2>8, InventoryAssumption, SMT
    <3>3. Sleep(state) = s1 /\ s1.pc = "absent"
      BY <2>2, <2>8, SMT DEF Sleep, LoopState
    <3> HIDE DEF s1
    <3> QED
      BY <2>4, <2>8, <3>1, <3>2, <3>3
  <2> QED
    BY <2>6, <2>7, <2>8
<1>3. InventoryTypeOK'
  BY <1>1, <1>2, NoReadTyped DEF InventoryInv, InventoryTypeOK
<1>4. GivesUpOnOwnRead' /\ ListsAreComplete' /\ JoinersHaveDelays'
  BY <1>1, <1>2, SMT DEF InventoryInv, GivesUpOnOwnRead, ListsAreComplete, JoinersHaveDelays
<1>5. ShownOnAPage' /\ PromisesAhead'
  BY <1>1 DEF InventoryInv, ShownOnAPage, PromisesAhead
<1> QED
  BY <1>3, <1>4, <1>5 DEF InventoryInv

LEMMA FetchPageKeeps == ASSUME InventoryInv, FetchPage PROVE InventoryInv'
<1> DEFINE rows == reading.rows \cup Listed(reading.page)
<1>1. /\ reading.on /\ reading \in ReadState /\ UNCHANGED <<lastPage, shown>>
      /\ shown \in [Loops -> 0..Pages] /\ lastPage \in 1..Pages /\ loop \in [Loops -> LoopState]
  BY DEF InventoryInv, InventoryTypeOK, FetchPage
<1>2. /\ reading.page \in 1..Pages /\ reading.count \in 0..PageLimit
      /\ reading.cursors \subseteq 1..Pages /\ reading.rows \subseteq Loops
      /\ reading.promised \subseteq Loops
  BY <1>1, SMT DEF ReadState
<1>3. rows \in SUBSET Loops
  BY <1>2 DEF Listed
<1>4. /\ reading.cursors \subseteq 2..reading.page /\ reading.page <= lastPage
      /\ \A l \in reading.promised \ reading.rows : shown[l] >= reading.page
      /\ \A l \in Loops : shown[l] <= lastPage
  BY <1>1 DEF InventoryInv, PromisesAhead, ShownOnAPage
<1>5. CASE AnswerLoops({}, FALSE)
  BY <1>1, <1>5, HeardKeeps
<1>6. CASE reading.page = lastPage /\ AnswerLoops(rows, TRUE)
  <2>1. reading.promised \subseteq rows
    BY <1>1, <1>2, <1>4, <1>6, InventoryAssumption, SMT DEF Listed
  <2> QED
    BY <1>1, <1>3, <1>6, <2>1, HeardKeeps
<1>7. ASSUME NEW next \in reading.cursors \cup {reading.page + 1}, next <= lastPage,
             ~(next \in reading.cursors \/ reading.count + 1 >= PageLimit),
             reading' = [reading EXCEPT !.page = next, !.count = @ + 1,
                                        !.cursors = @ \cup {next}, !.rows = rows],
             UNCHANGED loop
      PROVE  InventoryInv'
  <2>1. next = reading.page + 1 /\ next \in 1..Pages /\ reading.count + 1 \in 0..PageLimit
    BY <1>1, <1>2, <1>7, InventoryAssumption, SMT
  <2>2. /\ reading'.page = next /\ reading'.cursors = reading.cursors \cup {next}
        /\ reading'.rows = rows /\ reading'.promised = reading.promised
    <3>1. reading \in ReadState
      BY <1>1
    <3> HIDE DEF rows
    <3> QED
      BY <3>1, <1>7, SMT DEF ReadState
  <2>3. reading' \in ReadState
    <3> DEFINE s1 == [reading EXCEPT !.page = next]
               s2 == [s1 EXCEPT !.count = reading.count + 1]
               s3 == [s2 EXCEPT !.cursors = reading.cursors \cup {next}]
               s4 == [s3 EXCEPT !.rows = rows]
    <3>1. reading.cursors \cup {next} \in SUBSET (1..Pages)
      BY <1>2, <2>1
    <3>2. s1 \in ReadState /\ s1.count = reading.count /\ s1.cursors = reading.cursors
      <4>1. reading \in ReadState
        BY <1>1
      <4> QED
        BY <4>1, <2>1, ReadFields, SMT DEF ReadState
    <3>3. s2 \in ReadState /\ s2.cursors = reading.cursors
      <4> HIDE DEF s1
      <4> QED
        BY <2>1, <3>2, ReadFields, SMT DEF ReadState
    <3>4. s4 \in ReadState
      <4> HIDE DEF s1, s2, rows
      <4> QED
        BY <1>3, <3>1, <3>3, ReadFields
    <3> QED
      BY <1>7, <3>2, <3>3, <3>4
  <2>4. PromisesAhead'
    <3>1. reading.cursors \cup {next} \subseteq 2..next
      BY <1>2, <1>4, <2>1, InventoryAssumption, SMT
    <3>2. \A l \in reading.promised \ rows : shown[l] >= next
      BY <1>1, <1>2, <1>4, <2>1, InventoryAssumption, SMT DEF Listed
    <3> HIDE DEF rows
    <3> QED
      BY <1>1, <1>7, <2>2, <3>1, <3>2 DEF PromisesAhead
  <2>5. InventoryTypeOK' /\ GivesUpOnOwnRead' /\ ListsAreComplete' /\ ShownOnAPage' /\ JoinersHaveDelays'
    BY <1>1, <1>7, <2>3 DEF InventoryInv, InventoryTypeOK, GivesUpOnOwnRead, ListsAreComplete,
       ShownOnAPage, JoinersHaveDelays
  <2> QED
    BY <2>4, <2>5 DEF InventoryInv
<1> QED
  BY <1>5, <1>6, <1>7 DEF FetchPage

\* MemoizedWorkspaceInventoryObserver and collectPagedList: however the loops
\* share the reads in flight and collections become visible between two page
\* requests, a loop gives up only on a read that began after it, and a list
\* that a read returns has all that was shown when it began.
THEOREM LoopsRestOnWholeReads ==
    InventorySpec => [](InventoryTypeOK /\ GivesUpOnOwnRead /\ ListsAreComplete)
<1>1. InventoryInit => InventoryInv
  BY InventoryInitOK
<1>2. InventoryInv /\ [InventoryNext]_inventoryVars => InventoryInv'
  <2>1. ASSUME InventoryInv, UNCHANGED inventoryVars PROVE InventoryInv'
    BY <2>1 DEF inventoryVars, InventoryInv, InventoryTypeOK, GivesUpOnOwnRead, ListsAreComplete,
       ShownOnAPage, PromisesAhead, JoinersHaveDelays
  <2> QED
    BY <2>1, ShowKeeps, ObserveKeeps, FetchPageKeeps DEF InventoryNext
<1>3. InventoryInv => InventoryTypeOK /\ GivesUpOnOwnRead /\ ListsAreComplete
  BY DEF InventoryInv
<1> QED
  BY <1>1, <1>2, <1>3, PTL DEF InventorySpec

-----------------------------------------------------------------------------
(* The import lanes                                                        *)

Sent == {w \in Writes : write[w] = "sent"}

\* The counter counts the writes in flight, and the two that may be.
CountsSent == active = Cardinality(Sent) /\ active <= 2

\* A write waits in one place.
WaitersWait ==
    /\ \A i \in 1..Len(waiters) : write[waiters[i]] = "waiting"
    /\ \A i, j \in 1..Len(waiters) : waiters[i] = waiters[j] => i = j

\* At most a woken waiter and then the next write of a lane are due; a woken
\* waiter has room, which no other can take before it.
DueInOrder ==
    /\ Len(microtasks) <= 2
    /\ microtasks # <<>> => /\ write[microtasks[1]] \in {"due", "waiting"}
                            /\ write[microtasks[1]] = "waiting" => active <= 1
                            /\ \A i \in 1..Len(waiters) : waiters[i] # microtasks[1]
    /\ Len(microtasks) = 2 => write[microtasks[2]] = "due" /\ microtasks[1] # microtasks[2]

LaneInv == LaneTypeOK /\ CountsSent /\ WaitersWait /\ DueInOrder

LEMMA SentFinite ==
    ASSUME NEW S \in SUBSET Writes
    PROVE  IsFiniteSet(S) /\ Cardinality(S) \in Nat /\ Cardinality(S) <= Cardinality(Writes)
           /\ Cardinality(Writes) \in Nat
BY LaneAssumption, FS_Subset, FS_CardinalityType

LEMMA LaneInitOK == LaneInit => LaneInv
<1> SUFFICES ASSUME LaneInit PROVE LaneInv
  OBVIOUS
<1>1. Sent = {}
  BY SMT DEF LaneInit, Sent
<1>2. CountsSent
  BY <1>1, FS_EmptySet, SMT DEF LaneInit, CountsSent
<1>3. LaneTypeOK
  BY SentFinite, SMT DEF LaneInit, LaneTypeOK
<1>4. WaitersWait /\ DueInOrder
  BY SMT DEF LaneInit, WaitersWait, DueInOrder
<1> QED
  BY <1>2, <1>3, <1>4 DEF LaneInv

LEMMA ArriveKeeps == ASSUME LaneInv, NEW w \in Writes, Arrive(w) PROVE LaneInv'
<1>1. /\ write \in [Writes -> {"todo", "due", "waiting", "sent", "done"}] /\ waiters \in Seq(Writes)
      /\ write[w] = "todo" /\ write' = [write EXCEPT ![w] = "due"] /\ microtasks' = <<w>>
      /\ UNCHANGED <<active, waiters>>
  BY DEF LaneInv, LaneTypeOK, Arrive
<1>2. LaneTypeOK'
  BY <1>1, SMT DEF LaneInv, LaneTypeOK
<1>3. Sent' = Sent
  BY <1>1, SMT DEF Sent
<1>4. CountsSent'
  BY <1>1, <1>3 DEF LaneInv, CountsSent
<1>5. WaitersWait' /\ DueInOrder'
  BY <1>1, SMT DEF LaneInv, WaitersWait, DueInOrder
<1> QED
  BY <1>2, <1>4, <1>5 DEF LaneInv

\* What is due after the first of the due.
LEMMA TailOfDue ==
    ASSUME LaneInv, microtasks # <<>>, microtasks' = Tail(microtasks)
    PROVE  /\ Head(microtasks) = microtasks[1] /\ Head(microtasks) \in Writes
           /\ microtasks' \in Seq(Writes) /\ Len(microtasks') <= 1
           /\ microtasks' # <<>> => microtasks'[1] = microtasks[2] /\ Len(microtasks) = 2
<1>1. microtasks \in Seq(Writes) /\ Len(microtasks) <= 2
  BY DEF LaneInv, LaneTypeOK, DueInOrder
<1>2. Len(microtasks) \in {1, 2}
  <2>1. Len(microtasks) \in Nat \ {0}
    BY <1>1, EmptySeq
  <2>2. \A n \in Nat \ {0} : n <= 2 => n \in {1, 2}
    BY SMT
  <2> QED
    BY <1>1, <2>1, <2>2
<1>3. Head(microtasks) = microtasks[1] /\ microtasks[1] \in Writes
  BY <1>1, <1>2, SMT
<1>4. microtasks' \in Seq(Writes) /\ Len(microtasks') = Len(microtasks) - 1
  BY <1>1, SMT
<1>5. microtasks' # <<>> => microtasks'[1] = microtasks[2] /\ Len(microtasks) = 2
  BY <1>1, <1>2, <1>4, SMT
<1> QED
  BY <1>2, <1>3, <1>4, <1>5, SMT

LEMMA ContinueKeeps == ASSUME LaneInv, Continue PROVE LaneInv'
<1> DEFINE w == Head(microtasks)
<1>1. /\ write \in [Writes -> {"todo", "due", "waiting", "sent", "done"}] /\ waiters \in Seq(Writes)
      /\ microtasks # <<>> /\ microtasks' = Tail(microtasks)
  BY DEF LaneInv, LaneTypeOK, Continue
<1>2. /\ w = microtasks[1] /\ w \in Writes
      /\ microtasks' \in Seq(Writes) /\ Len(microtasks') <= 1
      /\ microtasks' # <<>> => microtasks'[1] = microtasks[2] /\ Len(microtasks) = 2
  BY <1>1, TailOfDue
<1>3. /\ write[w] \in {"due", "waiting"}
      /\ write[w] = "waiting" => active <= 1
      /\ \A i \in 1..Len(waiters) : waiters[i] # w
      /\ microtasks' # <<>> => microtasks'[1] # w /\ write[microtasks'[1]] = "due"
                               /\ microtasks'[1] \in Writes
      /\ \A i \in 1..Len(waiters) : write[waiters[i]] = "waiting" /\ waiters[i] \in Writes
      /\ \A i, j \in 1..Len(waiters) : waiters[i] = waiters[j] => i = j
  BY <1>1, <1>2, SMT DEF LaneInv, DueInOrder, WaitersWait
<1>4. active = Cardinality(Sent) /\ active \in Nat /\ active <= 2
  BY SentFinite DEF LaneInv, CountsSent, Sent
<1> HIDE DEF w
<1>5. CASE write[w] = "due" /\ active >= 2
  <2>1. /\ waiters' = Append(waiters, w) /\ write' = [write EXCEPT ![w] = "waiting"]
        /\ UNCHANGED active
    BY <1>5 DEF Continue, w
  <2>2. LaneTypeOK'
    BY <1>1, <1>2, <2>1, SMT DEF LaneInv, LaneTypeOK
  <2>3. Sent' = Sent
    BY <1>1, <1>2, <1>5, <2>1, SMT DEF Sent
  <2>4. WaitersWait'
    BY <1>1, <1>2, <1>3, <2>1, SMT DEF WaitersWait
  <2>5. DueInOrder'
    <3>1. ASSUME microtasks' # <<>>
          PROVE  /\ write'[microtasks'[1]] = "due"
                 /\ \A i \in 1..Len(waiters') : waiters'[i] # microtasks'[1]
      BY <1>1, <1>2, <1>3, <2>1, <3>1, SMT
    <3> QED
      BY <1>2, <3>1, SMT DEF DueInOrder
  <2> QED
    BY <1>4, <2>1, <2>2, <2>3, <2>4, <2>5 DEF LaneInv, CountsSent
<1>6. CASE ~(write[w] = "due" /\ active >= 2)
  <2>1. active' = active + 1 /\ write' = [write EXCEPT ![w] = "sent"] /\ UNCHANGED waiters
    BY <1>6 DEF Continue, w
  <2>2. Sent' = Sent \cup {w} /\ w \notin Sent
    BY <1>1, <1>2, <1>3, <2>1, SMT DEF Sent
  <2>3. CountsSent'
    <3>1. Cardinality(Sent') = Cardinality(Sent) + 1
      BY <2>2, SentFinite, FS_AddElement DEF Sent
    <3>2. active <= 1
      BY <1>3, <1>4, <1>6, SMT
    <3> QED
      BY <1>4, <2>1, <3>1, <3>2, SMT DEF CountsSent
  <2>4. LaneTypeOK'
    <3>1. Cardinality(Sent') \in 0..Cardinality(Writes)
      BY <1>2, <2>2, SentFinite, SMT DEF Sent
    <3> QED
      BY <1>1, <1>2, <2>1, <2>3, <3>1, SMT DEF LaneTypeOK, CountsSent
  <2>5. WaitersWait'
    BY <1>1, <1>2, <1>3, <2>1, SMT DEF WaitersWait
  <2>6. DueInOrder'
    <3>1. ASSUME microtasks' # <<>>
          PROVE  /\ write'[microtasks'[1]] = "due"
                 /\ \A i \in 1..Len(waiters') : waiters'[i] # microtasks'[1]
      BY <1>1, <1>2, <1>3, <2>1, <3>1, SMT
    <3> QED
      BY <1>2, <3>1, SMT DEF DueInOrder
  <2> QED
    BY <2>3, <2>4, <2>5, <2>6 DEF LaneInv
<1> QED
  BY <1>5, <1>6

LEMMA FinishKeeps == ASSUME LaneInv, NEW w \in Writes, Finish(w) PROVE LaneInv'
<1> DEFINE f == Following(w)
           woken == IF waiters = <<>> THEN <<>> ELSE <<Head(waiters)>>
<1>1. /\ write \in [Writes -> {"todo", "due", "waiting", "sent", "done"}] /\ waiters \in Seq(Writes)
      /\ write[w] = "sent" /\ active' = active - 1 /\ microtasks' = woken \o f
      /\ waiters' = IF waiters = <<>> THEN <<>> ELSE Tail(waiters)
      /\ write' = [v \in Writes |-> IF v = w THEN "done" ELSE IF v \in ToSet(f) THEN "due" ELSE write[v]]
  BY DEF LaneInv, LaneTypeOK, Finish
<1>2. /\ \A i \in 1..Len(waiters) : write[waiters[i]] = "waiting" /\ waiters[i] \in Writes
      /\ \A i, j \in 1..Len(waiters) : waiters[i] = waiters[j] => i = j
  BY <1>1, SMT DEF LaneInv, WaitersWait
<1>3. f = <<>> \/ (f = <<Then[w]>> /\ Then[w] \in Writes /\ Then[w] # w /\ write[Then[w]] = "todo")
  BY LaneAssumption DEF Following
<1>4. ToSet(f) = IF f = <<>> THEN {} ELSE {Then[w]}
  BY <1>3, SMT DEF ToSet
<1> HIDE DEF f
<1>5. \A v \in Writes : /\ v \in ToSet(f) => v # w /\ write[v] = "todo" /\ write'[v] = "due"
                        /\ v \notin ToSet(f) /\ v # w => write'[v] = write[v]
  BY <1>1, <1>3, <1>4
<1>6. Sent' = Sent \ {w} /\ w \in Sent
  BY <1>1, <1>5, SMT DEF Sent
<1>7. CountsSent' /\ active' <= 1 /\ active' \in 0..Cardinality(Writes)
  <2>1. Cardinality(Sent') = Cardinality(Sent) - 1 /\ Cardinality(Sent') \in Nat
        /\ Cardinality(Sent') <= Cardinality(Writes) /\ Cardinality(Sent) \in Nat
        /\ Cardinality(Writes) \in Nat
    BY <1>6, SentFinite, FS_RemoveElement DEF Sent
  <2> QED
    BY <1>1, <2>1, SMT DEF LaneInv, CountsSent
<1>8. /\ waiters' \in Seq(Writes)
      /\ \A i \in 1..Len(waiters') : /\ i + 1 \in 1..Len(waiters) /\ waiters'[i] = waiters[i + 1]
                                     /\ 1 \in 1..Len(waiters) /\ i + 1 # 1
  BY <1>1, SMT
<1>9. /\ microtasks' \in Seq(Writes) /\ Len(microtasks') <= 2
      /\ waiters = <<>> => microtasks' = f
      /\ waiters # <<>> => microtasks'[1] = waiters[1] /\ 1 \in 1..Len(waiters)
      /\ waiters # <<>> /\ f # <<>> => microtasks'[2] = Then[w]
      /\ Len(microtasks') = 2 => waiters # <<>> /\ f # <<>>
  <2>a. f \in Seq(Writes) /\ Len(f) <= 1
    <3>1. CASE f = <<>>
      BY <3>1, SMT
    <3>2. CASE f = <<Then[w]>> /\ Then[w] \in Writes
      BY <3>2, SMT
    <3> QED
      BY <1>3, <3>1, <3>2
  <2>1. CASE waiters = <<>>
    <3>1. microtasks' = f
      BY <1>1, <2>1, <2>a, ConcatEmptySeq
    <3>2. Len(microtasks') # 2 /\ Len(microtasks') <= 2
      BY <2>a, <3>1, SMT
    <3> QED
      BY <2>1, <2>a, <3>1, <3>2
  <2>2. CASE waiters # <<>> /\ f = <<>>
    BY <1>1, <2>2, SMT
  <2>3. CASE waiters # <<>> /\ f # <<>>
    <3>1. microtasks' = <<Head(waiters)>> \o <<Then[w]>> /\ Then[w] \in Writes
      BY <1>1, <1>3, <2>3
    <3>2. Head(waiters) = waiters[1] /\ waiters[1] \in Writes /\ 1 \in 1..Len(waiters)
      BY <1>1, <2>3, SMT
    <3> DEFINE s1 == <<Head(waiters)>>
               s2 == <<Then[w]>>
    <3>3. /\ s1 \in Seq(Writes) /\ s2 \in Seq(Writes) /\ Len(s1) = 1 /\ Len(s2) = 1
          /\ s1[1] = waiters[1] /\ s2[1] = Then[w]
      BY <3>1, <3>2, SMT
    <3>4. microtasks' = s1 \o s2
      BY <3>1
    <3> HIDE DEF s1, s2
    <3>5. /\ microtasks' \in Seq(Writes) /\ Len(microtasks') = 2
          /\ \A i \in 1..2 : microtasks'[i] = IF i <= 1 THEN s1[i] ELSE s2[i - 1]
      BY <3>3, <3>4, ConcatProperties, SMT
    <3> QED
      BY <2>3, <3>2, <3>3, <3>5, SMT
  <2> QED
    BY <2>1, <2>2, <2>3
<1>10. LaneTypeOK'
  BY <1>1, <1>7, <1>8, <1>9, SMT DEF LaneTypeOK
<1>11. WaitersWait'
  <2>1. \A i \in 1..Len(waiters) : write'[waiters[i]] = "waiting"
    BY <1>1, <1>2, <1>5, SMT
  <2>2. \A i \in 1..Len(waiters') : write'[waiters'[i]] = "waiting"
    BY <1>8, <2>1
  <2>3. ASSUME NEW i \in 1..Len(waiters'), NEW j \in 1..Len(waiters'), waiters'[i] = waiters'[j] PROVE i = j
    <3>1. i + 1 = j + 1
      BY <1>2, <1>8, <2>3
    <3>2. i \in Int /\ j \in Int
      OBVIOUS
    <3> QED
      BY <3>1, <3>2, SMT
  <2> QED
    BY <2>2, <2>3 DEF WaitersWait
<1>12. DueInOrder'
  <2>1. CASE waiters = <<>>
    <3>1. waiters' = <<>> /\ microtasks' = f
      BY <1>1, <1>9, <2>1
    <3>2. f # <<>> => f[1] = Then[w] /\ Len(f) = 1 /\ write'[Then[w]] = "due"
      BY <1>3, <1>4, <1>5, SMT
    <3> QED
      BY <1>3, <1>9, <3>1, <3>2 DEF DueInOrder
  <2>2. CASE waiters # <<>>
    <3>1. write'[microtasks'[1]] = "waiting"
      BY <1>2, <1>5, <1>9, <1>1, <2>2, SMT
    <3>2. \A i \in 1..Len(waiters') : waiters'[i] # microtasks'[1]
      BY <1>2, <1>8, <1>9, <2>2, SMT
    <3>3. Len(microtasks') = 2 => write'[microtasks'[2]] = "due"
      BY <1>3, <1>4, <1>5, <1>9, SMT
    <3> QED
      BY <1>7, <1>9, <3>1, <3>2, <3>3 DEF DueInOrder
  <2> QED
    BY <2>1, <2>2
<1> QED
  BY <1>7, <1>10, <1>11, <1>12 DEF LaneInv

\* withImportMutation: at most two whole-collection writes are in flight, in
\* spite of the gap between a release and the count of the waiter it woke.
THEOREM LanesKeepTheirLimit == LaneSpec => [](LaneTypeOK /\ AtMostTwoWrites)
<1>1. LaneInit => LaneInv
  BY LaneInitOK
<1>2. LaneInv /\ [LaneNext]_laneVars => LaneInv'
  <2>1. ASSUME LaneInv, UNCHANGED laneVars PROVE LaneInv'
    BY <2>1 DEF laneVars, LaneInv, LaneTypeOK, CountsSent, Sent, WaitersWait, DueInOrder
  <2> QED
    BY <2>1, ArriveKeeps, ContinueKeeps, FinishKeeps DEF LaneNext
<1>3. LaneInv => LaneTypeOK /\ AtMostTwoWrites
  BY DEF LaneInv, CountsSent, Sent, AtMostTwoWrites
<1> QED
  BY <1>1, <1>2, <1>3, PTL DEF LaneSpec

-----------------------------------------------------------------------------
(* Generated collections                                                   *)

\* A collection that a run deleted leaves a lower one, deleted or not.
DeletedLeaveLower ==
    \A i \in GeneratedIds : generated[i] = "deleted" =>
        \E j \in GeneratedIds : j < i /\ generated[j] # "none"

\* What run state g has observed was generated; who is to drop its own collection
\* elected a lower one, unless its own is gone.
Observed(g, made) ==
    /\ \A i \in g.seen : made[i] # "none"
    /\ g.pc \in {"elect", "drop"} => g.seen # {}
    /\ g.pc = "drop" /\ g.id \in g.seen /\ made[g.id] \in {"temporary", "final"} =>
          Smallest(g.seen) # g.id

GeneratedInv == GeneratedTypeOK /\ DeletedLeaveLower /\ \A r \in Generators : Observed(gen[r], generated)

LEMMA LeastGenerated ==
    ASSUME NEW S \in SUBSET GeneratedIds, S # {}
    PROVE  Smallest(S) \in S /\ \A i \in S : Smallest(S) <= i
<1> DEFINE R == OpToRel(<, Nat)
<1>1. IsWellFoundedOn(R, Nat) /\ S \subseteq Nat
  BY NatLessThanWellFounded, GenerationAssumption
<1>2. \A x, y \in Nat : <<y, x>> \in R <=> y < x
  BY DEF OpToRel
<1> HIDE DEF R
<1>3. PICK x \in S : \A y \in S : ~ (<<y, x>> \in R)
  BY <1>1, WFMin
<1>4. \A y \in S : ~ (y < x)
  BY <1>1, <1>2, <1>3
<1>5. \A y \in S : x <= y
  BY <1>1, <1>3, <1>4, SMT
<1> QED
  BY <1>3, <1>5 DEF Smallest

\* What is generated stays generated, and what is gone stays gone.
OnlyOnwards ==
    \A i \in GeneratedIds : generated[i] # "none" =>
        /\ generated'[i] # "none"
        /\ generated'[i] \in {"temporary", "final"} => generated[i] \in {"temporary", "final"}

\* A step of r leaves what the others observed.
LEMMA GenOthersKeep ==
    ASSUME GeneratedInv, GeneratedTypeOK', OnlyOnwards, DeletedLeaveLower', NEW r \in Generators,
           \A s \in Generators \ {r} : gen'[s] = gen[s], Observed(gen'[r], generated')
    PROVE  GeneratedInv'
<1>1. \A s \in Generators : Observed(gen[s], generated) /\ gen[s] \in GenState
  BY DEF GeneratedInv, GeneratedTypeOK
<1>2. ASSUME NEW s \in Generators \ {r} PROVE Observed(gen[s], generated')
  <2>1. gen[s].seen \subseteq GeneratedIds
    BY <1>1 DEF GenState
  <2>2. Observed(gen[s], generated)
    BY <1>1
  <2> QED
    BY <2>1, <2>2 DEF Observed, OnlyOnwards
<1>3. \A s \in Generators : Observed(gen'[s], generated')
  BY <1>2
<1> QED
  BY <1>3 DEF GeneratedInv

LEMMA ShownAreGenerated ==
    ASSUME GeneratedTypeOK
    PROVE  /\ Finals \in SUBSET GeneratedIds /\ SameIdentity \in SUBSET GeneratedIds
           /\ \A i \in SameIdentity : generated[i] # "none"
           /\ Finals # {} => Smallest(Finals) \in GeneratedIds
<1>1. Finals \in SUBSET GeneratedIds
  BY DEF GeneratedTypeOK, Finals
<1>2. SameIdentity \in SUBSET GeneratedIds /\ \A i \in SameIdentity : generated[i] # "none"
  BY DEF SameIdentity, Alive
<1> QED
  BY <1>1, <1>2, LeastGenerated

LEMMA NoRounds == 0 \in 0..(GenerationPolls + LockRetries + 1) /\ 2 \in 1..2
BY GenerationAssumption, SMT

\* Run r moves to a state that has observed only what was made.
MovesTo(r, made) == \E g \in GenState : gen' = [gen EXCEPT ![r] = g] /\ Observed(g, made)

\* A step of r that keeps what is generated.
LEMMA QuietGenStep ==
    ASSUME GeneratedInv, NEW r \in Generators, UNCHANGED <<generated, related>>,
           genFaults' \in 0..MaxGenFaults, task' \in [Generators -> TaskState], MovesTo(r, generated)
    PROVE  GeneratedInv'
<1>1. PICK g \in GenState : gen' = [gen EXCEPT ![r] = g] /\ Observed(g, generated)
  BY DEF MovesTo
<1>2. GeneratedTypeOK'
  BY <1>1 DEF GeneratedInv, GeneratedTypeOK
<1>3. OnlyOnwards /\ DeletedLeaveLower'
  BY DEF GeneratedInv, OnlyOnwards, DeletedLeaveLower
<1>4. gen'[r] = g /\ \A s \in Generators \ {r} : gen'[s] = gen[s]
  BY <1>1 DEF GeneratedInv, GeneratedTypeOK
<1> QED
  BY <1>1, <1>2, <1>3, <1>4, GenOthersKeep

LEMMA GotoMoves ==
    ASSUME GeneratedInv, NEW r \in Generators, NEW pc \in GenStages \ {"elect", "drop"},
           GenGoto(r, pc), NEW made
    PROVE  MovesTo(r, made)
<1> DEFINE g == [gen[r] EXCEPT !.pc = pc, !.rounds = 0, !.seen = {}]
<1>1. gen \in [Generators -> GenState] /\ gen[r] \in GenState
  BY DEF GeneratedInv, GeneratedTypeOK
<1>2. g \in GenState /\ g.seen = {} /\ g.pc = pc
  BY <1>1, NoRounds DEF GenState
<1>3. gen' = [gen EXCEPT ![r] = g]
  BY <1>1 DEF GenGoto, GenState
<1>4. Observed(g, made)
  BY <1>2 DEF Observed
<1> QED
  BY <1>2, <1>3, <1>4 DEF MovesTo

\* A step that leaves r in a stage that decides on nothing it observed.
LEMMA SetMoves ==
    ASSUME GeneratedInv, NEW r \in Generators, NEW g \in GenState, g.seen = gen[r].seen,
           g.pc \notin {"elect", "drop"}, gen' = [gen EXCEPT ![r] = g]
    PROVE  MovesTo(r, generated)
<1>1. \A i \in gen[r].seen : generated[i] # "none"
  BY DEF GeneratedInv, Observed
<1>2. Observed(g, generated)
  BY <1>1 DEF Observed
<1> QED
  BY <1>2 DEF MovesTo

LEMMA AdoptMoves ==
    ASSUME GeneratedInv, NEW r \in Generators, NEW otherwise \in {"post", "failed"},
           AdoptFinal(r, otherwise)
    PROVE  MovesTo(r, generated)
<1>1. CASE GenGoto(r, otherwise)
  BY <1>1, GotoMoves DEF GenStages
<1>2. CASE GenGoto(r, "failed")
  BY <1>2, GotoMoves DEF GenStages
<1>3. CASE Finals # {} /\ gen' = [gen EXCEPT ![r].pc = "converge", ![r].id = Smallest(Finals)]
  <2> DEFINE g == [gen[r] EXCEPT !.pc = "converge", !.id = Smallest(Finals)]
  <2>1. gen \in [Generators -> GenState] /\ gen[r] \in GenState /\ Smallest(Finals) \in GeneratedIds
    BY <1>3, ShownAreGenerated DEF GeneratedInv, GeneratedTypeOK
  <2>2. g \in GenState /\ g.seen = gen[r].seen /\ g.pc = "converge"
    BY <2>1 DEF GenState, GenStages
  <2>3. gen' = [gen EXCEPT ![r] = g]
    BY <1>3, <2>1 DEF GenState
  <2> HIDE DEF g
  <2> QED
    BY <2>2, <2>3, SetMoves
<1> QED
  BY <1>1, <1>2, <1>3 DEF AdoptFinal

\* A round of a polling loop, and a second post.
LEMMA RoundMoves ==
    ASSUME GeneratedInv, NEW r \in Generators, NEW end \in GenStages \ {"elect", "drop"},
           gen[r].pc \notin {"elect", "drop"}, AnotherRound(r, end) \/ Repost(r)
    PROVE  MovesTo(r, generated)
<1>1. gen \in [Generators -> GenState] /\ gen[r] \in GenState
  BY DEF GeneratedInv, GeneratedTypeOK
<1>2. CASE GenGoto(r, end) \/ GenGoto(r, "failed")
  BY <1>2, GotoMoves DEF GenStages
<1>3. CASE gen[r].rounds + 1 < GenerationPolls /\ gen' = [gen EXCEPT ![r].rounds = @ + 1]
  <2> DEFINE g == [gen[r] EXCEPT !.rounds = @ + 1]
  <2>1. gen[r].rounds + 1 \in 0..(GenerationPolls + LockRetries + 1)
    BY <1>1, <1>3, GenerationAssumption DEF GenState
  <2>2. g \in GenState /\ g.seen = gen[r].seen /\ g.pc = gen[r].pc
    BY <1>1, <2>1 DEF GenState
  <2>3. gen' = [gen EXCEPT ![r] = g]
    BY <1>1, <1>3 DEF GenState
  <2> HIDE DEF g
  <2> QED
    BY <2>2, <2>3, SetMoves
<1>4. CASE gen' = [gen EXCEPT ![r].pc = "post", ![r].attempt = 2, ![r].rounds = 0]
  <2> DEFINE g == [gen[r] EXCEPT !.pc = "post", !.attempt = 2, !.rounds = 0]
  <2>1. g \in GenState /\ g.seen = gen[r].seen /\ g.pc = "post"
    BY <1>1, NoRounds DEF GenState, GenStages
  <2>2. gen' = [gen EXCEPT ![r] = g]
    BY <1>1, <1>4 DEF GenState
  <2> HIDE DEF g
  <2> QED
    BY <2>1, <2>2, SetMoves
<1> QED
  BY <1>2, <1>3, <1>4 DEF AnotherRound, Repost

LEMMA GenFaultCounts ==
    ASSUME GeneratedInv, GenFault \/ GenWorks PROVE genFaults' \in 0..MaxGenFaults
BY GenerationAssumption DEF GeneratedInv, GeneratedTypeOK, GenFault, GenWorks

\* The stages before the collection is there, and the last wait.
LEMMA GenWaitsKeep ==
    ASSUME GeneratedInv, NEW r \in Generators,
           ListBefore(r) \/ PostGeneration(r) \/ AfterLock(r) \/ PollTask(r) \/ AwaitAppeared(r)
           \/ PeerFinal(r) \/ AwaitSelfDelete(r)
    PROVE  GeneratedInv'
<1>1. genFaults' \in 0..MaxGenFaults
  BY GenFaultCounts, Zenon
     DEF ListBefore, PostGeneration, AfterLock, PollTask, AwaitAppeared, PeerFinal, AwaitSelfDelete
<1>2. UNCHANGED <<generated, related>>
  BY DEF ListBefore, PostGeneration, AfterLock, PollTask, AwaitAppeared, PeerFinal, AwaitSelfDelete, SpecHubIdle
<1>3. task \in [Generators -> TaskState] /\ gen \in [Generators -> GenState] /\ gen[r] \in GenState
  BY DEF GeneratedInv, GeneratedTypeOK
<1>4. task' \in [Generators -> TaskState]
  BY <1>3 DEF ListBefore, PostGeneration, AfterLock, PollTask, AwaitAppeared, PeerFinal, AwaitSelfDelete,
              SpecHubIdle, TaskState
<1>5. MovesTo(r, generated)
  <2>1. CASE ListBefore(r)
    BY <2>1, AdoptMoves DEF ListBefore
  <2>2. CASE PostGeneration(r)
    <3>1. CASE GenGoto(r, "poll") \/ GenGoto(r, "reappear") \/ GenGoto(r, "failed")
      BY <3>1, GotoMoves DEF GenStages
    <3>2. CASE gen[r].rounds < LockRetries /\ gen' = [gen EXCEPT ![r].pc = "locked", ![r].rounds = @ + 1]
      <4> DEFINE g == [gen[r] EXCEPT !.pc = "locked", !.rounds = @ + 1]
      <4>1. gen[r].rounds + 1 \in 0..(GenerationPolls + LockRetries + 1)
        BY <1>3, <3>2, NoRounds DEF GenState
      <4>2. g \in GenState /\ g.seen = gen[r].seen /\ g.pc = "locked"
        BY <1>3, <4>1 DEF GenState, GenStages
      <4>3. gen' = [gen EXCEPT ![r] = g]
        BY <1>3, <3>2 DEF GenState
      <4> HIDE DEF g
      <4> QED
        BY <4>2, <4>3, SetMoves
    <3>3. CASE gen' = [gen EXCEPT ![r].pc = "failed"]
      <4> DEFINE g == [gen[r] EXCEPT !.pc = "failed"]
      <4>1. g \in GenState /\ g.seen = gen[r].seen /\ g.pc = "failed"
        BY <1>3 DEF GenState, GenStages
      <4>2. gen' = [gen EXCEPT ![r] = g]
        BY <1>3, <3>3 DEF GenState
      <4> HIDE DEF g
      <4> QED
        BY <4>1, <4>2, SetMoves
    <3> QED
      BY <2>2, <3>1, <3>2, <3>3 DEF PostGeneration
  <2>3. CASE AfterLock(r)
    <3>1. CASE AdoptFinal(r, "post")
      BY <3>1, AdoptMoves
    <3>2. CASE gen' = [gen EXCEPT ![r].pc = "post"]
      <4> DEFINE g == [gen[r] EXCEPT !.pc = "post"]
      <4>1. g \in GenState /\ g.seen = gen[r].seen /\ g.pc = "post"
        BY <1>3 DEF GenState, GenStages
      <4>2. gen' = [gen EXCEPT ![r] = g]
        BY <1>3, <3>2 DEF GenState
      <4> HIDE DEF g
      <4> QED
        BY <4>1, <4>2, SetMoves
    <3> QED
      BY <2>3, <3>1, <3>2 DEF AfterLock
  <2>4. CASE PollTask(r)
    <3>1. gen[r].pc \notin {"elect", "drop"} /\ "failed" \in GenStages \ {"elect", "drop"}
      BY <2>4 DEF PollTask, GenAt, GenStages
    <3>2. CASE GenGoto(r, "appear")
      BY <3>2, GotoMoves DEF GenStages
    <3> QED
      BY <2>4, <3>1, <3>2, RoundMoves DEF PollTask
  <2>5. CASE AwaitAppeared(r)
    <3>1. gen[r].pc \notin {"elect", "drop"} /\ "peerFinal" \in GenStages \ {"elect", "drop"}
      BY <2>5 DEF AwaitAppeared, GenAt, GenStages
    <3>2. CASE task[r] \in related /\ gen' = [gen EXCEPT ![r].pc = "rename", ![r].rounds = 0, ![r].id = task[r]]
      <4> DEFINE g == [gen[r] EXCEPT !.pc = "rename", !.rounds = 0, !.id = task[r]]
      <4>1. task[r] \in GeneratedIds
        BY <3>2 DEF GeneratedInv, GeneratedTypeOK
      <4>2. g \in GenState /\ g.seen = gen[r].seen /\ g.pc = "rename"
        BY <1>3, <4>1, NoRounds DEF GenState, GenStages
      <4>3. gen' = [gen EXCEPT ![r] = g]
        BY <1>3, <3>2 DEF GenState
      <4> HIDE DEF g
      <4> QED
        BY <4>2, <4>3, SetMoves
    <3>3. CASE AnotherRound(r, "peerFinal") \/ Repost(r)
      BY <3>1, <3>3, RoundMoves
    <3>4. CASE gen[r].rounds + 1 < GenerationPolls /\ gen' = [gen EXCEPT ![r].rounds = @ + 1]
      BY <3>1, <3>4, RoundMoves DEF AnotherRound
    <3>5. CASE GenGoto(r, "peerFinal")
      BY <3>5, GotoMoves DEF GenStages
    <3> QED
      BY <2>5, <3>2, <3>3, <3>4, <3>5 DEF AwaitAppeared
  <2>6. CASE PeerFinal(r)
    BY <2>6, AdoptMoves DEF PeerFinal
  <2>7. CASE AwaitSelfDelete(r)
    <3>1. gen[r].pc \notin {"elect", "drop"} /\ "done" \in GenStages \ {"elect", "drop"}
      BY <2>7 DEF AwaitSelfDelete, GenAt, GenStages
    <3>2. CASE GenGoto(r, "done")
      BY <3>1, <3>2, GotoMoves
    <3> QED
      BY <2>7, <3>1, <3>2, RoundMoves DEF AwaitSelfDelete
  <2> QED
    BY <2>1, <2>2, <2>3, <2>4, <2>5, <2>6, <2>7
<1> QED
  BY <1>1, <1>2, <1>4, <1>5, QuietGenStep

LEMMA ConvergeKeeps ==
    ASSUME GeneratedInv, NEW r \in Generators, Converge(r) PROVE GeneratedInv'
<1> DEFINE pc == IF SameIdentity = {} THEN "done"
                 ELSE IF GenAt(r, "converge") /\ Cardinality(SameIdentity) = 1 THEN "settle" ELSE "elect"
           g == [gen[r] EXCEPT !.seen = SameIdentity, !.pc = pc]
<1>1. gen \in [Generators -> GenState] /\ gen[r] \in GenState /\ task \in [Generators -> TaskState]
  BY DEF GeneratedInv, GeneratedTypeOK
<1>2. SameIdentity \in SUBSET GeneratedIds /\ \A i \in SameIdentity : generated[i] # "none"
  BY ShownAreGenerated DEF GeneratedInv
<1>3. pc \in {"done", "settle", "elect"} /\ (pc = "elect" => SameIdentity # {})
  OBVIOUS
<1>4. gen' = [gen EXCEPT ![r] = g]
  BY <1>1 DEF Converge, GenState
<1> HIDE DEF pc
<1>5. g \in GenState /\ g.seen = SameIdentity /\ g.pc = pc
  BY <1>1, <1>2, <1>3 DEF GenState, GenStages
<1> HIDE DEF g
<1>6. Observed(g, generated)
  BY <1>2, <1>3, <1>5 DEF Observed
<1>7. MovesTo(r, generated)
  BY <1>4, <1>5, <1>6 DEF MovesTo
<1>8. UNCHANGED <<generated, related, task, genFaults>>
  BY DEF Converge, SpecHubIdle, GenWorks
<1>9. genFaults' \in 0..MaxGenFaults
  BY <1>8 DEF GeneratedInv, GeneratedTypeOK
<1> QED
  BY <1>1, <1>7, <1>8, <1>9, QuietGenStep

\* A step of r that changes what is generated.
LEMMA MakingStep ==
    ASSUME GeneratedInv, NEW r \in Generators, UNCHANGED <<related, task>>, genFaults' \in 0..MaxGenFaults,
           generated' \in [GeneratedIds -> {"none", "temporary", "final", "deleted"}],
           OnlyOnwards, DeletedLeaveLower', MovesTo(r, generated')
    PROVE  GeneratedInv'
<1>1. PICK g \in GenState : gen' = [gen EXCEPT ![r] = g] /\ Observed(g, generated')
  BY DEF MovesTo
<1>2. GeneratedTypeOK'
  BY <1>1 DEF GeneratedInv, GeneratedTypeOK
<1>3. gen'[r] = g /\ \A s \in Generators \ {r} : gen'[s] = gen[s]
  BY <1>1 DEF GeneratedInv, GeneratedTypeOK
<1> QED
  BY <1>1, <1>2, <1>3, GenOthersKeep

LEMMA FinalNameKeeps ==
    ASSUME GeneratedInv, NEW i \in Alive, generated' = [generated EXCEPT ![i] = "final"]
    PROVE  /\ generated' \in [GeneratedIds -> {"none", "temporary", "final", "deleted"}]
           /\ OnlyOnwards /\ DeletedLeaveLower'
BY DEF GeneratedInv, GeneratedTypeOK, Alive, OnlyOnwards, DeletedLeaveLower

LEMMA SameMadeKeeps ==
    ASSUME GeneratedInv, UNCHANGED generated
    PROVE  /\ generated' \in [GeneratedIds -> {"none", "temporary", "final", "deleted"}]
           /\ OnlyOnwards /\ DeletedLeaveLower'
BY DEF GeneratedInv, GeneratedTypeOK, OnlyOnwards, DeletedLeaveLower

LEMMA RenameOwnKeeps ==
    ASSUME GeneratedInv, NEW r \in Generators, RenameOwn(r) PROVE GeneratedInv'
<1>1. genFaults' \in 0..MaxGenFaults
  BY GenFaultCounts, Zenon DEF RenameOwn
<1>2. MovesTo(r, generated')
  BY GotoMoves DEF RenameOwn, GenStages
<1>3. /\ generated' \in [GeneratedIds -> {"none", "temporary", "final", "deleted"}]
      /\ OnlyOnwards /\ DeletedLeaveLower'
  BY FinalNameKeeps, SameMadeKeeps DEF RenameOwn
<1> QED
  BY <1>1, <1>2, <1>3, MakingStep DEF RenameOwn

LEMMA ElectLowestKeeps ==
    ASSUME GeneratedInv, NEW r \in Generators, ElectLowest(r) PROVE GeneratedInv'
<1> DEFINE winner == Smallest(gen[r].seen)
<1>1. genFaults' \in 0..MaxGenFaults
  BY GenFaultCounts, Zenon DEF ElectLowest
<1>2. /\ generated' \in [GeneratedIds -> {"none", "temporary", "final", "deleted"}]
      /\ OnlyOnwards /\ DeletedLeaveLower'
  BY FinalNameKeeps, SameMadeKeeps DEF ElectLowest
<1>3. gen \in [Generators -> GenState] /\ gen[r] \in GenState
  BY DEF GeneratedInv, GeneratedTypeOK
<1>4. gen[r].seen \in SUBSET GeneratedIds /\ gen[r].seen # {} /\ \A i \in gen[r].seen : generated[i] # "none"
  BY <1>3 DEF GeneratedInv, Observed, GenState, ElectLowest, GenAt
<1>5. MovesTo(r, generated')
  <2>1. CASE GenGoto(r, "await") \/ GenGoto(r, "failed")
    BY <2>1, GotoMoves DEF GenStages
  <2>2. CASE GenGoto(r, "drop") /\ (gen[r].id # winner \/ (winner \notin Alive /\ UNCHANGED generated))
    <3> DEFINE g == [gen[r] EXCEPT !.pc = "drop", !.rounds = 0]
    <3>1. g \in GenState /\ g.seen = gen[r].seen /\ g.pc = "drop" /\ g.id = gen[r].id
      BY <1>3, NoRounds DEF GenState, GenStages
    <3>2. gen' = [gen EXCEPT ![r] = g]
      BY <1>3, <2>2 DEF GenGoto, GenState
    <3> HIDE DEF g
    <3>3. \A i \in g.seen : generated'[i] # "none"
      BY <1>2, <1>4, <3>1 DEF OnlyOnwards
    <3>4. g.id \in g.seen /\ generated'[g.id] \in {"temporary", "final"} => Smallest(g.seen) # g.id
      BY <1>4, <2>2, <3>1 DEF Alive
    <3> QED
      BY <1>4, <3>1, <3>2, <3>3, <3>4 DEF MovesTo, Observed
  <2> QED
    BY <2>1, <2>2 DEF ElectLowest
<1> QED
  BY <1>1, <1>2, <1>5, MakingStep DEF ElectLowest

LEMMA DropPreferredKeeps ==
    ASSUME GeneratedInv, NEW r \in Generators, DropPreferred(r) PROVE GeneratedInv'
<1>1. genFaults' \in 0..MaxGenFaults
  BY GenFaultCounts, Zenon DEF DropPreferred
<1>2. gen \in [Generators -> GenState] /\ gen[r] \in GenState /\ Observed(gen[r], generated)
  BY DEF GeneratedInv, GeneratedTypeOK
<1>3. gen[r].seen \in SUBSET GeneratedIds /\ gen[r].seen # {} /\ \A i \in gen[r].seen : generated[i] # "none"
  BY <1>2 DEF Observed, GenState, DropPreferred, GenAt
<1> DEFINE winner == Smallest(gen[r].seen)
<1>4. winner \in gen[r].seen /\ \A i \in gen[r].seen : winner <= i
  BY <1>3, LeastGenerated
<1>5. MovesTo(r, generated')
  <2>1. CASE GenGoto(r, "failed")
    BY <2>1, GotoMoves DEF GenStages
  <2>2. CASE gen' = [gen EXCEPT ![r].pc = "done", ![r].id = winner, ![r].seen = {}]
    <3> DEFINE g == [gen[r] EXCEPT !.pc = "done", !.id = winner, !.seen = {}]
    <3> HIDE DEF winner
    <3>1. g \in GenState /\ g.seen = {} /\ g.pc = "done"
      BY <1>2, <1>3, <1>4 DEF GenState, GenStages
    <3>2. gen' = [gen EXCEPT ![r] = g]
      BY <1>2, <2>2 DEF GenState
    <3> QED
      BY <3>1, <3>2 DEF MovesTo, Observed
  <2> QED
    BY <2>1, <2>2 DEF DropPreferred
<1>6. /\ generated' \in [GeneratedIds -> {"none", "temporary", "final", "deleted"}]
      /\ OnlyOnwards /\ DeletedLeaveLower'
  <2>1. CASE UNCHANGED generated
    BY <2>1, SameMadeKeeps
  <2>2. CASE /\ gen[r].id \in gen[r].seen \cap Alive
             /\ generated' = [generated EXCEPT ![gen[r].id] = "deleted"]
    <3>1. winner # gen[r].id
      BY <1>2, <2>2 DEF Observed, DropPreferred, GenAt, Alive
    <3> HIDE DEF winner
    <3>2. winner < gen[r].id /\ winner \in GeneratedIds /\ gen[r].id \in GeneratedIds
      <4>1. winner <= gen[r].id /\ winner \in GeneratedIds /\ gen[r].id \in GeneratedIds
        BY <1>3, <1>4, <2>2
      <4>2. winner \in Nat /\ gen[r].id \in Nat
        BY <4>1, GenerationAssumption
      <4> QED
        BY <3>1, <4>1, <4>2, SMT
    <3>3. generated'[winner] # "none"
      BY <1>3, <1>4, <2>2, <3>1, <3>2 DEF GeneratedInv, GeneratedTypeOK
    <3>4. \A j \in GeneratedIds : generated[j] # "none" => generated'[j] # "none"
      BY <2>2, <3>2 DEF GeneratedInv, GeneratedTypeOK
    <3>5. DeletedLeaveLower'
      BY <2>2, <3>2, <3>3, <3>4 DEF GeneratedInv, GeneratedTypeOK, DeletedLeaveLower
    <3>6. OnlyOnwards
      BY <2>2, <3>2, <3>4 DEF GeneratedInv, GeneratedTypeOK, OnlyOnwards
    <3> QED
      BY <2>2, <3>2, <3>5, <3>6 DEF GeneratedInv, GeneratedTypeOK
  <2> QED
    BY <2>1, <2>2 DEF DropPreferred
<1> QED
  BY <1>1, <1>5, <1>6, MakingStep DEF DropPreferred

LEMMA SpecHubKeeps ==
    ASSUME GeneratedInv, (\E r \in Generators : RunTask(r)) \/ \E i \in GeneratedIds : Relate(i)
    PROVE  GeneratedInv'
<1>1. gen' = gen /\ gen \in [Generators -> GenState]
  BY DEF RunTask, Relate, GeneratedInv, GeneratedTypeOK
<1>2. genFaults' \in 0..MaxGenFaults
  <2>1. GenFault \/ GenWorks
    BY DEF RunTask, Relate, GenWorks
  <2> QED
    BY <2>1, GenFaultCounts
<1>3. related' \subseteq GeneratedIds
  BY DEF RunTask, Relate, GeneratedInv, GeneratedTypeOK, Alive
<1>4. task' \in [Generators -> TaskState]
  BY DEF RunTask, Relate, GeneratedInv, GeneratedTypeOK, TaskState
<1>5. /\ generated' \in [GeneratedIds -> {"none", "temporary", "final", "deleted"}]
      /\ OnlyOnwards /\ DeletedLeaveLower'
  <2>1. CASE UNCHANGED generated
    BY <2>1, SameMadeKeeps
  <2>2. CASE \E i \in GeneratedIds : generated[i] = "none" /\ generated' = [generated EXCEPT ![i] = "temporary"]
    <3>1. PICK i \in GeneratedIds : generated[i] = "none" /\ generated' = [generated EXCEPT ![i] = "temporary"]
      BY <2>2
    <3>2. \A j \in GeneratedIds : generated[j] # "none" => generated'[j] # "none"
      BY <3>1 DEF GeneratedInv, GeneratedTypeOK
    <3>3. DeletedLeaveLower'
      BY <3>1, <3>2 DEF GeneratedInv, GeneratedTypeOK, DeletedLeaveLower
    <3> QED
      BY <3>1, <3>2, <3>3 DEF GeneratedInv, GeneratedTypeOK, OnlyOnwards
  <2> QED
    BY <2>1, <2>2 DEF RunTask, Relate
<1>6. \A s \in Generators : Observed(gen'[s], generated')
  <2> SUFFICES ASSUME NEW s \in Generators PROVE Observed(gen[s], generated')
    BY <1>1
  <2>1. Observed(gen[s], generated) /\ gen[s].seen \subseteq GeneratedIds
    BY <1>1 DEF GeneratedInv, GenState
  <2> QED
    BY <1>5, <2>1 DEF Observed, OnlyOnwards
<1> QED
  BY <1>1, <1>2, <1>3, <1>4, <1>5, <1>6 DEF GeneratedInv, GeneratedTypeOK

\* What is generated and lowest was never deleted.
LEMMA SomeSurvives == GeneratedInv => GeneratedTypeOK /\ SomeGeneratedSurvives
<1> SUFFICES ASSUME GeneratedInv, NEW k \in GeneratedIds, generated[k] # "none" PROVE Alive # {}
  BY DEF GeneratedInv, SomeGeneratedSurvives
<1> DEFINE made == {i \in GeneratedIds : generated[i] # "none"}
<1>1. Smallest(made) \in made /\ \A i \in made : Smallest(made) <= i
  BY LeastGenerated
<1>2. generated[Smallest(made)] # "deleted"
  <2> SUFFICES ASSUME generated[Smallest(made)] = "deleted" PROVE FALSE
    OBVIOUS
  <2>1. PICK j \in GeneratedIds : j < Smallest(made) /\ generated[j] # "none"
    BY <1>1 DEF GeneratedInv, DeletedLeaveLower
  <2>2. Smallest(made) <= j /\ j \in Nat /\ Smallest(made) \in Nat
    BY <1>1, <2>1, GenerationAssumption
  <2> HIDE DEF made
  <2> QED
    BY <2>1, <2>2, SMT
<1>3. Smallest(made) \in Alive
  BY <1>1, <1>2 DEF GeneratedInv, GeneratedTypeOK, Alive
<1> QED
  BY <1>3

\* convergeGeneratedCollections: however late and in whatever order the runs see
\* each other's collections, the losers never delete all of them.
THEOREM SomeGeneratedStays == GeneratedSpec => [](GeneratedTypeOK /\ SomeGeneratedSurvives)
<1>1. GeneratedInit => GeneratedInv
  BY GenerationAssumption, SMT
     DEF GeneratedInit, GeneratedInv, GeneratedTypeOK, DeletedLeaveLower, Observed, GenState, GenStages, TaskState,
         NoTask
<1>2. GeneratedInv /\ [GeneratedNext]_genVars => GeneratedInv'
  <2>1. ASSUME GeneratedInv, UNCHANGED genVars PROVE GeneratedInv'
    BY <2>1 DEF genVars, GeneratedInv, GeneratedTypeOK, DeletedLeaveLower, Observed
  <2> QED
    BY <2>1, GenWaitsKeep, RenameOwnKeeps, ConvergeKeeps, ElectLowestKeeps, DropPreferredKeeps, SpecHubKeeps
       DEF GeneratedNext, GenStep
<1> QED
  BY <1>1, <1>2, SomeSurvives, PTL DEF GeneratedSpec

-----------------------------------------------------------------------------
(* The collection import                                                   *)

Random == Importers \ Convergent

\* Only the election moves a run to another root than its own, and only a random
\* run gets there; it keeps what the service refused in mind.
Route(s, r) ==
    /\ r \in Convergent =>
         /\ s.target = RootOf[r]
         /\ s.pc \notin {"snapshot", "elect", "decide", "drop", "dropped", "cleanup"}
    /\ r \in Random =>
         /\ s.refused = FALSE /\ s.pc # "recheck"
         /\ s.pc \in {"drop", "dropped", "update", "await", "resend", "await2"} => s.target # RootOf[r]
RoutesKept == \A r \in Importers : Route(imp[r], r)

\* A random root is absent or holds its run's payload: no other tree is put
\* there, not even by the peers that elect it.
RandomRootPure ==
    \A r \in Random :
        /\ root[RootOf[r]] \in {Absent, Revision[r]}
        /\ imp[r].pc \in {"snapshot", "import"} => root[RootOf[r]] = Absent

\* Run r may still overwrite root i with its payload.
MayPut(r, i) ==
    /\ root[i] # "Foreign"
    /\ root[i] = "Legacy" => r \in Convergent /\ RootOf[r] = i /\ imp[r].refused
    /\ \A p \in Random : RootOf[p] = i => Revision[r] = Revision[p]

PutStages == {"drop", "dropped", "update", "await", "resend"}

\* The writes to come are of trees that their runs may rewrite.
PutsAllowed ==
    /\ \A r \in Importers : imp[r].pc \in PutStages =>
            MayPut(r, imp[r].target)
    /\ \A w \in late : /\ imp[w.by].pc \notin {"snapshot", "import"}
                       /\ ~w.create => MayPut(w.by, w.id)

\* A run in state s has given its own root up.
LeftOwn(s, r) ==
    \/ s.pc \in {"dropped", "update", "await", "resend", "await2", "failed"}
    \/ s.pc = "verify" /\ s.target # RootOf[r]

\* While no call failed, a random run that got past its clean-up has none of it left.
CleanWithoutFaults ==
    importFaults = 0 =>
        /\ late = {}
        /\ \A r \in Random : LeftOwn(imp[r], r) => root[RootOf[r]] = Absent

ImportInv == ImportTypeOK /\ RoutesKept /\ RandomRootPure /\ PutsAllowed /\ CleanWithoutFaults

-----------------------------------------------------------------------------
(* Least elements                                                          *)

\* A set of root ids that is not empty has a lowest one.
LEMMA LowestRoot ==
  ASSUME NEW S \in SUBSET RootIds, S # {}
  PROVE  Lowest(S) \in S /\ Lowest(S) \in RootIds
<1> DEFINE R == OpToRel(<, Nat)
<1>1. IsWellFoundedOn(R, Nat)
  BY NatLessThanWellFounded
<1>2. \A x, y \in Nat : <<y, x>> \in R <=> y < x
  BY DEF OpToRel
<1> HIDE DEF R
<1>3. S \in SUBSET Nat
  BY ImportAssumption
<1>4. PICK x \in S : \A y \in S : ~ (<<y, x>> \in R)
  BY <1>1, <1>3, WFMin
<1>5. \A y \in S : ~ (y < x)
  BY <1>2, <1>3, <1>4
<1>6. \A y \in S : x <= y
  BY <1>3, <1>5, SMT
<1> QED
  BY <1>6 DEF Lowest

-----------------------------------------------------------------------------
(* What a step does to the roots                                           *)

\* A create of run p, a whole-tree write that p may make, or the deletion of a
\* random root by its run.
RootMoves ==
    \/ UNCHANGED root
    \/ \E p \in Importers : /\ root' = AfterCreate(p)
                            /\ imp'[p].pc \notin {"snapshot", "import"}
                            /\ importFaults' = 0 => imp'[p].pc = "resolve"
    \/ \E p \in Importers, i \in RootIds : MayPut(p, i) /\ root' = AfterPut(p, i)
    \/ \E p \in Random : root' = AfterDelete(RootOf[p])

Parts == /\ root \in [RootIds -> Trees \cup {Absent}]
         /\ listed \subseteq RootIds
         /\ late \subseteq [by : Importers, id : RootIds, create : BOOLEAN]
         /\ imp \in [Importers -> ImportState]

LEMMA Constants ==
    /\ \A r \in Importers : /\ RootOf[r] \in RootIds /\ Revision[r] \in Trees
                            /\ Revision[r] \notin {"Legacy", "Foreign", Absent}
    /\ Absent \notin {"Legacy", "Foreign"}
    /\ \A p \in Importers, r \in Random : RootOf[p] = RootOf[r] => p = r
    /\ Random \subseteq Importers /\ \A r \in Importers : r \in Convergent \/ r \in Random
BY ImportAssumption DEF Random, Trees, Revisions

\* The same, root by root.
LEMMA RootPoint ==
    ASSUME ImportTypeOK, RootMoves
    PROVE  /\ root' \in [RootIds -> Trees \cup {Absent}]
           /\ \A i \in RootIds :
                \/ root'[i] = root[i]
                \/ /\ root[i] = Absent
                   /\ \E p \in Importers : /\ RootOf[p] = i /\ root'[i] = Revision[p]
                                           /\ imp'[p].pc \notin {"snapshot", "import"}
                                           /\ importFaults' = 0 => imp'[p].pc = "resolve"
                \/ root[i] # Absent /\ \E p \in Importers : MayPut(p, i) /\ root'[i] = Revision[p]
                \/ root'[i] = Absent /\ \E p \in Random : RootOf[p] = i
<1>1. root \in [RootIds -> Trees \cup {Absent}]
  BY DEF ImportTypeOK
<1>2. CASE UNCHANGED root
  BY <1>1, <1>2
<1>3. ASSUME NEW p \in Importers, root' = AfterCreate(p), imp'[p].pc \notin {"snapshot", "import"},
             importFaults' = 0 => imp'[p].pc = "resolve"
      PROVE  /\ root' \in [RootIds -> Trees \cup {Absent}]
             /\ \A i \in RootIds : root'[i] = root[i]
                  \/ (root[i] = Absent /\ RootOf[p] = i /\ root'[i] = Revision[p])
  BY <1>1, <1>3, Constants DEF AfterCreate
<1>4. ASSUME NEW p \in Importers, NEW j \in RootIds, MayPut(p, j), root' = AfterPut(p, j)
      PROVE  /\ root' \in [RootIds -> Trees \cup {Absent}]
             /\ \A i \in RootIds : root'[i] = root[i]
                  \/ (root[i] # Absent /\ i = j /\ root'[i] = Revision[p])
  BY <1>1, <1>4, Constants DEF AfterPut
<1>5. ASSUME NEW p \in Random, root' = AfterDelete(RootOf[p])
      PROVE  /\ root' \in [RootIds -> Trees \cup {Absent}]
             /\ \A i \in RootIds : root'[i] = root[i] \/ (root'[i] = Absent /\ RootOf[p] = i)
  BY <1>1, <1>5, Constants DEF AfterDelete
<1> QED
  BY <1>1, <1>2, <1>3, <1>4, <1>5 DEF RootMoves

\* What a step must not do to a root.
RootsRespected == OnlyOwnRootDeleted /\ ForeignUntouched /\ LegacyOnlyOnRefusal

\* Whatever moves a root so respects its owners.
LEMMA MovesRespect ==
    ASSUME ImportInv, RootMoves
    PROVE  /\ RootsRespected
           /\ \A r \in Random : root'[RootOf[r]] \in {Absent, Revision[r]}
<1>1. ImportTypeOK /\ \A r \in Random : root[RootOf[r]] \in {Absent, Revision[r]}
  BY DEF ImportInv, RandomRootPure
<1>2. OnlyOwnRootDeleted
  BY <1>1, RootPoint, Constants DEF OnlyOwnRootDeleted, Present, Random
<1>3. ForeignUntouched
  BY <1>1, RootPoint, Constants DEF ForeignUntouched, MayPut
<1>4. LegacyOnlyOnRefusal
  BY <1>1, RootPoint, Constants DEF LegacyOnlyOnRefusal, MayPut
<1>5. \A r \in Random : root'[RootOf[r]] \in {Absent, Revision[r]}
  BY <1>1, RootPoint, Constants DEF MayPut
<1> QED
  BY <1>2, <1>3, <1>4, <1>5 DEF RootsRespected

\* What a run may rewrite stays so, since refusals are not forgotten.
LEMMA MayPutStays ==
    ASSUME ImportInv, RootMoves, NEW r \in Importers, NEW i \in RootIds, MayPut(r, i),
           imp[r].refused => imp'[r].refused
    PROVE  MayPut(r, i)'
<1>1. ImportTypeOK
  BY DEF ImportInv
<1>2. root'[i] # "Foreign"
  BY <1>1, RootPoint, Constants DEF MayPut
<1>3. root'[i] = "Legacy" => root[i] = "Legacy"
  BY <1>1, RootPoint, Constants
<1> QED
  BY <1>2, <1>3 DEF MayPut

\* A random root that is absent comes back only by its run's create.
LEMMA AbsentStays ==
    ASSUME ImportInv, RootMoves, NEW r \in Random, root[RootOf[r]] = Absent,
           imp'[r].pc \in {"snapshot", "import"} \/ (importFaults' = 0 /\ imp'[r].pc # "resolve")
    PROVE  root'[RootOf[r]] = Absent
<1>1. ImportTypeOK
  BY DEF ImportInv
<1> QED
  BY <1>1, RootPoint, Constants

-----------------------------------------------------------------------------
(* A step of one run                                                       *)

\* What run r does: its new state s and what it asks of the service.
LEMMA RunKeeps ==
    ASSUME ImportInv, NEW r \in Importers, NEW s \in ImportState, imp' = [imp EXCEPT ![r] = s],
           RootMoves, UNCHANGED listed,
           importFaults' \in 0..MaxImportFaults, importFaults' = 0 => importFaults = 0,
           late' \subseteq [by : Importers, id : RootIds, create : BOOLEAN],
           importFaults' = 0 => late' = late,
           \A w \in late' : w \in late \/ (w.by = r /\ (~w.create => MayPut(r, w.id))),
           late' # late => s.pc \notin {"snapshot", "import"},
           imp[r].refused => s.refused, Route(s, r),
           s.pc \in {"snapshot", "import"} => imp[r].pc \in {"snapshot", "import"},
           s.pc \in PutStages => MayPut(r, s.target),
           importFaults' = 0 /\ r \in Random /\ LeftOwn(s, r) => root'[RootOf[r]] = Absent
    PROVE  ImportInv' /\ RootsRespected
<1>1. /\ ImportTypeOK /\ imp \in [Importers -> ImportState] /\ listed \subseteq RootIds
      /\ imp'[r] = s /\ \A p \in Importers \ {r} : imp'[p] = imp[p]
      /\ \A p \in Importers : imp[p] \in ImportState
  BY DEF ImportInv, ImportTypeOK
<1>2. \A p \in Importers : imp[p].refused => imp'[p].refused
  BY <1>1
<1>3. ImportTypeOK'
  BY <1>1, RootPoint DEF ImportTypeOK
<1>4. RoutesKept'
  BY <1>1 DEF ImportInv, RoutesKept
<1>5. RandomRootPure'
  <2>1. \A p \in Random : root'[RootOf[p]] \in {Absent, Revision[p]}
    BY MovesRespect
  <2>2. ASSUME NEW p \in Random, imp'[p].pc \in {"snapshot", "import"}
        PROVE  root'[RootOf[p]] = Absent
    <3>1. imp[p].pc \in {"snapshot", "import"}
      BY <1>1, <2>2, Constants
    <3>2. root[RootOf[p]] = Absent
      BY <3>1 DEF ImportInv, RandomRootPure
    <3> QED
      BY <2>2, <3>2, AbsentStays
  <2> QED
    BY <2>1, <2>2 DEF RandomRootPure
<1>6. PutsAllowed'
  <2>1. ASSUME NEW p \in Importers, imp'[p].pc \in PutStages PROVE MayPut(p, imp[p].target)'
    <3>1. MayPut(p, imp'[p].target)
      BY <1>1, <2>1 DEF ImportInv, PutsAllowed
    <3>2. imp'[p].target \in RootIds
      BY <1>1 DEF ImportState
    <3>3. ASSUME NEW i \in RootIds, MayPut(p, i) PROVE MayPut(p, i)'
      BY <1>2, <3>3, MayPutStays
    <3>4. PICK i \in RootIds : i = imp'[p].target
      BY <3>2
    <3>5. MayPut(p, i)'
      BY <3>1, <3>3, <3>4
    <3> QED
      BY <3>4, <3>5 DEF MayPut
  <2>2. ASSUME NEW w \in late', ~w.create PROVE MayPut(w.by, w.id)'
    <3>1. MayPut(w.by, w.id)
      <4>1. CASE w \in late
        <5>1. PutsAllowed
          BY DEF ImportInv
        <5> QED
          BY <2>2, <4>1, <5>1, Zenon DEF PutsAllowed
      <4>2. CASE w \notin late
        BY <2>2, <4>2
      <4> QED
        BY <4>1, <4>2
    <3>2. w.by \in Importers /\ w.id \in RootIds
      BY <2>2
    <3>3. ASSUME NEW p \in Importers, NEW i \in RootIds, MayPut(p, i) PROVE MayPut(p, i)'
      BY <1>2, <3>3, MayPutStays
    <3> QED
      BY <3>1, <3>2, <3>3
  <2>3. ASSUME NEW w \in late' PROVE imp'[w.by].pc \notin {"snapshot", "import"}
    <3>1. CASE w \in late
      <4>1. imp[w.by].pc \notin {"snapshot", "import"} /\ w.by \in Importers
        <5>1. late \subseteq [by : Importers, id : RootIds, create : BOOLEAN]
          BY <1>1 DEF ImportTypeOK
        <5>2. w \in [by : Importers, id : RootIds, create : BOOLEAN] /\ w.by \in Importers
          BY <3>1, <5>1
        <5>3. PutsAllowed
          BY DEF ImportInv
        <5>4. imp[w.by].pc \notin {"snapshot", "import"}
          BY <3>1, <5>3, Zenon DEF PutsAllowed
        <5> QED
          BY <5>2, <5>4
      <4> QED
        BY <1>1, <4>1
    <3>2. CASE w \notin late
      BY <1>1, <3>2
    <3> QED
      BY <3>1, <3>2
  <2> QED
    BY <2>1, <2>2, <2>3 DEF PutsAllowed
<1>7. CleanWithoutFaults'
  <2> SUFFICES ASSUME importFaults' = 0
               PROVE  late' = {} /\ \A p \in Random : LeftOwn(imp'[p], p) => root'[RootOf[p]] = Absent
    BY DEF CleanWithoutFaults, LeftOwn
  <2>1. late' = {}
    BY DEF ImportInv, CleanWithoutFaults
  <2>2. ASSUME NEW p \in Random, p # r, LeftOwn(imp'[p], p) PROVE root'[RootOf[p]] = Absent
    <3>1. imp'[p] = imp[p] /\ root[RootOf[p]] = Absent
      BY <1>1, <2>2, Constants DEF ImportInv, CleanWithoutFaults
    <3>2. imp'[p].pc # "resolve"
      BY <2>2 DEF LeftOwn
    <3> QED
      BY <3>1, <3>2, AbsentStays
  <2> QED
    BY <1>1, <2>1, <2>2
<1> QED
  BY <1>3, <1>4, <1>5, <1>6, <1>7, MovesRespect DEF ImportInv

LEMMA ImportFields ==
    ASSUME NEW q \in ImportState
    PROVE  /\ \A v \in ImportStages : [q EXCEPT !.pc = v] \in ImportState
           /\ \A v \in SUBSET RootIds : [q EXCEPT !.stale = v] \in ImportState
           /\ \A v \in BOOLEAN : [q EXCEPT !.refused = v] \in ImportState
           /\ \A v \in BOOLEAN : [q EXCEPT !.proven = v] \in ImportState
           /\ \A v \in SUBSET RootIds : [q EXCEPT !.seen = v] \in ImportState
           /\ \A v \in RootIds : [q EXCEPT !.target = v] \in ImportState
BY SMT DEF ImportState

LEMMA FaultsCount ==
    ASSUME ImportInv, ImportWorks \/ ImportFault
    PROVE  /\ importFaults' \in 0..MaxImportFaults
           /\ importFaults' = 0 => importFaults = 0
           /\ ImportFault => importFaults' # 0
BY ImportAssumption, SMT DEF ImportInv, ImportTypeOK, ImportWorks, ImportFault

\* What a write without an answer leaves.
LateAllowed(r) ==
    \/ UNCHANGED late
    \/ /\ importFaults' # 0
       /\ \E i \in RootIds, c \in BOOLEAN :
            /\ late' = late \cup {[by |-> r, id |-> i, create |-> c]}
            /\ ~c => MayPut(r, i)

LEMMA LateFacts ==
    ASSUME ImportInv, NEW r \in Importers, LateAllowed(r)
    PROVE  /\ late' \subseteq [by : Importers, id : RootIds, create : BOOLEAN]
           /\ importFaults' = 0 => late' = late
           /\ \A w \in late' : w \in late \/ (w.by = r /\ (~w.create => MayPut(r, w.id)))
<1>1. late \subseteq [by : Importers, id : RootIds, create : BOOLEAN]
  BY DEF ImportInv, ImportTypeOK
<1>2. CASE UNCHANGED late
  BY <1>1, <1>2
<1>3. ASSUME NEW i \in RootIds, NEW c \in BOOLEAN, importFaults' # 0, ~c => MayPut(r, i),
             late' = late \cup {[by |-> r, id |-> i, create |-> c]}
      PROVE  /\ late' \subseteq [by : Importers, id : RootIds, create : BOOLEAN]
             /\ \A w \in late' : w \in late \/ (w.by = r /\ (~w.create => MayPut(r, w.id)))
  <2> DEFINE n == [by |-> r, id |-> i, create |-> c]
  <2>1. n \in [by : Importers, id : RootIds, create : BOOLEAN] /\ n.by = r /\ n.id = i /\ n.create = c
    OBVIOUS
  <2>2. \A w \in late' : w \in late \/ w = n
    BY <1>3
  <2> HIDE DEF n
  <2> QED
    BY <1>1, <1>3, <2>1, <2>2
<1> QED
  BY <1>2, <1>3 DEF LateAllowed

\* A run moves on to another stage.
LEMMA GotoKeeps ==
    ASSUME ImportInv, NEW r \in Importers, NEW pc \in ImportStages \ {"snapshot", "import"},
           ImportGoto(r, pc), RootMoves, UNCHANGED listed, LateAllowed(r), ImportWorks \/ ImportFault,
           r \in Convergent => pc \notin {"snapshot", "elect", "decide", "drop", "dropped", "cleanup"},
           r \in Random => pc # "recheck",
           r \in Random /\ pc \in {"drop", "dropped", "update", "await", "resend", "await2"} =>
              imp[r].target # RootOf[r],
           pc \in PutStages => MayPut(r, imp[r].target),
           r \in Random /\ importFaults' = 0
              /\ (pc \in {"dropped", "update", "await", "resend", "await2", "failed"}
                  \/ (pc = "verify" /\ imp[r].target # RootOf[r])) => root'[RootOf[r]] = Absent
    PROVE  ImportInv' /\ RootsRespected
<1> DEFINE s == [imp[r] EXCEPT !.pc = pc]
<1>1. imp[r] \in ImportState /\ Route(imp[r], r)
  BY DEF ImportInv, ImportTypeOK, RoutesKept
<1>2. s \in ImportState
  BY <1>1, ImportFields
<1>3. imp' = [imp EXCEPT ![r] = s]
  BY DEF ImportGoto
<1>4. s.pc = pc /\ s.target = imp[r].target
  BY <1>1, SMT DEF ImportState
<1>5. s.refused = imp[r].refused
  BY <1>1, SMT DEF ImportState
<1> HIDE DEF s
<1>6. Route(s, r)
  BY <1>1, <1>4, <1>5 DEF Route
<1>7. importFaults' = 0 /\ r \in Random /\ LeftOwn(s, r) => root'[RootOf[r]] = Absent
  BY <1>4 DEF LeftOwn
<1> QED
  BY <1>2, <1>3, <1>4, <1>5, <1>6, <1>7, FaultsCount, LateFacts, RunKeeps

\* What holds of a run in a stage.
LEMMA RunFacts ==
    ASSUME ImportInv, NEW r \in Importers
    PROVE  /\ imp[r] \in ImportState /\ imp[r].target \in RootIds /\ imp[r].seen \subseteq RootIds
           /\ Route(imp[r], r) /\ listed \subseteq RootIds
           /\ imp[r].pc \in PutStages => MayPut(r, imp[r].target)
           /\ r \in Random => /\ root[RootOf[r]] \in {Absent, Revision[r]}
                              /\ imp[r].pc \in {"snapshot", "import"} => root[RootOf[r]] = Absent
                              /\ importFaults = 0 /\ LeftOwn(imp[r], r) => root[RootOf[r]] = Absent
<1>1. imp[r] \in ImportState /\ listed \subseteq RootIds
  BY DEF ImportInv, ImportTypeOK
<1>2. imp[r].target \in RootIds /\ imp[r].seen \subseteq RootIds
  BY <1>1, SMT DEF ImportState
<1> QED
  BY <1>1, <1>2 DEF ImportInv, RoutesKept, PutsAllowed, RandomRootPure, CleanWithoutFaults

LEMMA NameSnapshotKeeps ==
    ASSUME ImportInv, NEW r \in Importers, NameSnapshot(r) PROVE ImportInv' /\ RootsRespected
<1>1. imp[r].pc = "snapshot" /\ ServiceIdle
  BY DEF NameSnapshot, ImportAt
<1>2. r \in Random /\ r \notin Convergent
  BY <1>1, RunFacts, Constants DEF Route
<1>3. root[RootOf[r]] = Absent /\ imp[r] \in ImportState /\ Route(imp[r], r)
  BY <1>1, <1>2, RunFacts
<1>4. UNCHANGED <<root, listed, late>> /\ RootMoves
  BY <1>1 DEF ServiceIdle, RootMoves
<1>5. ASSUME NEW omitted \in BOOLEAN, ImportWorks,
             imp' = [imp EXCEPT ![r].pc = "import",
                         ![r].stale = {i \in listed : omitted \/ ~Owned(i)}]
      PROVE  ImportInv' /\ RootsRespected
  <2> DEFINE S == {i \in listed : omitted \/ ~Owned(i)}
             s1 == [imp[r] EXCEPT !.pc = "import"]
             s == [s1 EXCEPT !.stale = S]
  <2>1. S \in SUBSET RootIds
    BY RunFacts
  <2> HIDE DEF S
  <2>2. s1 \in ImportState /\ s \in ImportState
    BY <1>3, <2>1, ImportFields DEF ImportStages
  <2>3. s.pc = "import" /\ s.target = imp[r].target
    BY <1>3, SMT DEF ImportState
  <2>4. s.refused = imp[r].refused
    BY <1>3, SMT DEF ImportState
  <2>5. imp' = [imp EXCEPT ![r] = s]
    BY <1>5 DEF S
  <2> HIDE DEF s, s1
  <2>6. Route(s, r)
    BY <1>2, <1>3, <2>3, <2>4 DEF Route
  <2> QED
    BY <1>1, <1>4, <1>5, <2>2, <2>3, <2>4, <2>5, <2>6, FaultsCount, LateFacts, RunKeeps
       DEF LateAllowed, LeftOwn, PutStages
<1>6. CASE ImportGoto(r, "failed") /\ ImportFault
  BY <1>2, <1>4, <1>6, FaultsCount, GotoKeeps DEF LateAllowed, PutStages, ImportStages
<1> QED
  BY <1>5, <1>6 DEF NameSnapshot

LEMMA SubmitImportKeeps ==
    ASSUME ImportInv, NEW r \in Importers, SubmitImport(r) PROVE ImportInv' /\ RootsRespected
<1>1. /\ imp[r].pc = "import" /\ imp[r] \in ImportState /\ Route(imp[r], r)
      /\ RootOf[r] \in RootIds
      /\ r \in Random => root[RootOf[r]] = Absent
  BY RunFacts, Constants DEF SubmitImport, ImportAt
<1>2. CASE /\ root' = AfterCreate(r) /\ UNCHANGED <<listed, late>> /\ ImportWorks
           /\ imp' = [imp EXCEPT ![r].pc = "resolve", ![r].proven = Deferred]
  <2> DEFINE s1 == [imp[r] EXCEPT !.pc = "resolve"]
             s == [s1 EXCEPT !.proven = Deferred]
  <2>1. s1 \in ImportState /\ s \in ImportState
    BY <1>1, ImportAssumption, ImportFields DEF ImportStages
  <2>2. s.pc = "resolve" /\ s.target = imp[r].target
    BY <1>1, SMT DEF ImportState
  <2>3. s.refused = imp[r].refused
    BY <1>1, SMT DEF ImportState
  <2>4. imp' = [imp EXCEPT ![r] = s]
    BY <1>2
  <2> HIDE DEF s, s1
  <2>5. Route(s, r)
    BY <1>1, <2>2, <2>3 DEF Route
  <2>6. imp'[r] = s
    BY <2>4 DEF ImportInv, ImportTypeOK
  <2>7. RootMoves
    BY <1>2, <2>2, <2>6 DEF RootMoves
  <2> QED
    BY <1>1, <1>2, <2>1, <2>2, <2>3, <2>4, <2>5, <2>7, FaultsCount, LateFacts, RunKeeps
       DEF LateAllowed, LeftOwn, PutStages
<1>3. CASE /\ root[RootOf[r]] # Absent /\ ServiceIdle /\ ImportWorks
           /\ imp' = [imp EXCEPT ![r].pc = IF r \in Convergent THEN "recover" ELSE "failed",
                                 ![r].refused = r \in Convergent]
  <2>1. r \in Convergent /\ r \notin Random
    BY <1>1, <1>3, Constants DEF Random
  <2> DEFINE s1 == [imp[r] EXCEPT !.pc = "recover"]
             s == [s1 EXCEPT !.refused = TRUE]
  <2>2. s1 \in ImportState /\ s \in ImportState
    BY <1>1, ImportFields DEF ImportStages
  <2>3. s.pc = "recover" /\ s.target = imp[r].target
    BY <1>1, SMT DEF ImportState
  <2>4. s.refused = TRUE
    BY <1>1, SMT DEF ImportState
  <2>5. imp' = [imp EXCEPT ![r] = s]
    <3>1. (r \in Convergent) = TRUE
      BY <2>1
    <3> QED
      BY <1>3, <3>1
  <2> HIDE DEF s, s1
  <2>6. Route(s, r)
    BY <1>1, <2>1, <2>3, <2>4 DEF Route
  <2>7. RootMoves /\ UNCHANGED <<listed, late>>
    BY <1>3 DEF RootMoves, ServiceIdle
  <2> QED
    BY <1>1, <1>3, <2>1, <2>2, <2>3, <2>4, <2>5, <2>6, <2>7, FaultsCount, LateFacts, RunKeeps
       DEF LateAllowed, LeftOwn, PutStages
<1>4. CASE /\ Unanswered(AfterCreate(r), [by |-> r, id |-> RootOf[r], create |-> TRUE])
           /\ ImportGoto(r, "recover") /\ ImportFault
  <2>1. imp'[r].pc = "recover"
    BY <1>1, <1>4, SMT DEF ImportGoto, ImportInv, ImportTypeOK, ImportState
  <2>2. importFaults' # 0
    BY <1>4, FaultsCount
  <2>3. RootMoves /\ UNCHANGED listed
    BY <1>4, <2>1, <2>2 DEF RootMoves, Unanswered
  <2>4. LateAllowed(r)
    BY <1>1, <1>4, <2>2 DEF LateAllowed, Unanswered
  <2> QED
    BY <1>4, <2>2, <2>3, <2>4, GotoKeeps DEF PutStages, ImportStages
<1>5. CASE ImportGoto(r, "failed") /\ ServiceIdle /\ ImportFault
  BY <1>5, FaultsCount, GotoKeeps DEF LateAllowed, PutStages, ImportStages, ServiceIdle, RootMoves
<1> QED
  BY <1>2, <1>3, <1>4, <1>5 DEF SubmitImport

\* A random run that has given its root up sees it stay away.
LEMMA StaysClean ==
    ASSUME ImportInv, RootMoves, NEW r \in Random, LeftOwn(imp[r], r), importFaults = 0,
           importFaults' = 0, imp'[r].pc # "resolve"
    PROVE  root'[RootOf[r]] = Absent
BY RunFacts, AbsentStays, Constants

\* Of a run without faults that only moves on.
LEMMA GotoPc ==
    ASSUME ImportInv, NEW r \in Importers, NEW pc \in ImportStages, ImportGoto(r, pc)
    PROVE  imp'[r].pc = pc
<1>1. imp \in [Importers -> ImportState] /\ imp[r] \in ImportState
  BY DEF ImportInv, ImportTypeOK
<1> QED
  BY <1>1, SMT DEF ImportGoto, ImportState

LEMMA IdleFacts ==
    ASSUME ServiceIdle
    PROVE  RootMoves /\ UNCHANGED <<root, listed, late>> /\ \A r \in Importers : LateAllowed(r)
BY DEF ServiceIdle, RootMoves, LateAllowed

LEMMA RecoverRootKeeps ==
    ASSUME ImportInv, NEW r \in Importers, RecoverRoot(r) PROVE ImportInv' /\ RootsRespected
<1>1. ServiceIdle /\ (ImportWorks \/ ImportFault)
      /\ (ImportGoto(r, "evidence") \/ ImportGoto(r, IF r \in Convergent THEN "failed" ELSE "cleanup"))
  BY DEF RecoverRoot
<1>2. CASE ImportGoto(r, "evidence")
  BY <1>1, <1>2, IdleFacts, GotoKeeps DEF ImportStages, PutStages
<1>3. CASE r \in Convergent /\ ImportGoto(r, "failed")
  BY <1>1, <1>3, IdleFacts, GotoKeeps DEF ImportStages, PutStages, Random
<1>4. CASE r \notin Convergent /\ ImportGoto(r, "cleanup")
  BY <1>1, <1>4, IdleFacts, GotoKeeps DEF ImportStages, PutStages
<1> QED
  BY <1>1, <1>2, <1>3, <1>4

LEMMA ReadEvidenceKeeps ==
    ASSUME ImportInv, NEW r \in Importers, ReadEvidence(r) PROVE ImportInv' /\ RootsRespected
<1>1. /\ imp[r].pc = "evidence" /\ ServiceIdle /\ (ImportWorks \/ ImportFault)
      /\ imp[r] \in ImportState /\ Route(imp[r], r)
  BY RunFacts DEF ReadEvidence, ImportAt
<1>2. CASE ImportGoto(r, "conflict")
  BY <1>1, <1>2, IdleFacts, GotoKeeps DEF ImportStages, PutStages
<1>3. CASE ConvergentEvidence(r)
  <2>1. r \in Convergent /\ r \notin Random /\ imp[r].target = RootOf[r]
    BY <1>1, <1>3 DEF ConvergentEvidence, Random, Route
  <2>2. CASE ImportGoto(r, "verify")
    BY <1>1, <2>1, <2>2, IdleFacts, GotoKeeps DEF ImportStages, PutStages
  <2>3. CASE ImportGoto(r, "update") /\ (root[RootOf[r]] \in Revisions \/ (root[RootOf[r]] = "Legacy" /\ imp[r].refused))
    <3>1. root[RootOf[r]] # "Foreign"
      BY <2>3, Constants DEF Revisions
    <3>2. root[RootOf[r]] = "Legacy" => imp[r].refused
      BY <2>3, Constants DEF Revisions
    <3>3. MayPut(r, imp[r].target)
      BY <2>1, <3>1, <3>2, Constants DEF MayPut
    <3> QED
      BY <1>1, <2>1, <2>3, <3>3, IdleFacts, GotoKeeps DEF ImportStages, PutStages
  <2> QED
    BY <1>2, <1>3, <2>2, <2>3 DEF ConvergentEvidence
<1>4. CASE /\ r \notin Convergent
           /\ imp' = [imp EXCEPT ![r].pc = "elect", ![r].proven = TRUE] /\ ImportWorks
  <2> DEFINE s1 == [imp[r] EXCEPT !.pc = "elect"]
             s == [s1 EXCEPT !.proven = TRUE]
  <2>1. s1 \in ImportState /\ s \in ImportState
    BY <1>1, ImportFields DEF ImportStages
  <2>2. s.pc = "elect" /\ s.target = imp[r].target
    BY <1>1, SMT DEF ImportState
  <2>3. s.refused = imp[r].refused
    BY <1>1, SMT DEF ImportState
  <2>4. imp' = [imp EXCEPT ![r] = s]
    BY <1>4
  <2> HIDE DEF s, s1
  <2>5. Route(s, r)
    BY <1>1, <1>4, <2>2, <2>3 DEF Route
  <2> QED
    BY <1>1, <1>4, <2>1, <2>2, <2>3, <2>4, <2>5, IdleFacts, FaultsCount, LateFacts, RunKeeps
       DEF LeftOwn, PutStages
<1> QED
  BY <1>2, <1>3, <1>4 DEF ReadEvidence, RandomEvidence

\* After an acknowledged write or a receipt: only convergent runs read it again.
LEMMA WrittenKeeps ==
    ASSUME ImportInv, NEW r \in Importers, ImportGoto(r, AfterUpdate(r)), RootMoves, UNCHANGED listed,
           LateAllowed(r), ImportWorks \/ ImportFault,
           r \in Random => LeftOwn(imp[r], r)
    PROVE  ImportInv' /\ RootsRespected
<1>1. CASE AfterUpdate(r) = "verify"
  <2>1. imp'[r].pc = "verify"
    BY <1>1, GotoPc DEF ImportStages
  <2>2. r \in Random /\ importFaults' = 0 => root'[RootOf[r]] = Absent
    BY <2>1, FaultsCount, StaysClean
  <2> QED
    BY <1>1, <2>2, GotoKeeps DEF ImportStages, PutStages
<1>2. CASE AfterUpdate(r) = "recheck"
  <2>1. r \notin Random
    BY <1>2 DEF AfterUpdate, Random
  <2> QED
    BY <1>2, <2>1, GotoKeeps DEF ImportStages, PutStages
<1> QED
  BY <1>1, <1>2 DEF AfterUpdate

LEMMA DeepUpdateKeeps ==
    ASSUME ImportInv, NEW r \in Importers, NEW stage \in {"update", "resend"},
           NEW unknown \in {"await", "await2"}, DeepUpdate(r, stage, unknown)
    PROVE  ImportInv' /\ RootsRespected
<1>1. /\ imp[r].pc = stage /\ Route(imp[r], r) /\ imp[r].target \in RootIds
      /\ MayPut(r, imp[r].target)
  BY RunFacts DEF DeepUpdate, ImportAt, PutStages
<1>2. LeftOwn(imp[r], r)
  BY <1>1 DEF LeftOwn
<1>3. r \in Random => imp[r].target # RootOf[r]
  BY <1>1 DEF Route
<1>4. root' = AfterPut(r, imp[r].target) => RootMoves
  BY <1>1 DEF RootMoves
<1>5. ASSUME NEW pc \in {"await", "await2", "failed"}, ImportGoto(r, pc), RootMoves, UNCHANGED listed,
             LateAllowed(r), ImportWorks \/ ImportFault
      PROVE  ImportInv' /\ RootsRespected
  <2>1. imp'[r].pc = pc
    BY <1>5, GotoPc DEF ImportStages
  <2>2. r \in Random /\ importFaults' = 0 => root'[RootOf[r]] = Absent
    BY <1>2, <1>5, <2>1, FaultsCount, StaysClean
  <2> QED
    BY <1>1, <1>3, <1>5, <2>2, GotoKeeps DEF ImportStages, PutStages
<1>6. CASE /\ root' = AfterPut(r, imp[r].target) /\ UNCHANGED <<listed, late>> /\ ImportWorks
           /\ ImportGoto(r, IF stage = "update" THEN AfterUpdate(r) ELSE unknown)
  <2>1. RootMoves /\ LateAllowed(r)
    BY <1>4, <1>6 DEF LateAllowed
  <2>2. CASE ImportGoto(r, AfterUpdate(r))
    BY <1>2, <1>6, <2>1, <2>2, WrittenKeeps
  <2>3. CASE ImportGoto(r, unknown)
    BY <1>5, <1>6, <2>1, <2>3
  <2> QED
    BY <1>6, <2>2, <2>3
<1>7. CASE ImportGoto(r, "failed") /\ ServiceIdle /\ (ImportWorks \/ ImportFault)
  BY <1>5, <1>7, IdleFacts
<1>8. CASE /\ Unanswered(AfterPut(r, imp[r].target), [by |-> r, id |-> imp[r].target, create |-> FALSE])
           /\ ImportGoto(r, unknown) /\ ImportFault
  <2>1. importFaults' # 0
    BY <1>8, FaultsCount
  <2>2. RootMoves /\ UNCHANGED listed
    BY <1>4, <1>8 DEF Unanswered, RootMoves
  <2>3. LateAllowed(r)
    BY <1>1, <1>8, <2>1 DEF Unanswered, LateAllowed
  <2> QED
    BY <1>5, <1>8, <2>2, <2>3
<1> QED
  BY <1>6, <1>7, <1>8 DEF DeepUpdate

LEMMA AwaitReceiptKeeps ==
    ASSUME ImportInv, NEW r \in Importers, NEW stage, NEW unseen,
           (stage = "await" /\ unseen = "resend") \/ (stage = "await2" /\ unseen = "failed"),
           AwaitReceipt(r, stage, unseen)
    PROVE  ImportInv' /\ RootsRespected
<1>1. /\ imp[r].pc = stage /\ Route(imp[r], r) /\ ServiceIdle /\ (ImportWorks \/ ImportFault)
      /\ stage = "await" => MayPut(r, imp[r].target)
  BY RunFacts DEF AwaitReceipt, ImportAt, PutStages
<1>2. LeftOwn(imp[r], r)
  BY <1>1 DEF LeftOwn
<1>3. CASE ImportGoto(r, AfterUpdate(r))
  BY <1>1, <1>2, <1>3, IdleFacts, WrittenKeeps
<1>4. CASE ImportGoto(r, unseen)
  <2>1. imp'[r].pc = unseen
    BY <1>4, GotoPc DEF ImportStages
  <2>2. r \in Random /\ importFaults' = 0 => root'[RootOf[r]] = Absent
    BY <1>1, <1>2, <2>1, IdleFacts, FaultsCount, StaysClean
  <2>3. r \in Random => imp[r].target # RootOf[r]
    BY <1>1 DEF Route
  <2> QED
    BY <1>1, <1>4, <2>2, <2>3, IdleFacts, GotoKeeps DEF ImportStages, PutStages
<1> QED
  BY <1>3, <1>4 DEF AwaitReceipt

LEMMA RecheckKeeps ==
    ASSUME ImportInv, NEW r \in Importers, Recheck(r) PROVE ImportInv' /\ RootsRespected
<1>1. /\ ServiceIdle /\ (ImportWorks \/ ImportFault) /\ r \notin Random
      /\ (ImportGoto(r, "verify") \/ ImportGoto(r, "conflict"))
  BY RunFacts DEF Recheck, ImportAt, Route
<1> QED
  BY <1>1, IdleFacts, GotoKeeps DEF ImportStages, PutStages

LEMMA ResolveRootKeeps ==
    ASSUME ImportInv, NEW r \in Importers, ResolveRoot(r) PROVE ImportInv' /\ RootsRespected
<1>1. ServiceIdle /\ (ImportWorks \/ ImportFault)
  BY DEF ResolveRoot
<1>2. CASE r \in Convergent
  <2>1. r \notin Random
    BY <1>2 DEF Random
  <2>2. CASE ImportGoto(r, AfterUpdate(r))
    BY <1>1, <2>1, <2>2, IdleFacts, WrittenKeeps
  <2>3. CASE ImportGoto(r, "failed")
    BY <1>1, <2>1, <2>3, IdleFacts, GotoKeeps DEF ImportStages, PutStages
  <2> QED
    BY <1>2, <2>2, <2>3 DEF ResolveRoot
<1>3. CASE r \notin Convergent
  <2>1. ImportGoto(r, "elect")
    BY <1>3 DEF ResolveRoot
  <2> QED
    BY <1>1, <1>3, <2>1, IdleFacts, GotoKeeps DEF ImportStages, PutStages
<1> QED
  BY <1>2, <1>3

LEMMA ObserveCopiesKeeps ==
    ASSUME ImportInv, NEW r \in Importers, ObserveCopies(r) PROVE ImportInv' /\ RootsRespected
<1>1. /\ imp[r].pc = "elect" /\ ServiceIdle /\ ImportWorks /\ listed \in SUBSET RootIds
      /\ imp[r] \in ImportState /\ Route(imp[r], r)
      /\ imp' = [imp EXCEPT ![r].pc = "decide", ![r].seen = listed]
  BY RunFacts DEF ObserveCopies, ImportAt
<1> DEFINE s1 == [imp[r] EXCEPT !.pc = "decide"]
           s == [s1 EXCEPT !.seen = listed]
<1>2. s1 \in ImportState /\ s \in ImportState
  BY <1>1, ImportFields DEF ImportStages
<1>3. s.pc = "decide" /\ s.target = imp[r].target
  BY <1>1, SMT DEF ImportState
<1>4. s.refused = imp[r].refused
  BY <1>1, SMT DEF ImportState
<1>5. imp' = [imp EXCEPT ![r] = s]
  BY <1>1
<1> HIDE DEF s, s1
<1>6. Route(s, r)
  BY <1>1, <1>3, <1>4 DEF Route
<1> QED
  BY <1>1, <1>2, <1>3, <1>4, <1>5, <1>6, IdleFacts, FaultsCount, LateFacts, RunKeeps
     DEF LeftOwn, PutStages

\* A copy whose export is this payload may be written.
LEMMA VerifiedMayPut ==
    ASSUME ImportInv, NEW r \in Random, NEW i \in Verified(r)
    PROVE  i \in RootIds /\ MayPut(r, i)
<1>1. i \in RootIds /\ root[i] = Revision[r] /\ r \in Importers
  BY RunFacts, Constants DEF Verified
<1>2. \A p \in Random : root[RootOf[p]] \in {Absent, Revision[p]}
  BY DEF ImportInv, RandomRootPure
<1> QED
  BY <1>1, <1>2, Constants DEF MayPut

\* The election moves a run to a copy that is not its own, or keeps its own.
LEMMA ElectedKeeps ==
    ASSUME ImportInv, NEW r \in Random, NEW i \in RootIds, NEW pc \in {"verify", "drop"},
           imp[r].pc = "decide",
           imp' = [imp EXCEPT ![r].target = i, ![r].pc = pc], ServiceIdle, ImportWorks,
           pc = "verify" => i = RootOf[r], pc = "drop" => i # RootOf[r] /\ MayPut(r, i)
    PROVE  ImportInv' /\ RootsRespected
<1>1. imp[r] \in ImportState /\ Route(imp[r], r) /\ r \in Importers /\ r \notin Convergent
  BY RunFacts, Constants DEF Random
<1> DEFINE s1 == [imp[r] EXCEPT !.target = i]
           s == [s1 EXCEPT !.pc = pc]
<1>2. s1 \in ImportState /\ s \in ImportState
  BY <1>1, ImportFields DEF ImportStages
<1>3. s.pc = pc /\ s.target = i
  BY <1>1, SMT DEF ImportState
<1>4. s.refused = imp[r].refused
  BY <1>1, SMT DEF ImportState
<1>5. imp' = [imp EXCEPT ![r] = s]
  BY <1>1
<1> HIDE DEF s, s1
<1>6. Route(s, r)
  BY <1>1, <1>3, <1>4 DEF Route
<1> QED
  BY <1>1, <1>2, <1>3, <1>4, <1>5, <1>6, IdleFacts, FaultsCount, LateFacts, RunKeeps
     DEF LeftOwn, PutStages

LEMMA DecideKeeps ==
    ASSUME ImportInv, NEW r \in Importers, Decide(r) PROVE ImportInv' /\ RootsRespected
<1> DEFINE own == RootOf[r]
<1>1. /\ imp[r].pc = "decide" /\ ServiceIdle /\ ImportWorks /\ imp[r].seen \subseteq RootIds
      /\ Route(imp[r], r)
  BY RunFacts DEF Decide, ImportAt
<1>2. r \in Random
  BY <1>1, Constants DEF Route
<1>3. CASE ImportGoto(r, "conflict")
  BY <1>1, <1>3, IdleFacts, GotoKeeps DEF ImportStages, PutStages
<1>4. CASE /\ own \in Eligible(r)
           /\ imp' = [imp EXCEPT ![r].target = Lowest(Eligible(r)),
                        ![r].pc = IF Lowest(Eligible(r)) = own THEN "verify" ELSE "drop"]
  <2> DEFINE i == Lowest(Eligible(r))
  <2>1. Eligible(r) \in SUBSET RootIds /\ Eligible(r) # {}
    BY <1>1, <1>4 DEF Eligible
  <2>2. i \in Eligible(r) /\ i \in RootIds
    BY <2>1, LowestRoot
  <2> HIDE DEF i
  <2>3. imp' = [imp EXCEPT ![r].target = i, ![r].pc = IF i = own THEN "verify" ELSE "drop"]
    BY <1>4 DEF i
  <2>4. CASE i = own
    BY <1>1, <1>2, <2>2, <2>3, <2>4, ElectedKeeps
  <2>5. CASE i # own
    <3>1. i \in Verified(r)
      BY <2>2, <2>5 DEF Eligible
    <3>2. MayPut(r, i)
      BY <1>2, <3>1, VerifiedMayPut
    <3> QED
      BY <1>1, <1>2, <2>2, <2>3, <2>5, <3>2, ElectedKeeps
  <2> QED
    BY <2>4, <2>5
<1>5. CASE /\ own \notin imp[r].seen /\ Verified(r) # {}
           /\ imp' = [imp EXCEPT ![r].target = Lowest(Verified(r)), ![r].pc = "drop"]
  <2> DEFINE i == Lowest(Verified(r))
  <2>1. Verified(r) \in SUBSET RootIds
    BY <1>1 DEF Verified
  <2>2. i \in Verified(r) /\ i \in RootIds
    BY <1>5, <2>1, LowestRoot
  <2> HIDE DEF i
  <2>3. i # own /\ MayPut(r, i)
    BY <1>2, <1>5, <2>2, VerifiedMayPut DEF Verified
  <2>4. imp' = [imp EXCEPT ![r].target = i, ![r].pc = "drop"]
    BY <1>5 DEF i
  <2> QED
    BY <1>1, <1>2, <2>2, <2>3, <2>4, ElectedKeeps
<1>6. CASE ImportGoto(r, "cleanup")
  BY <1>1, <1>2, <1>6, IdleFacts, GotoKeeps DEF ImportStages, PutStages, Random
<1> QED
  BY <1>3, <1>4, <1>5, <1>6 DEF Decide

\* A random run deletes its own root and nothing else.
LEMMA OwnDeleted ==
    ASSUME ImportInv, NEW r \in Random, root' = AfterDelete(RootOf[r])
    PROVE  RootMoves /\ root'[RootOf[r]] = Absent
<1>1. root \in [RootIds -> Trees \cup {Absent}] /\ RootOf[r] \in RootIds
  BY Constants DEF ImportInv, ImportTypeOK
<1> QED
  BY <1>1 DEF RootMoves, AfterDelete

LEMMA DropOwnKeeps ==
    ASSUME ImportInv, NEW r \in Importers, DropOwn(r) PROVE ImportInv' /\ RootsRespected
<1>1. /\ imp[r].pc = "drop" /\ UNCHANGED <<listed, late>> /\ Route(imp[r], r) /\ LateAllowed(r)
      /\ MayPut(r, imp[r].target)
  BY RunFacts DEF DropOwn, ImportAt, LateAllowed, PutStages
<1>2. r \in Random /\ r \notin Convergent
  BY <1>1, Constants DEF Route
<1>3. imp[r].target # RootOf[r]
  BY <1>1, <1>2 DEF Route
<1>4. CASE root' = AfterDelete(RootOf[r]) /\ ImportGoto(r, "dropped") /\ ImportWorks
  BY <1>1, <1>2, <1>3, <1>4, OwnDeleted, GotoKeeps DEF ImportStages
<1>5. CASE UNCHANGED root /\ ImportGoto(r, "dropped") /\ ImportFault
  BY <1>1, <1>2, <1>3, <1>5, FaultsCount, GotoKeeps DEF ImportStages, RootMoves
<1>6. CASE UNCHANGED root /\ ImportGoto(r, "cleanup") /\ ImportFault
  BY <1>1, <1>2, <1>6, GotoKeeps DEF ImportStages, RootMoves, PutStages
<1> QED
  BY <1>4, <1>5, <1>6 DEF DropOwn

LEMMA DropCheckedKeeps ==
    ASSUME ImportInv, NEW r \in Importers, DropChecked(r) PROVE ImportInv' /\ RootsRespected
<1>1. /\ imp[r].pc = "dropped" /\ ServiceIdle /\ ImportWorks /\ Route(imp[r], r)
      /\ MayPut(r, imp[r].target)
  BY RunFacts DEF DropChecked, ImportAt, PutStages
<1>2. r \in Random /\ r \notin Convergent
  BY <1>1, Constants DEF Route
<1>3. imp[r].target # RootOf[r]
  BY <1>1, <1>2 DEF Route
<1>4. CASE ImportGoto(r, "update")
  <2>1. imp'[r].pc = "update"
    BY <1>4, GotoPc DEF ImportStages
  <2>2. importFaults' = 0 => root'[RootOf[r]] = Absent
    BY <1>1, <1>2, <2>1, IdleFacts, FaultsCount, StaysClean DEF LeftOwn
  <2> QED
    BY <1>1, <1>2, <1>3, <1>4, <2>2, IdleFacts, GotoKeeps DEF ImportStages
<1>5. CASE ImportGoto(r, "drop")
  BY <1>1, <1>2, <1>3, <1>5, IdleFacts, GotoKeeps DEF ImportStages
<1>6. CASE ImportGoto(r, "cleanup")
  BY <1>1, <1>2, <1>6, IdleFacts, GotoKeeps DEF ImportStages, PutStages
<1> QED
  BY <1>4, <1>5, <1>6 DEF DropChecked

LEMMA CleanupKeeps ==
    ASSUME ImportInv, NEW r \in Importers, Cleanup(r) PROVE ImportInv' /\ RootsRespected
<1>1. /\ imp[r].pc = "cleanup" /\ UNCHANGED <<listed, late>> /\ Route(imp[r], r) /\ LateAllowed(r)
      /\ ImportGoto(r, "failed")
  BY RunFacts DEF Cleanup, ImportAt, LateAllowed
<1>2. r \in Random /\ r \notin Convergent
  BY <1>1, Constants DEF Route
<1>3. CASE root' = AfterDelete(RootOf[r]) /\ ImportWorks
  BY <1>1, <1>2, <1>3, OwnDeleted, GotoKeeps DEF ImportStages, PutStages
<1>4. CASE UNCHANGED root /\ ImportFault
  BY <1>1, <1>2, <1>4, FaultsCount, GotoKeeps DEF ImportStages, RootMoves, PutStages
<1> QED
  BY <1>3, <1>4 DEF Cleanup

LEMMA FinalProofKeeps ==
    ASSUME ImportInv, NEW r \in Importers, FinalProof(r) PROVE ImportInv' /\ RootsRespected
<1>1. imp[r].pc = "verify" /\ ServiceIdle /\ (ImportWorks \/ ImportFault)
  BY DEF FinalProof, ImportAt
<1>2. CASE ImportGoto(r, "published")
  BY <1>1, <1>2, IdleFacts, GotoKeeps DEF ImportStages, PutStages
<1>3. CASE root[imp[r].target] # Revision[r] /\ ImportGoto(r, "failed") /\ ImportWorks
  <2>1. imp'[r].pc = "failed"
    BY <1>3, GotoPc DEF ImportStages
  <2>2. ASSUME r \in Random, importFaults' = 0 PROVE root'[RootOf[r]] = Absent
    <3>1. CASE imp[r].target = RootOf[r]
      BY <1>1, <1>3, <2>2, <3>1, RunFacts, IdleFacts
    <3>2. CASE imp[r].target # RootOf[r]
      BY <1>1, <2>1, <2>2, <3>2, IdleFacts, FaultsCount, StaysClean DEF LeftOwn
    <3> QED
      BY <3>1, <3>2
  <2> QED
    BY <1>1, <1>3, <2>2, IdleFacts, GotoKeeps DEF ImportStages, PutStages
<1>4. CASE ImportGoto(r, "failed") /\ ImportFault
  BY <1>1, <1>4, FaultsCount, IdleFacts, GotoKeeps DEF ImportStages, PutStages
<1> QED
  BY <1>2, <1>3, <1>4 DEF FinalProof

-----------------------------------------------------------------------------
(* The service, and the invariant                                          *)

\* Nothing of a run changes: the service moves a root, or shows or hides one.
LEMMA ServiceKeeps ==
    ASSUME ImportInv, RootMoves, listed' \subseteq RootIds, late' \subseteq late,
           UNCHANGED <<imp, importFaults>>
    PROVE  ImportInv' /\ RootsRespected
<1>1. ImportTypeOK
  BY DEF ImportInv
<1>2. ImportTypeOK'
  BY <1>1, RootPoint DEF ImportTypeOK, ImportState
<1>3. RoutesKept'
  BY DEF ImportInv, RoutesKept
<1>4. RandomRootPure'
  <2>1. \A p \in Random : root'[RootOf[p]] \in {Absent, Revision[p]}
    BY MovesRespect
  <2>2. ASSUME NEW p \in Random, imp[p].pc \in {"snapshot", "import"}
        PROVE  root'[RootOf[p]] = Absent
    BY <2>2, AbsentStays DEF ImportInv, RandomRootPure
  <2> QED
    BY <2>1, <2>2 DEF RandomRootPure
<1>5. PutsAllowed'
  <2>1. \A p \in Importers, i \in RootIds : MayPut(p, i) => MayPut(p, i)'
    BY MayPutStays
  <2>2. ASSUME NEW p \in Importers, imp[p].pc \in PutStages PROVE MayPut(p, imp[p].target)'
    BY <2>1, <2>2, RunFacts
  <2>3. ASSUME NEW w \in late'
        PROVE  imp[w.by].pc \notin {"snapshot", "import"} /\ (~w.create => MayPut(w.by, w.id)')
    <3>1. /\ w \in late /\ w.by \in Importers /\ w.id \in RootIds
          /\ imp[w.by].pc \notin {"snapshot", "import"}
      BY <1>1, <2>3 DEF ImportInv, ImportTypeOK, PutsAllowed
    <3>2. ~w.create => MayPut(w.by, w.id)
      BY <3>1 DEF ImportInv, PutsAllowed
    <3> QED
      BY <2>1, <3>1, <3>2
  <2> QED
    BY <2>2, <2>3 DEF PutsAllowed
<1>6. CleanWithoutFaults'
  <2> SUFFICES ASSUME importFaults = 0
               PROVE  late' = {} /\ \A p \in Random : LeftOwn(imp[p], p) => root'[RootOf[p]] = Absent
    BY DEF CleanWithoutFaults, LeftOwn
  <2>1. late' = {}
    BY DEF ImportInv, CleanWithoutFaults
  <2>2. ASSUME NEW p \in Random, LeftOwn(imp[p], p) PROVE root'[RootOf[p]] = Absent
    BY <2>2, StaysClean DEF LeftOwn
  <2> QED
    BY <2>1, <2>2
<1> QED
  BY <1>2, <1>3, <1>4, <1>5, <1>6, MovesRespect DEF ImportInv

LEMMA RelistKeeps ==
    ASSUME ImportInv, NEW i \in RootIds, Relist(i) PROVE ImportInv' /\ RootsRespected
<1>1. RootMoves /\ late' \subseteq late /\ UNCHANGED <<imp, importFaults>>
  BY DEF Relist, RootMoves
<1>2. listed' \subseteq RootIds
  BY DEF Relist, ImportInv, ImportTypeOK
<1> QED
  BY <1>1, <1>2, ServiceKeeps

LEMMA LateWriteKeeps ==
    ASSUME ImportInv, NEW w \in late, LateWrite(w) PROVE ImportInv' /\ RootsRespected
<1>1. w.by \in Importers /\ w.id \in RootIds /\ listed \subseteq RootIds
  BY DEF ImportInv, ImportTypeOK
<1>2. UNCHANGED <<listed, imp, importFaults>> /\ late' \subseteq late
  BY DEF LateWrite
<1>3. importFaults # 0
  BY DEF ImportInv, CleanWithoutFaults
<1>4. imp[w.by].pc \notin {"snapshot", "import"} /\ (~w.create => MayPut(w.by, w.id))
  BY DEF ImportInv, PutsAllowed
<1>5. CASE w.create
  BY <1>1, <1>2, <1>3, <1>4, <1>5, ServiceKeeps DEF LateWrite, RootMoves
<1>6. CASE ~w.create
  BY <1>1, <1>2, <1>4, <1>6, ServiceKeeps DEF LateWrite, RootMoves
<1> QED
  BY <1>5, <1>6

LEMMA ImportInitOK == ImportInit => ImportInv
<1> SUFFICES ASSUME ImportInit PROVE ImportInv
  OBVIOUS
<1> DEFINE fresh(r) == [pc |-> IF r \in Convergent THEN "import" ELSE "snapshot",
                        stale |-> {}, refused |-> FALSE, proven |-> FALSE, seen |-> {},
                        target |-> RootOf[r]]
<1>1. \A r \in Importers : fresh(r) \in ImportState
  BY Constants DEF ImportState, ImportStages
<1>2. imp = [r \in Importers |-> fresh(r)] /\ \A r \in Importers : imp[r] = fresh(r)
  BY DEF ImportInit
<1>3. ImportTypeOK
  BY <1>1, <1>2, ImportAssumption DEF ImportInit, ImportTypeOK, Present, Trees
<1>4. RoutesKept
  BY <1>2, Constants DEF RoutesKept, Route, Random
<1>5. RandomRootPure
  BY DEF ImportInit, RandomRootPure, Random
<1>6. PutsAllowed
  BY <1>2 DEF ImportInit, PutsAllowed, PutStages
<1>7. CleanWithoutFaults
  BY <1>2, Constants DEF ImportInit, CleanWithoutFaults, LeftOwn, Random
<1> QED
  BY <1>3, <1>4, <1>5, <1>6, <1>7 DEF ImportInv

LEMMA ImportStepKeeps ==
    ASSUME ImportInv, NEW r \in Importers, ImportStep(r) PROVE ImportInv' /\ RootsRespected
BY NameSnapshotKeeps, SubmitImportKeeps, RecoverRootKeeps, ReadEvidenceKeeps, DeepUpdateKeeps,
   AwaitReceiptKeeps, RecheckKeeps, ResolveRootKeeps, ObserveCopiesKeeps, DecideKeeps, DropOwnKeeps,
   DropCheckedKeeps, CleanupKeeps, FinalProofKeeps DEF ImportStep

LEMMA ImportNextKeeps == ASSUME ImportInv, [ImportNext]_importVars
                         PROVE  ImportInv' /\ (ImportNext => RootsRespected)
<1>1. CASE UNCHANGED importVars
  <2>1. RootMoves /\ listed' \subseteq RootIds /\ late' \subseteq late /\ UNCHANGED <<imp, importFaults>>
    BY <1>1 DEF importVars, RootMoves, ImportInv, ImportTypeOK
  <2> QED
    BY <2>1, ServiceKeeps
<1>2. CASE ImportNext
  BY <1>2, ImportStepKeeps, RelistKeeps, LateWriteKeeps DEF ImportNext
<1> QED
  BY <1>1, <1>2

LEMMA ImportInductive == ImportSpec => []ImportInv
<1>1. ImportInv /\ [ImportNext]_importVars => ImportInv'
  BY ImportNextKeeps
<1> QED
  BY <1>1, ImportInitOK, PTL DEF ImportSpec

\* importV2Collection, deepUpdateV2Collection and electImportedCollectionIdentity:
\* however many processes import one final name, whichever calls fail and however
\* late a lost write is executed, a root disappears only by the random run that
\* preallocated it, a stranger's collection is never written, and a tree without
\* a receipt only for a run whose create was refused.
THEOREM ImportsSafe == ImportSpec => ImportsAreSafe
<1>1. ImportInv /\ ImportInv' /\ [ImportNext]_importVars =>
        [ImportTypeOK' /\ OnlyOwnRootDeleted /\ ForeignUntouched /\ LegacyOnlyOnRefusal]_importVars
  BY ImportNextKeeps DEF ImportInv, RootsRespected
<1> QED
  BY <1>1, ImportInductive, PTL DEF ImportSpec, ImportsAreSafe

\* The finally-clean-up of importV2Collection: a random import that fails while
\* no call did has left no collection behind, wherever its peers are.
THEOREM FailedImportsLeaveNothing == ImportSpec => []FailureLeavesNothing
<1>1. ImportInv => FailureLeavesNothing
  BY DEF ImportInv, CleanWithoutFaults, LeftOwn, FailureLeavesNothing, Random
<1> QED
  BY <1>1, ImportInductive, PTL

=============================================================================
