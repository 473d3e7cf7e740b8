---------------------------- MODULE TokenProvider ----------------------------
(***************************************************************************)
(* AccessTokenProvider (token-provider.ts) under concurrent gateway calls. *)
(* A call that is answered 401 asks for a fresh token and is sent again    *)
(* once.  All callers of one process share the provider: the single        *)
(* in-flight mint, the validated key, and the token.                       *)
(*                                                                         *)
(* A mint belongs to the caller that started it.  Its settling, the        *)
(* "finally" that clears inflight and the resumption of its waiters are    *)
(* microtasks of one turn of the event loop, hence one step.               *)
(***************************************************************************)
EXTENDS Integers, FiniteSets

CONSTANTS
    Callers,       \* concurrent gateway calls of one process
    NoCaller,
    MintAttempts,  \* maxAttempts of a provider
    MaxTokens      \* bound on minted tokens

ASSUME TokenAssumption ==
    /\ IsFiniteSet(Callers) /\ NoCaller \notin Callers
    /\ MintAttempts \in Nat \ {0} /\ MaxTokens \in Nat

Tokens == 0..MaxTokens      \* 0 is the token that the process was started with

VARIABLES
    token,      \* the live token of the provider
    accepted,   \* the tokens that the service accepts
    validated,  \* preflightIdentity
    inflight,   \* the mint that refresh() hands out
    mint,       \* [Callers -> MintState]: the mint that each caller started
    caller      \* [Callers -> CallerState]

tokenVars == <<token, accepted, validated, inflight, mint, caller>>

MintState == [pc : {"none", "preflight", "post", "diagnose"}, tries : 1..MintAttempts]
CallerState ==
    [pc : {"idle", "sent", "refused", "waiting", "resent", "ok", "error"},
     with : Tokens,
     on : Callers \cup {NoCaller}]

TokenTypeOK ==
    /\ token \in Tokens
    /\ accepted \subseteq Tokens
    /\ validated \in BOOLEAN
    /\ inflight \in Callers \cup {NoCaller}
    /\ mint \in [Callers -> MintState]
    /\ caller \in [Callers -> CallerState]

NoMint == [pc |-> "none", tries |-> 1]

TokenInit ==
    /\ token = 0
    /\ accepted = {0}
    /\ validated = FALSE
    /\ inflight = NoCaller
    /\ mint = [c \in Callers |-> NoMint]
    /\ caller = [c \in Callers |-> [pc |-> "idle", with |-> 0, on |-> NoCaller]]

-----------------------------------------------------------------------------
ProviderIdle == UNCHANGED <<token, validated, inflight, mint>>

\* The service stops accepting a token.
Expire ==
    /\ \E t \in accepted : accepted' = accepted \ {t}
    /\ ProviderIdle /\ UNCHANGED caller

\* The gateway client sends current(); one 401 leads to one refresh and resend.
Send(c) ==
    /\ caller[c].pc = "idle"
    /\ caller' = [caller EXCEPT ![c].pc = "sent", ![c].with = token]
    /\ ProviderIdle /\ UNCHANGED accepted

Answer(c) ==
    /\ caller[c].pc \in {"sent", "resent"}
    /\ caller' = [caller EXCEPT ![c].pc =
          IF caller[c].with \in accepted THEN "ok"
          ELSE IF caller[c].pc = "sent" THEN "refused" ELSE "error"]
    /\ ProviderIdle /\ UNCHANGED accepted

\* refresh(): join the running mint or start one.
Refresh(c) ==
    /\ caller[c].pc = "refused"
    /\ LET flight == IF inflight = NoCaller THEN c ELSE inflight IN
       /\ caller' = [caller EXCEPT ![c].pc = "waiting", ![c].on = flight]
       /\ inflight' = flight
       /\ mint' = IF inflight = NoCaller
                  THEN [mint EXCEPT ![c] = [pc |-> "preflight", tries |-> 1]] ELSE mint
    /\ UNCHANGED <<token, accepted, validated>>

\* The promise settles: finally clears it and every waiter resumes.
Settle(c, outcome, fresh) ==
    /\ mint' = [mint EXCEPT ![c] = NoMint]
    /\ inflight' = NoCaller
    /\ caller' = [d \in Callers |->
          IF caller[d].pc = "waiting" /\ caller[d].on = c
          THEN [pc |-> outcome, with |-> fresh, on |-> NoCaller] ELSE caller[d]]

MintFails(c) == Settle(c, "error", 0) /\ UNCHANGED <<token, accepted, validated>>

\* A transient error is retried while attempts are left.
MintRetries(c) ==
    /\ IF mint[c].tries < MintAttempts
       THEN /\ mint' = [mint EXCEPT ![c].tries = @ + 1]
            /\ UNCHANGED <<inflight, caller>>
       ELSE Settle(c, "error", 0)
    /\ UNCHANGED <<token, accepted, validated>>

\* preflightMintCredential: GET /me, skipped once the key was validated.
Preflight(c) ==
    /\ mint[c].pc = "preflight"
    /\ \/ /\ mint' = [mint EXCEPT ![c] = [pc |-> "post", tries |-> 1]]
          /\ validated' = TRUE
          /\ UNCHANGED <<token, accepted, inflight, caller>>
       \/ ~validated /\ (MintFails(c) \/ MintRetries(c))

\* Mutant: the waiters get the token that the provider held before.
MintOnceLate(c) ==
    /\ mint[c].pc = "post"
    /\ token < MaxTokens
    /\ token' = token + 1
    /\ accepted' = accepted \cup {token + 1}
    /\ Settle(c, "resent", token)
    /\ UNCHANGED validated
\* mintOnce: 400, 401 and 403 are permanent, the rest and a missing token are not;
\* a rejected key is diagnosed before the error is thrown.
MintOnce(c) ==
    /\ mint[c].pc = "post"
    /\ \/ /\ token < MaxTokens
          /\ token' = token + 1
          /\ accepted' = accepted \cup {token + 1}
          /\ Settle(c, "resent", token + 1)
          /\ UNCHANGED validated
       \/ MintFails(c)
       \/ MintRetries(c)
       \/ /\ mint' = [mint EXCEPT ![c].pc = "diagnose"]
          /\ UNCHANGED <<token, accepted, validated, inflight, caller>>

\* inspectPmakIdentity after a 401 or 403, whose result only words the error.
Diagnose(c) == mint[c].pc = "diagnose" /\ MintFails(c)

TokenStep(c) ==
    \/ Send(c) \/ Answer(c) \/ Refresh(c) \/ Preflight(c) \/ MintOnce(c) \/ Diagnose(c)
TokenNext == Expire \/ \E c \in Callers : TokenStep(c)

TokenSpec == TokenInit /\ [][TokenNext]_tokenVars

-----------------------------------------------------------------------------
(* Properties *)

\* A burst of 401 answers mints once: two mints of one process never overlap.
OneMintAtATime ==
    \A c, d \in Callers : mint[c].pc # "none" /\ mint[d].pc # "none" => c = d

\* A refused call never gets the outcome of a mint that was over when it asked:
\* neither an old failure nor the token it was just refused with.
WaitsForRunningMint ==
    \A c \in Callers : caller[c].pc = "waiting" => mint[caller[c].on].pc # "none"

\* The second attempt carries a token that this process has not tried before.
ResendsFreshToken ==
    \A c \in Callers : caller[c].pc = "waiting" /\ caller'[c].pc = "resent"
        => caller'[c].with > caller[c].with

\* No interleaving of the callers and their mints breaks any of it.
TokensAreSafe ==
    [][TokenTypeOK' /\ OneMintAtATime' /\ WaitsForRunningMint' /\ ResendsFreshToken]_tokenVars
=============================================================================
