--------------------------- MODULE AgentInference ---------------------------
(***************************************************************************)
(* One agent's model calls and model catalogue (inference-auth.ts,         *)
(* inference-stream.ts, inference-discovery.ts, agent-catalogs.ts, the     *)
(* cache and scheduler of imajin-provider.ts, self-authorize.ts) and the   *)
(* identity they all check after each await (agent-identities.ts).         *)
(*                                                                         *)
(* A token carries the consent it was minted under and a catalogue the     *)
(* consent of its token and the kernel's offer of the moment: what is      *)
(* shared (a mint, an attempt) may be older than what asks for it.         *)
(***************************************************************************)
EXTENDS Naturals

CONSTANTS
  Calls,        \* completions of the agent
  MaxConsents, MaxOffers, MaxTokens, MaxFaults,
  Nil

ASSUME InferenceAssumption ==
  MaxConsents \in Nat /\ MaxOffers \in Nat /\ MaxTokens \in Nat /\ MaxFaults \in Nat

VARIABLES
  ident,     \* the agent's identity: "none", "preparing", "ready", "absent", "gone"
  consent, offer,   \* the kernel's: accepted consents, changes of the usable models
  minted, revoked,  \* tokens minted so far; those up to `revoked' are refused
  epoch,     \* how often the token entry was dropped (forget, clear)
  cached,    \* epoch -> the entry's credential
  mint,      \* epoch -> the entry's mint in flight
  call,      \* call -> its attempt
  cache,     \* the catalogue: last good models, stale mark, outcome, attempt in flight
  asker,     \* a host that waits for the catalogue
  consenter, \* a self-authorization
  notice,    \* an invalidation notice is on its way
  faults

infVars == <<ident, consent, offer, minted, revoked, epoch, cached, mint, call, cache, asker,
             consenter, notice, faults>>

------------------------------------------------------------------------------
Epochs == 0..(MaxConsents + 1)
Token(n, c) == [n |-> n, consent |-> c]
NoMint == [step |-> "none", token |-> Nil]
NoAttempt == [step |-> "none", epoch |-> 0, token |-> Nil, got |-> Nil]
NoCall == [step |-> "none", epoch |-> 0, token |-> Nil, first |-> Nil]
NoModels == [consent |-> 0, offer |-> Nil]

InfInit ==
  /\ ident = "none" /\ consent = 0 /\ offer = 0 /\ minted = 0 /\ revoked = 0 /\ epoch = 0
  /\ cached = [e \in Epochs |-> Nil] /\ mint = [e \in Epochs |-> NoMint]
  /\ call = [c \in Calls |-> NoCall]
  /\ cache = [models |-> NoModels, fresh |-> FALSE, outcome |-> "never", flight |-> NoAttempt]
  /\ asker = "none" /\ consenter = [step |-> "none", models |-> Nil]
  /\ notice = FALSE /\ faults = 0

Ready == ident = "ready"

\* prepareIdentities: one run, shared by the start of the service and by the first
\* catalogue that is asked for.
Prepare ==
  /\ ident = "none" /\ ident' = "preparing"
  /\ UNCHANGED <<consent, offer, minted, revoked, epoch, cached, mint, call, cache, asker,
                 consenter, notice, faults>>

\* The signer is resolved or not; a run whose generation is over sets nothing.
PrepareLands ==
  /\ ident = "preparing" /\ ident' \in {"ready", "absent"}
  /\ UNCHANGED <<consent, offer, minted, revoked, epoch, cached, mint, call, cache, asker,
                 consenter, notice, faults>>

\* The registration's disposer: clearAuth, identities.clear.
Clears ==
  /\ ident' = "gone" /\ epoch' = epoch + 1
  /\ cache' = [cache EXCEPT !.models = NoModels, !.fresh = FALSE, !.outcome = "never"]
  /\ UNCHANGED <<consent, offer, minted, revoked, cached, mint, call, asker, consenter, notice, faults>>

------------------------------------------------------------------------------
(* credential(): the entry's token, or the mint in flight, or a new one.  A token *)
(* the caller saw refused is dropped first, if it is still the entry's.           *)

Kept(rejected) == IF rejected # Nil /\ cached[epoch] = rejected THEN Nil ELSE cached[epoch]
Credential(rejected) ==
  /\ cached' = [cached EXCEPT ![epoch] = Kept(rejected)]
  /\ mint' = IF Kept(rejected) = Nil /\ mint[epoch].step = "none"
             THEN [mint EXCEPT ![epoch].step = "asked"] ELSE mint
Answered(rejected) == [step |-> IF Kept(rejected) = Nil THEN "minting" ELSE "signed",
                       epoch |-> epoch, token |-> Kept(rejected)]

\* The kernel mints, for the consent it has.
KernelMints(e) ==
  /\ mint[e].step = "asked"
  /\ minted' = minted + 1
  /\ mint' = [mint EXCEPT ![e] = [step |-> "minted", token |-> Token(minted + 1, consent)]]
  /\ UNCHANGED <<ident, consent, offer, revoked, epoch, cached, call, cache, asker, consenter, notice, faults>>

\* The calls that wait for the mint of entry e go on with t, or fail.
Woken(e, t) ==
  [c \in Calls |-> IF call[c].step = "minting" /\ call[c].epoch = e
                   THEN [call[c] EXCEPT !.step = IF t = Nil THEN "failed" ELSE "signed", !.token = t]
                   ELSE call[c]]
AttemptWoken(e, t) ==
  IF cache.flight.step = "minting" /\ cache.flight.epoch = e
  THEN [cache EXCEPT !.flight.step = IF t = Nil THEN "failed" ELSE "signed", !.flight.token = t]
  ELSE cache

\* A minted token is kept by the entry it was minted for, if that is still the one.
Current(e) == Ready /\ epoch = e
MintLands(e) ==
  /\ mint[e].step = "minted"
  /\ LET t == IF Current(e) THEN mint[e].token ELSE Nil IN
     /\ cached' = IF t = Nil THEN cached ELSE [cached EXCEPT ![epoch] = t]
     /\ call' = Woken(e, t) /\ cache' = AttemptWoken(e, t)
  /\ mint' = [mint EXCEPT ![e] = NoMint]
  /\ UNCHANGED <<ident, consent, offer, minted, revoked, epoch, asker, consenter, notice, faults>>

MintFails(e) ==
  /\ mint[e].step # "none" /\ faults < MaxFaults /\ faults' = faults + 1
  /\ mint' = [mint EXCEPT ![e] = NoMint]
  /\ call' = Woken(e, Nil) /\ cache' = AttemptWoken(e, Nil)
  /\ UNCHANGED <<ident, consent, offer, minted, revoked, epoch, cached, asker, consenter, notice>>

\* The entry's token comes within a minute of its end.
TokenAges ==
  /\ cached[epoch] # Nil /\ minted < MaxTokens /\ cached' = [cached EXCEPT ![epoch] = Nil]
  /\ UNCHANGED <<ident, consent, offer, minted, revoked, epoch, mint, call, cache, asker, consenter, notice, faults>>

\* invalidate(): a refused token, if it is still the entry's.
Drop(t) == cached' = IF Ready /\ cached[epoch] = t THEN [cached EXCEPT ![epoch] = Nil] ELSE cached

------------------------------------------------------------------------------
(* A completion: the wrapped stream function. *)

Begin(c) ==
  /\ call[c].step = "none" /\ Ready
  /\ Credential(Nil)
  /\ call' = [call EXCEPT ![c] = [step |-> Answered(Nil).step, epoch |-> epoch,
                                 token |-> Answered(Nil).token, first |-> Nil]]
  /\ UNCHANGED <<ident, consent, offer, minted, revoked, epoch, cache, asker, consenter, notice, faults>>

\* The identity is looked at again before the request goes out; the caller may
\* have cancelled.
StillSignedUnchecked == TRUE
StillSigned == Ready
Send(c) ==
  /\ call[c].step = "signed"
  /\ \/ StillSigned /\ call' = [call EXCEPT ![c].step = "asking"]
     \/ call' = [call EXCEPT ![c].step = "failed"]
  /\ UNCHANGED <<ident, consent, offer, minted, revoked, epoch, cached, mint, cache, asker, consenter, notice, faults>>

\* The kernel refuses the token: it is dropped, and the call is tried once more if
\* nothing of it was shown and it is not cancelled.
CallRefused(c) ==
  /\ call[c].step = "asking" /\ call[c].token.n <= revoked
  /\ Drop(call[c].token)
  /\ call' = [call EXCEPT ![c].step = IF Ready /\ call[c].first = Nil THEN "refused" ELSE "failed"]
  /\ UNCHANGED <<ident, consent, offer, minted, revoked, epoch, mint, cache, asker, consenter, notice, faults>>

\* The stream ends, well or with an error of another kind.
CallEnds(c) ==
  /\ call[c].step = "asking"
  /\ call' = [call EXCEPT ![c].step = "done"]
  /\ UNCHANGED <<ident, consent, offer, minted, revoked, epoch, cached, mint, cache, asker, consenter, notice, faults>>

Retry(c) ==
  /\ call[c].step = "refused"
  /\ IF Ready
     THEN /\ Credential(call[c].token)
          /\ call' = [call EXCEPT ![c] = [step |-> Answered(call[c].token).step, epoch |-> epoch,
                       token |-> Answered(call[c].token).token, first |-> call[c].token]]
     ELSE call' = [call EXCEPT ![c].step = "failed"] /\ UNCHANGED <<cached, mint>>
  /\ UNCHANGED <<ident, consent, offer, minted, revoked, epoch, cache, asker, consenter, notice, faults>>

------------------------------------------------------------------------------
(* The catalogue. *)

\* refresh(): one attempt at a time, which others share.
Refresh(c) ==
  IF c.flight.step = "none"
  THEN /\ Credential(Nil)
       /\ cache' = [c EXCEPT !.flight = [step |-> Answered(Nil).step, epoch |-> epoch,
                                        token |-> Answered(Nil).token, got |-> Nil]]
  ELSE cache' = c /\ UNCHANGED <<cached, mint>>

\* The timer of startDiscovery comes round; the identity is there.
Discovers ==
  /\ Ready /\ Refresh(cache)
  /\ UNCHANGED <<ident, consent, offer, minted, revoked, epoch, call, asker, consenter, notice, faults>>

\* An attempt that is signed has sent its request: there is no await between.  The
\* kernel answers with what the token's consent and its offer allow.
KernelLists ==
  /\ cache.flight.step = "signed"
  /\ cache' = [cache EXCEPT
       !.flight.step = IF cache.flight.token.n <= revoked THEN "refused" ELSE "answered",
       !.flight.got = [consent |-> cache.flight.token.consent, offer |-> offer]]
  /\ UNCHANGED <<ident, consent, offer, minted, revoked, epoch, cached, mint, call, asker, consenter, notice, faults>>

\* The request, its body or its projection fails.
AttemptFails ==
  /\ cache.flight.step \in {"signed", "answered"} /\ faults < MaxFaults /\ faults' = faults + 1
  /\ cache' = [cache EXCEPT !.flight.step = "failed"]
  /\ UNCHANGED <<ident, consent, offer, minted, revoked, epoch, cached, mint, call, asker, consenter, notice>>

\* runAttempt's two ends: good models replace the last ones, a failure keeps them;
\* either makes the catalogue fresh and frees the slot.
LandedHeld(ok) ==
  [cache EXCEPT !.models = IF ok THEN cache.flight.got ELSE @, !.fresh = TRUE,
                !.outcome = IF ok THEN "ok" ELSE "error",
                !.flight = IF ok THEN NoAttempt ELSE @]
Landed(ok) ==
  [cache EXCEPT !.models = IF ok THEN cache.flight.got ELSE @, !.fresh = TRUE,
                !.outcome = IF ok THEN "ok" ELSE "error", !.flight = NoAttempt]

\* get() looks at the identity again.
Served == IF Ready THEN "served" ELSE "failed"
\* After its consent the tool reports what the attempt found, or says try again.
\* While it waits for an older attempt, it goes on to one of its own.
ConsentTold(ok) ==
  IF consenter.step = "awaiting" THEN [consenter EXCEPT !.step = "again"]
  ELSE IF consenter.step # "refreshing" THEN consenter
  ELSE IF ok /\ Ready THEN [consenter EXCEPT !.step = "authorized", !.models = cache.flight.got]
  ELSE [consenter EXCEPT !.step = "retry"]

\* An attempt that was answered may land, in a catalogue that nobody sees any more,
\* when the identity went after its last check.
AttemptLands ==
  /\ cache.flight.step \in {"answered", "refused", "failed"}
  /\ LET ok == cache.flight.step = "answered" IN
     /\ cache' = IF Ready THEN Landed(ok) ELSE [cache EXCEPT !.flight = NoAttempt]
     /\ asker' = IF asker = "waiting" THEN Served ELSE asker
     /\ consenter' = ConsentTold(ok)
  /\ IF cache.flight.step = "refused" THEN Drop(cache.flight.token) ELSE UNCHANGED cached
  /\ UNCHANGED <<ident, consent, offer, minted, revoked, epoch, mint, call, notice, faults>>

CacheAges ==
  /\ cache.fresh /\ cache' = [cache EXCEPT !.fresh = FALSE]
  /\ UNCHANGED <<ident, consent, offer, minted, revoked, epoch, cached, mint, call, asker, consenter, notice, faults>>

\* A host asks for the catalogue.
Ask ==
  /\ Ready /\ asker # "waiting"
  /\ IF cache.fresh THEN asker' = "served" /\ UNCHANGED <<cache, cached, mint>>
     ELSE asker' = "waiting" /\ Refresh(cache)
  /\ UNCHANGED <<ident, consent, offer, minted, revoked, epoch, call, consenter, notice, faults>>

\* The kernel's usable models change; its notice may be lost.
KernelOffers ==
  /\ offer < MaxOffers /\ offer' = offer + 1 /\ notice' \in {TRUE, notice}
  /\ UNCHANGED <<ident, consent, minted, revoked, epoch, cached, mint, call, cache, asker, consenter, faults>>

\* invalidate and refresh: an attempt in flight is shared, and makes it fresh.
NoticeArrives ==
  /\ notice /\ notice' = FALSE
  /\ IF Ready THEN Refresh([cache EXCEPT !.fresh = FALSE]) ELSE UNCHANGED <<cache, cached, mint>>
  /\ UNCHANGED <<ident, consent, offer, minted, revoked, epoch, call, asker, consenter, faults>>

KernelRevokes ==
  /\ revoked < minted /\ minted < MaxTokens /\ revoked' = minted
  /\ UNCHANGED <<ident, consent, offer, minted, epoch, cached, mint, call, cache, asker, consenter, notice, faults>>

------------------------------------------------------------------------------
(* A self-authorization (createSelfAuthorizer, refreshAfterAuthorization). *)

\* The tool is called, and asks the kernel for the registration.
Seeks ==
  /\ consenter.step \in {"none", "authorized", "retry", "failed"} /\ Ready /\ consent < MaxConsents
  /\ consenter' = [step |-> "seeking", models |-> Nil]
  /\ UNCHANGED <<ident, consent, offer, minted, revoked, epoch, cached, mint, call, cache, asker, notice, faults>>

\* The registration was found and the identity is still there: the POST begins, which
\* waits for the client's session first.
ConsentGoes ==
  /\ consenter.step = "seeking" /\ Ready
  /\ consenter' = [consenter EXCEPT !.step = "posting"]
  /\ UNCHANGED <<ident, consent, offer, minted, revoked, epoch, cached, mint, call, cache, asker, notice, faults>>

\* The kernel takes it, the identity gone meanwhile or not.
KernelConsents ==
  /\ consenter.step = "posting" /\ consent' = consent + 1
  /\ consenter' = [consenter EXCEPT !.step = "posted"]
  /\ UNCHANGED <<ident, offer, minted, revoked, epoch, cached, mint, call, cache, asker, notice, faults>>

\* A request fails, or the registration is missing, or the identity went: the tool
\* throws.  A consent whose reply was lost stands, and nothing is forgotten for it.
AuthorizationFails ==
  /\ consenter.step \in {"seeking", "posting", "posted"}
  /\ consenter' = [consenter EXCEPT !.step = "failed"]
  /\ UNCHANGED <<ident, consent, offer, minted, revoked, epoch, cached, mint, call, cache, asker, notice, faults>>

\* The reply: the agent's token entry is forgotten, a mint in flight with it.
Forgets == epoch' = epoch + 1
ConsentLands ==
  /\ consenter.step = "posted"
  /\ Ready /\ Forgets /\ consenter' = [consenter EXCEPT !.step = "forgot"]
  /\ UNCHANGED <<ident, consent, offer, minted, revoked, cached, mint, call, cache, asker, notice, faults>>

\* forAgent was awaited.  An attempt in flight is waited for: it may be older than
\* the consent.
OlderShared == FALSE
OlderAwaited == cache.flight.step # "none"
ConsentRefreshes ==
  /\ consenter.step \in {"forgot", "again"}
  /\ IF ~Ready
     THEN consenter' = [consenter EXCEPT !.step = "retry"] /\ UNCHANGED <<cache, cached, mint>>
     ELSE IF consenter.step = "forgot" /\ OlderAwaited
     THEN consenter' = [consenter EXCEPT !.step = "awaiting"] /\ UNCHANGED <<cache, cached, mint>>
     ELSE /\ consenter' = [consenter EXCEPT !.step = "refreshing"]
          /\ Refresh([cache EXCEPT !.fresh = FALSE])
  /\ UNCHANGED <<ident, consent, offer, minted, revoked, epoch, call, asker, notice, faults>>

------------------------------------------------------------------------------
Mints == \E e \in Epochs : KernelMints(e) \/ MintLands(e) \/ MintFails(e)
Completes == \E c \in Calls : Begin(c) \/ Send(c) \/ CallRefused(c) \/ CallEnds(c) \/ Retry(c)
Answers == KernelLists \/ AttemptFails \/ AttemptLands
Asks == CacheAges \/ Ask
Offers == KernelOffers \/ NoticeArrives
Authorizes == \/ Seeks \/ ConsentGoes \/ KernelConsents \/ AuthorizationFails
              \/ ConsentLands \/ ConsentRefreshes

------------------------------------------------------------------------------
(* Properties. *)

\* The models a self-authorization reports were read under the consent it has just
\* given, whatever mint or attempt was in flight when it came.
\* (forget, invalidateAndRefresh)
ConsentIsFresh ==
  consenter.step = "authorized" => consenter.models.consent = consent

\* Once the identity is gone no completion, no request for models and no consent begins
\* in its name, no token is kept, and nothing that was awaited is served or reported as
\* found.  (the checks after awaits; what had begun before may still be taken)
NothingAfterGone ==
  [][ident = "gone" =>
       /\ \A c \in Calls : call'[c].step = "asking" => call[c].step = "asking"
       /\ cache'.flight.step = "signed" => cache.flight.step = "signed"
       /\ consenter'.step = "posting" => consenter.step = "posting"
       /\ \A e \in Epochs : cached'[e] # Nil => cached[e] # Nil
       /\ asker' = "served" => asker = "served"
       /\ consenter'.step = "authorized" => consenter.step = "authorized"]_infVars
=============================================================================
