----------------------------- MODULE Entitlement ------------------------------
(***************************************************************************)
(* How a subscription opens the connector (apps/sync-server/src/            *)
(* entitlement.ts, apps/connector-server/src/entitlement.ts and the gate of *)
(* create-server.ts).                                                       *)
(*                                                                         *)
(* The sync server attests, without naming the account, that the bearer     *)
(* subscribes.  The attestation expires within an hour and carries a nonce  *)
(* that is the same for one subscriber all day.  The connector binds the    *)
(* nonce to the first of its accounts that presents it and lets that        *)
(* account in for a grace window.  Requests of several accounts interleave  *)
(* between the binding and the stamp, and either write may fail.            *)
(***************************************************************************)
EXTENDS Billing

CONSTANTS
    Accounts,     \* the connector's accounts
    TokenLife,    \* ENTITLEMENT_TTL_SEC
    NonceWindow,  \* ENTITLEMENT_NONCE_WINDOW_SEC and _MS
    Grace,        \* ENTITLEMENT_GRACE_MS
    MaxTokens,    \* bound: attestations kept at a time
    MaxInFlight   \* bound: requests at the gate and webhook handlers at a time

NoAccount == "no account"

ASSUME EntitlementAssumption ==
    /\ NoAccount \notin Accounts
    /\ {TokenLife, NonceWindow, Grace} \subseteq Nat \ {0}
    /\ {MaxTokens, MaxInFlight} \subseteq Nat

Windows == 0..(MaxClock \div NonceWindow)
Token == [window: Windows, exp: Nat]
Binding == [account: Accounts \cup {NoAccount}, expires: Nat]
Unbound == [account |-> NoAccount, expires |-> 0]
Request == [account: Accounts, window: Windows, exp: Nat, stage: {"bind", "stamp"}]

VARIABLES
    tokens,   \* attestations the clients keep
    nonces,   \* nonces[w]: entitlement_nonces, by the window of the nonce
    gate,     \* requests inside stampEntitlement
    until,    \* until[a]: connector_accounts.entitled_until
    stamped   \* stamped[w]: the accounts the nonce of window w has let in

connectorVars == <<tokens, nonces, gate, until, stamped>>
entitlementVars == <<billingVars, connectorVars>>

EntitlementInit ==
    /\ BillingInit
    /\ tokens = {}
    /\ nonces = [w \in Windows |-> Unbound]
    /\ gate = {}
    /\ until = [a \in Accounts |-> 0]
    /\ stamped = [w \in Windows |-> {}]

-----------------------------------------------------------------------------
(* The sync server *)

\* signEntitlement: only an active subscription yields a token the connector
\* accepts; the nonce is entitlementNonce of the window now is in.
Mint ==
    /\ SubscriptionActive
    /\ Cardinality(tokens) < MaxTokens
    /\ tokens' = tokens \cup {[window |-> clock \div NonceWindow, exp |-> clock + TokenLife]}
    /\ UNCHANGED <<billingVars, nonces, gate, until, stamped>>

-----------------------------------------------------------------------------
(* The connector: stampEntitlement *)

\* Mutant of Valid: the expiry is not checked.
AnyToken(t) == TRUE

\* verifyEntitlement
Valid(t) == t.exp > clock

\* Any account may present any attestation; a nonce-table request is minutes
\* at most, and none spans a tick.
Present(a, t) ==
    /\ t \in tokens
    /\ Valid(t)
    /\ Cardinality(gate) + Cardinality(handlers) < MaxInFlight
    /\ gate' = gate \cup {[account |-> a, window |-> t.window, exp |-> t.exp, stage |-> "bind"]}
    /\ UNCHANGED <<billingVars, tokens, nonces, until, stamped>>

\* Mutant of BoundUntil: the binding ends with the attestation.
BoundUntilExpiry(r) == r.exp

\* A bound nonce outlives its attestation by a whole window.
BoundUntil(r) == r.exp + NonceWindow

\* bindEntitlementNonce, one statement: insert, extend one's own binding, or
\* take over an expired one; another account's live binding refuses.  (Only
\* NeonStorage extends a live binding of one's own; InMemoryStorage leaves it.)
Bind(r) ==
    /\ r.stage = "bind"
    /\ LET held == nonces[r.window]
           free == held.account = NoAccount \/ held.expires <= clock
       IN IF free \/ held.account = r.account
          THEN /\ nonces' = [nonces EXCEPT ![r.window] =
                     [account |-> r.account, expires |-> Later(BoundUntil(r), held.expires)]]
               /\ gate' = (gate \ {r}) \cup {[r EXCEPT !.stage = "stamp"]}
          ELSE gate' = gate \ {r} /\ UNCHANGED nonces
    /\ UNCHANGED <<billingVars, tokens, until, stamped>>

\* setEntitledUntil: only ever advances.
Stamp(r) ==
    /\ r.stage = "stamp"
    /\ until' = [until EXCEPT ![r.account] = Later(@, clock + Grace)]
    /\ stamped' = [stamped EXCEPT ![r.window] = @ \cup {r.account}]
    /\ gate' = gate \ {r}
    /\ UNCHANGED <<billingVars, tokens, nonces>>

\* A fault of the nonce table or the death of the process: the request falls
\* through to the grace the account already has.
GateFails(r) ==
    /\ r \in gate
    /\ gate' = gate \ {r}
    /\ UNCHANGED <<billingVars, tokens, nonces, until, stamped>>

\* isEntitled
Entitled(a) == until[a] > clock

-----------------------------------------------------------------------------

\* A client may keep an old attestation or forget it.
EntitlementTick ==
    /\ gate = {}
    /\ Tick
    /\ tokens' \in SUBSET tokens
    /\ UNCHANGED <<nonces, gate, until, stamped>>

EntitlementNext ==
    \/ EntitlementTick \/ Mint
    \/ \E a \in Accounts, t \in tokens : Present(a, t)
    \/ \E r \in gate : Bind(r) \/ Stamp(r) \/ GateFails(r)
    \/ /\ \/ \E s \in Subs : Checkout(s) \/ Stripe(s)
          \/ /\ Cardinality(gate) + Cardinality(handlers) < MaxInFlight
             /\ \E e \in events : Deliver(e)
          \/ \E h \in handlers : Webhook(h)
       /\ UNCHANGED connectorVars

EntitlementSpec == EntitlementInit /\ [][EntitlementNext]_entitlementVars

-----------------------------------------------------------------------------
(* Properties *)

EntitlementTypeOK ==
    /\ BillingTypeOK
    /\ tokens \subseteq Token
    /\ nonces \in [Windows -> Binding]
    /\ gate \subseteq Request
    /\ until \in [Accounts -> Nat]
    /\ stamped \in [Windows -> SUBSET Accounts]

\* One subscriber lets one account in per window, whoever presents its
\* attestations, in whatever order, and however often the nonce table forgets
\* expired bindings ("an attestation entitles only the first account
\* presenting it"; "so a window yields one account").
OneAccountPerWindow == \A w \in Windows : Cardinality(stamped[w]) <= 1

\* An account is let in at most until a grace window past the last tick in
\* which an attestation of the last paid tick is valid, through every stale
\* row, late webhook and kept token.
GraceIsBounded ==
    \A a \in Accounts :
        until[a] > 0 => until[a] <= (paidUntil - 1) + (TokenLife - 1) + Grace

\* The gate's tables stay sound: typed, with every grace window bounded.
EntitlementInv == EntitlementTypeOK /\ GraceIsBounded
=============================================================================
