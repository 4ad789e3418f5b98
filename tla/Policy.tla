------------------------------- MODULE Policy -------------------------------
(***************************************************************************)
(* Who may do what: the claims a verifier asks for, the scopes of every    *)
(* operation, and the merchants that are delegated to a service.  Two      *)
(* surfaces have a verifier each: the public HTTP API and the internal     *)
(* gRPC API.                                                               *)
(***************************************************************************)
EXTENDS Clock

CONSTANTS
  Tokens,      \* the tokens that callers present
  Merchants,   \* the merchants they name, "" for none
  Delegations  \* the merchants of each service: CASHFLOW_SERVICE_TENANT_DELEGATIONS

\* The type, algorithm and size of the token are allowed and it decodes.
Readable(token) == token.readable

\* The key is a strong enough RSA key, and the signature is of that key.
Signed(token) == token.signed

\* What identityFromPayload asks of a signed payload.  A merchant is what tells the two
\* surfaces apart: MerchantRequired and MerchantForbidden.
Identified(surface, token, t) ==
  /\ Signed(token) /\ token.issued
  /\ surface \in token.audience
  /\ token.subject # ""
  /\ t <= token.exp + Leeway
  /\ t + Leeway >= token.nbf
  /\ (token.merchant # "") <=> (surface = "public")

PublicEdgePolicy ==
  { [operation |-> "CreateEntry",        scopes |-> {"ledger:write"}],
    [operation |-> "CreateReversal",     scopes |-> {"ledger:write"}],
    [operation |-> "GetEntry",           scopes |-> {"ledger:read"}],
    [operation |-> "ListEntries",        scopes |-> {"ledger:read"}],
    [operation |-> "GetDailyBalances",   scopes |-> {"consolidation:read"}] }

InternalGRPCPolicy ==
  { [operation |-> "GetMerchantWatermark", scopes |-> {"ledger:internal:read"}],
    [operation |-> "StreamEntriesAtCut",   scopes |-> {"ledger:internal:read", "ops:reconcile"}] }

PolicyOf(surface) == IF surface = "public" THEN PublicEdgePolicy ELSE InternalGRPCPolicy

\* Scopes are compared whole, never by prefix.
HasAll(token, scopes) == scopes \subseteq token.scopes

\* An operation that is not declared is refused, and so is one whose scopes are not all granted.
Authorized(surface, operation, token) ==
  \E rule \in PolicyOf(surface) : rule.operation = operation /\ HasAll(token, rule.scopes)

\* The service is the client of the token, or its subject if it names none.
Delegated(token, merchant) ==
  LET service == IF token.client # "" THEN token.client ELSE token.subject
  IN  merchant # "" /\ service \in DOMAIN Delegations /\ merchant \in Delegations[service]

\* An internal call names its merchant; on the public surface it is the token's own.
MayCall(surface, operation, merchant, token) ==
  /\ Authorized(surface, operation, token)
  /\ surface = "internal" => Delegated(token, merchant)
=============================================================================
