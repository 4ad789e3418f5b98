----------------------------- MODULE MCPlatform -----------------------------
(***************************************************************************)
(* What the services run on: the tokens of internal calls, their admission *)
(* at the ledger API, the life of a process, the schema migrations and the *)
(* broker's cutover.  None shares state with another: a behaviour plays    *)
(* one of them, its scene.                                                 *)
(***************************************************************************)
EXTENDS Client, Admission, Process, Migrations, Topology

VARIABLE scene

vars == <<scene, now, clientVars, admissionVars, processVars, migrationVars, topologyVars>>

\* Today's release, the one before, and builds with the first or the second migration edited.
MCReleases ==
  { [count |-> 2, edited |-> 0], [count |-> 3, edited |-> 0],
    [count |-> 3, edited |-> 1], [count |-> 3, edited |-> 2] }

\* Of a merchant, of the reconciliation worker, of a service without its scope; an old one, a
\* broken one, one with another signature and one of another issuer.
MCTokens ==
  LET merchant == [readable |-> TRUE, kid |-> None, signed |-> TRUE, issued |-> TRUE,
                   audience |-> {"public"}, subject |-> "owner", client |-> "app", merchant |-> "m1", exp |-> ServerHorizon, nbf |-> 0,
                   scopes |-> {"ledger:read", "ledger:write"}]
      worker == [merchant EXCEPT !.audience = {"internal"}, !.subject = "worker", !.client = "", !.merchant = "",
                                 !.scopes = {"ledger:internal:read", "ops:reconcile"}]
  IN  { [token EXCEPT !.kid = k] : k \in Keys, token \in
          { merchant, worker, [worker EXCEPT !.scopes = {"ledger:internal:read"}],
            [merchant EXCEPT !.exp = 1], [worker EXCEPT !.readable = FALSE],
            [worker EXCEPT !.signed = FALSE], [merchant EXCEPT !.issued = FALSE] } }

MCDelegations == [service \in {"worker"} |-> {"m1"}]

Init ==
  /\ scene \in {"client", "admission", "process", "migrate", "topology"}
  /\ now = 0
  /\ ClientInit /\ AdmissionInit /\ ProcessInit /\ MigrationsInit /\ TopologyInit
  /\ scene # "admission" => surface = "public"
  /\ scene # "process" => kind = "consumer"
  /\ scene # "migrate" => database = "ledger" /\ ~tracker
  /\ scene # "topology" => routed = {}

Next ==
  \/ /\ scene = "client" /\ ClientNext
     /\ UNCHANGED <<scene, admissionVars, processVars, migrationVars, topologyVars>>
  \/ /\ scene = "admission" /\ AdmissionNext
     /\ UNCHANGED <<scene, clientVars, processVars, migrationVars, topologyVars>>
  \/ /\ scene = "process" /\ ProcessNext
     /\ UNCHANGED <<scene, now, clientVars, admissionVars, migrationVars, topologyVars>>
  \/ /\ scene = "migrate" /\ MigrationsNext
     /\ UNCHANGED <<scene, now, clientVars, admissionVars, processVars, topologyVars>>
  \/ /\ scene = "topology" /\ TopologyNext
     /\ UNCHANGED <<scene, now, clientVars, admissionVars, processVars, migrationVars>>

Spec == Init /\ [][Next]_vars

\* Nobody waits for a refresh or a token request that is over: whoever ends one, by success,
\* failure or the end of its own deadline, wakes up every call that waits for it, those that
\* began to wait just before included.
NoLostWakeup ==
  \A c \in Calls :
    /\ look[c].pc = "wait" => refresh # None
    /\ take[c].pc = "wait" => asking # None
=============================================================================
