--------------------------- MODULE AttestedRequest ---------------------------
(***************************************************************************)
(* What the request path promises a client, without registry, route table, *)
(* upstream or streaming.  A request that is refused in the clear has      *)
(* reached no upstream and never will, so that the client can handshake    *)
(* and retry; a request that is forwarded uses up its ticket, the session  *)
(* and nonce it came with; and it ends with a sealed answer, with a stream *)
(* cut before its end marker, or lost with the client or the process.      *)
(***************************************************************************)
CONSTANTS Requests, Tickets

VARIABLES
  phase,  \* [Requests -> {"new", "refused", "forwarded", "answered", "cut", "lost"}]
  used    \* the tickets that requests were forwarded with

contractVars == << phase, used >>

ContractInit ==
  /\ phase = [r \in Requests |-> "new"]
  /\ used = {}

Becomes(r, before, after) ==
  /\ phase[r] \in before
  /\ phase' = [phase EXCEPT ![r] = after]

Forward(r) ==
  /\ Becomes(r, {"new"}, "forwarded")
  /\ \E t \in Tickets \ used : used' = used \cup {t}

Refuse(r) == Becomes(r, {"new"}, "refused") /\ UNCHANGED used

End(r) ==
  /\ \/ Becomes(r, {"new", "forwarded"}, "answered")
     \/ Becomes(r, {"forwarded"}, "cut")
  /\ UNCHANGED used

\* A client goes away, or the proxy does.
Lose(requests) ==
  /\ \A r \in requests : phase[r] \in {"new", "forwarded"}
  /\ phase' = [r \in Requests |-> IF r \in requests THEN "lost" ELSE phase[r]]
  /\ UNCHANGED used

ContractNext ==
  \/ \E r \in Requests : Forward(r) \/ Refuse(r) \/ End(r)
  \/ \E requests \in SUBSET Requests : Lose(requests)

Contract == ContractInit /\ [][ContractNext]_contractVars
=============================================================================
