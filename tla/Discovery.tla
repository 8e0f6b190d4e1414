------------------------------ MODULE Discovery ------------------------------
(***************************************************************************)
(* DiscoveryClient, its cache of Agent Cards, and AgentCardResolver, which *)
(* picks an interface of the card that Fetch returned.  Around it, servers *)
(* publish other cards, the keys the verifier trusts change and time       *)
(* passes, also while a request is under way.  The client has no lock and  *)
(* is used by one thread.                                                  *)
(*                                                                         *)
(* A card is what the checks look at: whether its JSON parses, the key     *)
(* that signed it, its interfaces, the security schemes it requires and    *)
(* those it declares.                                                      *)
(***************************************************************************)
EXTENDS Integers, SequencesExt

CONSTANTS Hosts,
          Cards,      \* documents a server may publish
          Keys,       \* keys of the verifier
          Ttl,        \* cache_ttl_
          MaxTime,    \* bound on the clock
          MaxChanges  \* bound on changes of servers and policy

Bindings == {"HTTP+JSON", "JSONRPC", "GRPC"}
Kinds == {"public", "extended"}
None == "none"
NoInterface == [transport |-> None, endpoint |-> None, requirements |-> {}, schemes |-> {}]
Responses == {[ok |-> TRUE, card |-> c] : c \in Cards} \cup {[ok |-> FALSE, card |-> CHOOSE c \in Cards : TRUE]}
Resting == [pc |-> "idle", host |-> None, kind |-> "public", now |-> 0, response |-> <<>>]

DiscoveryAssumption == Ttl \in Nat /\ MaxTime \in Nat /\ MaxChanges \in Nat

VARIABLES served,     \* what each URL answers: a card with a 2xx status, or another status
          trusted,    \* the keys the verifier accepts
          verifying,  \* verifier_ is set
          cache,      \* cache_: entries of hosts
          call,       \* the Fetch or FetchExtendedAgentCard in progress
          result,     \* what the last one returned
          clock, changes

vars == <<served, trusted, verifying, cache, call, result, clock, changes>>
world == <<served, trusted, clock, changes>>

Init ==
    /\ served \in [Hosts \X Kinds -> Responses]
    /\ trusted = Keys
    /\ verifying \in BOOLEAN
    /\ cache = {}
    /\ call = Resting
    /\ result = [kind |-> None]
    /\ clock = 0
    /\ changes = 0

-----------------------------------------------------------------------------
(* Cards *)

IsValidInterfaceEndpoint(i) ==
    \/ i.binding \in {"HTTP+JSON", "JSONRPC"} /\ i.endpoint = "http"
    \/ i.binding = "GRPC" /\ i.endpoint \in {"http", "grpc", "host:port"}

ValidateAgentCard(card) ==
    /\ card.interfaces # <<>>
    /\ \A i \in ToSet(card.interfaces) :
         i.binding # None /\ i.version = "1.0" /\ i.endpoint # None /\ IsValidInterfaceEndpoint(i)
    /\ card.requirements \subseteq card.schemes

Verifies(card) == ~verifying \/ card.key \in trusted

VerifyAndParseAgentCard(card) == Verifies(card) /\ card.parses /\ ValidateAgentCard(card)

BuildTransportOrder(preferred) ==
    CASE preferred = "HTTP+JSON" -> <<"HTTP+JSON", "JSONRPC", "GRPC">>
      [] preferred = "JSONRPC" -> <<"JSONRPC", "HTTP+JSON", "GRPC">>
      [] OTHER -> <<"GRPC", "HTTP+JSON", "JSONRPC">>

(* The first usable interface of the first transport, in the order of      *)
(* preference, that has one; with what the card says of its security.      *)
SelectPreferredInterface(card, preferred) ==
    LET Usable(b) == SelectSeq(card.interfaces,
                               LAMBDA i : i.binding = b /\ i.endpoint # None /\ IsValidInterfaceEndpoint(i))
        order == SelectSeq(BuildTransportOrder(preferred), LAMBDA b : Usable(b) # <<>>)
    IN  IF order = <<>> THEN NoInterface
        ELSE [transport |-> order[1], endpoint |-> Usable(order[1])[1].endpoint,
              requirements |-> card.requirements, schemes |-> card.requirements \cap card.schemes]

-----------------------------------------------------------------------------
(* The client *)

SetAgentCardVerifier(on) ==
    /\ call.pc = "idle"
    /\ changes < MaxChanges /\ changes' = changes + 1
    /\ verifying' = on
    /\ cache' = {}
    /\ UNCHANGED <<served, trusted, call, result, clock>>

Return(card, at, asked) == result' = [kind |-> "card", card |-> card, at |-> at, asked |-> asked, verified |-> Verifies(card)]
Refuse == result' = [kind |-> "error"]

(* BuildDiscoveryUrl and BuildExtendedDiscoveryUrl refuse a base URL       *)
(* without an HTTP scheme; every spelling of a host (spaces, trailing      *)
(* slashes) makes the same URL.                                            *)
BuildDiscoveryUrl(base) == IF base \in Hosts THEN base ELSE None

(* Mutant: a cached card is not verified again. *)
FetchTrusting(base) ==
    LET host == BuildDiscoveryUrl(base)
        sent == [Resting EXCEPT !.pc = "sent", !.host = host, !.now = clock]
        hits == {e \in cache : e.host = host /\ e.expires >= clock}
    IN  /\ call.pc = "idle"
        /\ \/ host = None /\ Refuse /\ UNCHANGED <<call, cache>>
           \/ /\ \E e \in hits : Return(e.card, e.at, clock)
              /\ UNCHANGED <<call, cache>>
           \/ /\ host # None /\ hits = {}
              /\ call' = sent
              /\ UNCHANGED <<cache, result>>
        /\ UNCHANGED <<world, verifying>>

(* Fetch, to its call of the fetcher: a cached card that has not expired   *)
(* is verified again, and evicted if it does not pass.                     *)
Fetch(base) ==
    LET host == BuildDiscoveryUrl(base)
        sent == [Resting EXCEPT !.pc = "sent", !.host = host, !.now = clock]
        hits == {e \in cache : e.host = host /\ e.expires >= clock}
    IN  /\ call.pc = "idle"
        /\ \/ host = None /\ Refuse /\ UNCHANGED <<call, cache>>
           \/ /\ \E e \in hits : Verifies(e.card) /\ Return(e.card, e.at, clock)
              /\ UNCHANGED <<call, cache>>
           \/ /\ \E e \in hits : ~Verifies(e.card) /\ cache' = cache \ {e}
              /\ call' = sent
              /\ UNCHANGED result
           \/ /\ host # None /\ hits = {}
              /\ call' = sent
              /\ UNCHANGED <<cache, result>>
        /\ UNCHANGED <<world, verifying>>

FetchExtendedAgentCard(base) ==
    LET host == BuildDiscoveryUrl(base) IN
    /\ call.pc = "idle"
    /\ \/ host = None /\ Refuse /\ UNCHANGED call
       \/ /\ host # None
          /\ call' = [Resting EXCEPT !.pc = "sent", !.host = host, !.kind = "extended", !.now = clock]
          /\ UNCHANGED result
    /\ UNCHANGED <<world, verifying, cache>>

(* The request reaches the server, or is lost with its answer. *)
Answered ==
    /\ call.pc = "sent"
    /\ call' = [call EXCEPT !.pc = "answered", !.response = <<[reply |-> served[<<call.host, call.kind>>], at |-> clock]>>]
    /\ UNCHANGED <<world, verifying, cache, result>>

FetcherFails ==
    /\ call.pc \in {"sent", "answered"}
    /\ call' = Resting /\ Refuse
    /\ UNCHANGED <<world, verifying, cache>>

(* Mutant: the card is kept for its full time from now on. *)
FetchedLate ==
    LET response == call.response[1].reply
        at == call.response[1].at
    IN
    /\ call.pc = "answered"
    /\ call' = Resting
    /\ IF response.ok /\ VerifyAndParseAgentCard(response.card)
       THEN /\ Return(response.card, at, call.now)
            /\ cache' = IF call.kind = "extended" THEN cache
                        ELSE {e \in cache : e.host # call.host} \cup
                             {[host |-> call.host, card |-> response.card, at |-> at, expires |-> clock + Ttl]}
       ELSE Refuse /\ UNCHANGED cache
    /\ UNCHANGED <<world, verifying>>

(* The rest of Fetch and FetchExtendedAgentCard: the status, the verifier, *)
(* the parser and the checks, then the cache, with the time the call       *)
(* began.                                                                  *)
Fetched ==
    LET response == call.response[1].reply
        at == call.response[1].at
    IN
    /\ call.pc = "answered"
    /\ call' = Resting
    /\ IF response.ok /\ VerifyAndParseAgentCard(response.card)
       THEN /\ Return(response.card, at, call.now)
            /\ cache' = IF call.kind = "extended" THEN cache
                        ELSE {e \in cache : e.host # call.host} \cup
                             {[host |-> call.host, card |-> response.card, at |-> at, expires |-> call.now + Ttl]}
       ELSE Refuse /\ UNCHANGED cache
    /\ UNCHANGED <<world, verifying>>

-----------------------------------------------------------------------------
(* The world *)

Publish(url, response) ==
    /\ response # served[url]
    /\ changes < MaxChanges /\ changes' = changes + 1
    /\ served' = [served EXCEPT ![url] = response]
    /\ UNCHANGED <<trusted, verifying, cache, call, result, clock>>

ChangeKeys(keys) ==
    /\ keys # trusted
    /\ changes < MaxChanges /\ changes' = changes + 1
    /\ trusted' = keys
    /\ UNCHANGED <<served, verifying, cache, call, result, clock>>

Tick ==
    /\ clock < MaxTime /\ clock' = clock + 1
    /\ UNCHANGED <<served, trusted, verifying, cache, call, result, changes>>

Next ==
    \/ \E base \in Hosts \cup {None} : Fetch(base) \/ FetchExtendedAgentCard(base)
    \/ Answered \/ FetcherFails \/ Fetched
    \/ \E on \in BOOLEAN : SetAgentCardVerifier(on)
    \/ \E url \in Hosts \X Kinds, response \in Responses : Publish(url, response)
    \/ \E keys \in SUBSET Keys : ChangeKeys(keys)
    \/ Tick

Spec == Init /\ [][Next]_vars

-----------------------------------------------------------------------------
(* Properties *)

(* Discovery returns no card that the verifier, with the keys it trusts    *)
(* when the call returns, would refuse, be it cached or new.               *)
NeverUntrusted == result.kind = "card" => result.verified

(* A returned card was published by its server within the cache's time     *)
(* before the call, however slow the request that brought it and whatever  *)
(* failed since.                                                           *)
FreshWithinTtl == result.kind = "card" => result.at >= result.asked - Ttl

(* A card that Fetch accepts always resolves, whatever transport is        *)
(* preferred: to the preferred one if the card has it, to an endpoint that *)
(* is valid for its binding, with a scheme for every requirement.          *)
Resolves ==
    result.kind = "card" => \A preferred \in Bindings :
        LET chosen == SelectPreferredInterface(result.card, preferred)
            offered == {i.binding : i \in ToSet(result.card.interfaces)}
        IN  /\ chosen # NoInterface
            /\ preferred \in offered => chosen.transport = preferred
            /\ IsValidInterfaceEndpoint([binding |-> chosen.transport, endpoint |-> chosen.endpoint])
            /\ chosen.schemes = chosen.requirements
=============================================================================
