----------------------------- MODULE CustomDomains -----------------------------
(***************************************************************************)
(* Custom play domains: the column that says which workspace owns a        *)
(* domain, the server's cache of lookups, and the two users of it: the     *)
(* Host dispatch and Caddy's question whether to issue a certificate.      *)
(*                                                                         *)
(* A lookup reads the cache, then the database, then fills the cache; an   *)
(* owner's change writes the column, then clears the cache.  Each is a     *)
(* step of its own.  Names are the suffixes of hosts; some are malformed,  *)
(* some are the platform's own domain or lie below it.                     *)
(***************************************************************************)
EXTENDS Naturals, FiniteSets

CONSTANTS Workspaces, Names, Malformed, Platform, Lookups, Setters

VARIABLES owned,    \* custom_play_domain of each workspace, or "none"
          cache,    \* suffix -> workspace or "nobody"; absent until asked
          lookup,   \* resolve_custom_host under way
          setting,  \* set_domain under way: written, not yet cleared
          overtaken \* history: suffixes cached by a lookup a change overtook

domainVars == <<owned, cache, lookup, setting, overtaken>>

NoLookup == [do |-> "idle"]
Owner(d) == IF \E w \in Workspaces : owned[w] = d
            THEN CHOOSE w \in Workspaces : owned[w] = d ELSE "nobody"

(* CustomDomainCache: no entries. *)
NoEntries == [d \in {} |-> "nobody"]

DomainInit ==
  /\ owned = [w \in Workspaces |-> "none"]
  /\ cache = NoEntries
  /\ lookup = [q \in Lookups |-> NoLookup]
  /\ setting = {}
  /\ overtaken = {}

(* Where the cache has the suffix it is the answer. *)
CacheMiss(q, d) ==
  /\ lookup[q] = NoLookup /\ d \notin DOMAIN cache
  /\ lookup' = [lookup EXCEPT ![q] = [do |-> "read", suffix |-> d]]
  /\ UNCHANGED <<owned, cache, setting, overtaken>>

(* host_dispatch: the platform's own hosts are dispatched without a lookup. *)
HostDispatch(q, d) == d \notin Platform /\ CacheMiss(q, d)

(* tls_check asks of any host. *)
TlsCheck(q, d) == CacheMiss(q, d)

ReadOwner(q) ==
  /\ lookup[q].do = "read"
  /\ lookup' = [lookup EXCEPT ![q] = [do |-> "put", suffix |-> @.suffix,
                                      found |-> Owner(@.suffix), old |-> FALSE]]
  /\ UNCHANGED <<owned, cache, setting, overtaken>>

Put(q) ==
  LET d == lookup[q].suffix
  IN  /\ lookup[q].do = "put"
      /\ cache' = [e \in DOMAIN cache \cup {d} |-> IF e = d THEN lookup[q].found ELSE cache[e]]
      /\ overtaken' = IF lookup[q].old THEN overtaken \cup {d} ELSE overtaken \ {d}
      /\ lookup' = [lookup EXCEPT ![q] = NoLookup]
      /\ UNCHANGED <<owned, setting>>

(* The lookup fails: no answer, and nothing is cached. *)
LookupFails(q) ==
  /\ lookup[q].do = "read"
  /\ lookup' = [lookup EXCEPT ![q] = NoLookup]
  /\ UNCHANGED <<owned, cache, setting, overtaken>>

(* Sixty seconds. *)
Lapses(d) ==
  /\ d \in DOMAIN cache
  /\ cache' = [e \in DOMAIN cache \ {d} |-> cache[e]]
  /\ overtaken' = overtaken \ {d}
  /\ UNCHANGED <<owned, lookup, setting>>

(* validate_custom_domain: a DNS name, and none of the platform's. *)
Valid(d) == d \notin Malformed \cup Platform

(* set_domain: the column is unique over the workspaces. *)
Taken(w, d) == d # "none" /\ \E v \in Workspaces \ {w} : owned[v] = d

WriteDomain(w, d, s) ==
  /\ s \notin setting
  /\ Valid(d) /\ ~Taken(w, d)
  /\ owned' = [owned EXCEPT ![w] = d]
  /\ setting' = setting \cup {s}
  /\ lookup' = [q \in Lookups |-> IF lookup[q].do = "put" THEN [lookup[q] EXCEPT !.old = TRUE]
                                  ELSE lookup[q]]
  /\ UNCHANGED <<cache, overtaken>>

AfterChange_kept == cache

AfterChange == NoEntries

ClearCache(s) ==
  /\ s \in setting
  /\ cache' = AfterChange
  /\ setting' = setting \ {s}
  /\ overtaken' = {}
  /\ UNCHANGED <<owned, lookup>>

DomainNext ==
  \/ \E q \in Lookups :
       ReadOwner(q) \/ Put(q) \/ LookupFails(q) \/ \E d \in Names : HostDispatch(q, d) \/ TlsCheck(q, d)
  \/ \E d \in Names : Lapses(d)
  \/ \E s \in Setters :
       ClearCache(s) \/ \E w \in Workspaces, d \in Names \cup {"none"} : WriteDomain(w, d, s)

DomainSpec == DomainInit /\ [][DomainNext]_domainVars

-----------------------------------------------------------------------------
(* "A change must take effect immediately, not after the resolver's 60s TTL":
   once a change is answered, what the cache says of a domain is who owns it,
   except where a lookup had read the column before a change and cached its
   answer after the clear: that one is trusted for its sixty seconds. *)
DomainFresh ==
  setting = {} => \A d \in DOMAIN cache : cache[d] = Owner(d) \/ d \in overtaken

===============================================================================
