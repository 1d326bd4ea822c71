------------------------------ MODULE Resolver ------------------------------
(***************************************************************************)
(* Reverse DNS for display (ui/resolver.go).  Drawing a frame asks for the *)
(* name of each address on screen and never waits: an address that is not  *)
(* cached is drawn as it is and looked up on a goroutine of its own, whose *)
(* result a later frame finds.  Every action is a critical section of      *)
(* resolver.mu.                                                            *)
(***************************************************************************)
EXTENDS Integers, FiniteSets

CONSTANTS
  Ips,            \* addresses on screen
  Others,         \* what is on screen in their place and is no address, as
                  \* "127.0.0.53%lo"
  MaxCache        \* maxDNSCache

ASSUME ResolverAssumption ==
  /\ MaxCache \in Nat \ {0}
  /\ IsFiniteSet(Ips) /\ IsFiniteSet(Others)
  /\ Ips \cap Others = {}

VARIABLES
  enabled,        \* resolver.enabled
  cache,          \* the domain of resolver.cache; the names are left out
  inflight,       \* resolver.inflight
  lookups         \* lookups[ip]: how many goroutines resolve ip

resolverVars == <<enabled, cache, inflight, lookups>>

ResolverInit ==
  /\ enabled \in BOOLEAN          \* --resolve
  /\ cache = {}
  /\ inflight = {}
  /\ lookups = [ip \in Ips |-> 0]

(* The r key. *)
Toggle ==
  /\ enabled' = ~enabled
  /\ UNCHANGED <<cache, inflight, lookups>>

(* display of something that is no address: it is its own name. *)
DisplayOther(name) ==
  /\ enabled
  /\ name \notin cache
  /\ cache' = cache \cup {name}
  /\ UNCHANGED <<enabled, inflight, lookups>>

(* Mutant: the look-up under way is not remembered. *)
DisplayAgain(ip) ==
  /\ enabled
  /\ ip \notin cache
  /\ lookups' = [lookups EXCEPT ![ip] = @ + 1]
  /\ UNCHANGED <<enabled, cache, inflight>>

(* display of an address that is not cached: its look-up starts, unless it *)
(* is under way.                                                           *)
Display(ip) ==
  /\ enabled
  /\ ip \notin cache
  /\ ip \notin inflight
  /\ inflight' = inflight \cup {ip}
  /\ lookups' = [lookups EXCEPT ![ip] = @ + 1]
  /\ UNCHANGED <<enabled, cache>>

(* The cache with room for one more: emptied when it is full. *)
Room == IF Cardinality(cache) >= MaxCache THEN {} ELSE cache

(* Mutant: an address that was looked up stays in flight. *)
LandedKept(ip) == inflight

Landed(ip) == inflight \ {ip}

(* resolve: the look-up ended, with a name, without one or in a timeout,   *)
(* and is cached either way, also when the display was switched off since. *)
Resolved(ip) ==
  /\ lookups[ip] > 0
  /\ cache' = Room \cup {ip}
  /\ inflight' = Landed(ip)
  /\ lookups' = [lookups EXCEPT ![ip] = @ - 1]
  /\ UNCHANGED enabled

ResolverNext ==
  \/ Toggle
  \/ \E name \in Others : DisplayOther(name)
  \/ \E ip \in Ips : Display(ip) \/ Resolved(ip)

(* Frames are drawn as long as the UI runs, and a look-up ends within its  *)
(* two seconds.                                                            *)
ResolverFairness ==
  /\ \A name \in Others : WF_resolverVars(DisplayOther(name))
  /\ \A ip \in Ips : WF_resolverVars(Display(ip)) /\ WF_resolverVars(Resolved(ip))

ResolverSpec == ResolverInit /\ [][ResolverNext]_resolverVars /\ ResolverFairness

-----------------------------------------------------------------------------
(* Properties.                                                             *)

TypeOK ==
  /\ enabled \in BOOLEAN
  /\ cache \subseteq Ips \cup Others
  /\ inflight \subseteq Ips
  /\ lookups \in [Ips -> Nat]

(* An address is asked about once at a time, and is marked as in flight    *)
(* exactly while it is: toggling off and on, or emptying the cache, while  *)
(* a look-up runs starts no second one and leaves no mark behind.          *)
OneLookup ==
  \A ip \in Ips : lookups[ip] = IF ip \in inflight THEN 1 ELSE 0

(* Whatever comes and goes on screen, the cache holds no more addresses    *)
(* than its limit.  (Of what is no address it may hold more: display adds  *)
(* that without looking at the limit.)                                     *)
CacheBounded == Cardinality(cache \cap Ips) <= MaxCache

(* "On overflow ... still-relevant names simply get re-resolved on the     *)
(* next render": while the display is on, what is on screen is named again *)
(* and again, however small the cache.                                     *)
ShownIsNamed == \A ip \in Ips : <>[]enabled => []<>(ip \in cache)
=============================================================================
