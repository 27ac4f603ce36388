----------------------------- MODULE DnsCache -----------------------------
(***************************************************************************)
(* The probe's DNS cache (src/net-modules/dns.c) and the passes of         *)
(* mainiter that fill and flush it: a ring of MAX_DNS_CACHE_SIZE entries,  *)
(* written round-robin by an unsigned char counter, searched by name,      *)
(* emptied by dns_cache_flush when a pass has ended.  Failed resolutions   *)
(* are cached like any other, as INADDR_NONE; proto_mesg_send goes past    *)
(* the cache when it meets one, a task reports it.                         *)
(***************************************************************************)
EXTENDS Integers, FiniteSets, Sequences

CONSTANTS
    CacheSize,      \* MAX_DNS_CACHE_SIZE, 32
    IndexRange,     \* the values of the counter: 256 for an unsigned char
    Hosts,          \* names that are looked up
    Dispatch,       \* the dispatch server's
    Addrs,          \* addresses
    NoHost,         \* an empty entry's name (NULL)
    INADDR_NONE     \* no address

ASSUME CacheAssumption ==
    /\ CacheSize \in Nat \ {0}
    /\ IndexRange \in Nat \ {0}
    /\ IndexRange % CacheSize = 0
    /\ Dispatch \in Hosts /\ NoHost \notin Hosts
    /\ INADDR_NONE \notin Addrs

VARIABLES
    cache,      \* dns_cache
    index,      \* add_cache's static counter, which no flush resets
    phase,      \* the function mainiter is in
    answer,     \* the last lookup's name and address
    obtained,   \* history: what resolve() gave since mainiter was entered
    recent      \* history: the last CacheSize names added since the last flush

vars == <<cache, index, phase, answer, obtained, recent>>

Phase == {"get_jobs", "process_tasks", "send_results"}

Entry == 0 .. CacheSize - 1

Centry == [name : Hosts \cup {NoHost}, addr : Addrs \cup {INADDR_NONE}]

EmptyEntry == [name |-> NoHost, addr |-> INADDR_NONE]

\* dns_init and dns_cache_flush: cacheinit or freecache on every entry.
Flushed == [i \in Entry |-> EmptyEntry]

LastOf(s) == IF Len(s) > CacheSize THEN Tail(s) ELSE s

\* is_cached: the entries with this name, of which the lowest is taken.
CachedAt(name) == {i \in Entry : cache[i].name = name}

\* Mutant: the counter wraps one too early.
AddCacheWrapsEarly(e) ==
    /\ cache' = [cache EXCEPT ![index % CacheSize] = e]
    /\ index' = (index + 1) % (IndexRange - 1)

\* add_cache.

AddCache(e) ==
    /\ cache' = [cache EXCEPT ![index % CacheSize] = e]
    /\ index' = (index + 1) % IndexRange

Init ==
    /\ cache = Flushed
    /\ index = 0
    /\ phase = "get_jobs"
    /\ answer = EmptyEntry
    /\ obtained = {} /\ recent = <<>>

-----------------------------------------------------------------------------
(* Lookups.                                                                *)

\* The names the functions of a phase look up.  The results are posted to the
\* dispatch server as well (FN_DISPATCH in collection.c).
Wanted == IF phase = "process_tasks" THEN Hosts ELSE {Dispatch}

\* resolve_cached with the name in the cache.
Hit(name) ==
    /\ \E i \in CachedAt(name) :
          /\ \A j \in CachedAt(name) : i <= j
          /\ answer' = cache[i]
    /\ UNCHANGED <<cache, index, phase, obtained, recent>>

\* resolve_cached without: resolve() gives an address or INADDR_NONE.
Miss(name) ==
    /\ CachedAt(name) = {}
    /\ \E addr \in Addrs \cup {INADDR_NONE} :
          /\ answer' = [name |-> name, addr |-> addr]
          /\ AddCache(answer')
    /\ obtained' = obtained \cup {answer'}
    /\ recent' = LastOf(Append(recent, name))
    /\ UNCHANGED phase

\* proto_mesg_send, told INADDR_NONE: it sleeps and calls resolve() itself.
ResolveAgain ==
    /\ phase \in {"get_jobs", "send_results"}
    /\ answer.name # NoHost /\ answer.addr = INADDR_NONE
    /\ \E addr \in Addrs \cup {INADDR_NONE} : answer' = [answer EXCEPT !.addr = addr]
    /\ obtained' = obtained \cup {answer'}
    /\ UNCHANGED <<cache, index, phase, recent>>

-----------------------------------------------------------------------------
(* mainiter.                                                               *)

\* A request to the server of this phase has been made.
Reached(server) == answer.name = server /\ answer.addr # INADDR_NONE

Enters(p) == phase' = p /\ answer' = EmptyEntry

\* get_jobs returns -1: mainiter sleeps and returns, the cache stays as it is.
JobsFail ==
    /\ phase = "get_jobs" /\ Reached(Dispatch)
    /\ Enters("get_jobs")
    /\ obtained' = {}
    /\ UNCHANGED <<cache, index, recent>>

JobsFetched ==
    /\ phase = "get_jobs" /\ Reached(Dispatch)
    /\ Enters("process_tasks")
    /\ UNCHANGED <<cache, index, obtained, recent>>

TasksProcessed ==
    /\ phase = "process_tasks"
    /\ Enters("send_results")
    /\ UNCHANGED <<cache, index, obtained, recent>>

\* Mutant: cache_each_do starts at 1.
ResultsSentFlushFrom1 ==
    /\ phase = "send_results" /\ Reached(Dispatch)
    /\ Enters("get_jobs")
    /\ cache' = [i \in Entry |-> IF i = 0 THEN cache[i] ELSE EmptyEntry]
    /\ obtained' = {} /\ recent' = <<>>
    /\ UNCHANGED index

\* Results sent.  The flush: "So future jobs' data is right."
ResultsSent ==
    /\ phase = "send_results" /\ Reached(Dispatch)
    /\ Enters("get_jobs")
    /\ cache' = Flushed
    /\ obtained' = {} /\ recent' = <<>>
    /\ UNCHANGED index

Next ==
    \/ \E name \in Wanted : Hit(name) \/ Miss(name)
    \/ ResolveAgain
    \/ JobsFail \/ JobsFetched \/ TasksProcessed \/ ResultsSent

Spec == Init /\ [][Next]_vars

-----------------------------------------------------------------------------
(* Properties.                                                             *)

DnsTypeOK ==
    /\ cache \in [Entry -> Centry]
    /\ index \in 0 .. IndexRange - 1
    /\ phase \in Phase
    /\ answer \in Centry
    /\ obtained \subseteq Centry
    /\ recent \in Seq(Hosts) /\ Len(recent) <= CacheSize

(* Failed lookups are entries like others, so no name has two entries and   *)
(* is_cached's choice of the lowest is no choice.                           *)
OneEntryPerName ==
    \A i, j \in Entry :
        cache[i].name = cache[j].name /\ cache[i].name # NoHost => i = j

(* The counter is not reset by a flush and wraps at another size than the   *)
(* ring; still the ring holds the names added last since the flush, as many *)
(* of them as it has entries, so no name is evicted before its turn.        *)
LastNamesCached ==
    {cache[i].name : i \in Entry} \ {NoHost} = {recent[j] : j \in DOMAIN recent}

\* The counters stay in the ring, no name is in it twice, and it holds the names
\* added last, though the counter wraps on its own (add_cache).
RingHoldsLastNames == DnsTypeOK /\ OneEntryPerName /\ LastNamesCached

(* "So future jobs' data is right": what a task is told of its host was     *)
(* resolved in the pass the task is performed in.  The dispatch server's    *)
(* name is the exception: passes that fail in get_jobs end without a flush. *)
TaskAddressesFresh ==
    \A e \in {answer} \cup {cache[i] : i \in Entry} :
        e.name \notin {NoHost, Dispatch} => e \in obtained

=============================================================================
