------------------------------- MODULE MCDns -------------------------------
(* Constants for model-checking DnsCache and Resolver, which runs when the    *)
(* cache misses: two servers and a name that is looked up as it is; every     *)
(* kind of name in two domains; late and repeated answers while a search      *)
(* goes on.  In a behaviour one of the two runs, the other stays where it     *)
(* begins.                                                                    *)
EXTENDS DnsCache, Resolver

CONSTANTS d, x, y, z,       \* the server's name and three tasks' hosts
          p                 \* addresses

FourHosts == {d, x, y, z}
OneAddr == {p}

-----------------------------------------------------------------------------
VARIABLE part   \* the one that runs

SomeKinds == {"address", "refused", "truncated"}

TwoServers ==
    [nservers |-> 2, tries |-> 2, ndomains |-> 0, orders |-> {<<"b", "f">>},
     names |-> {"dotted"}, kinds |-> SomeKinds]

TwoDomains ==
    [nservers |-> 1, tries |-> 1, ndomains |-> 2, orders |-> {<<"b", "f">>, <<"f", "b">>},
     names |-> Name, kinds |-> Kind]

LateAnswers ==
    [nservers |-> 1, tries |-> 2, ndomains |-> 1, orders |-> {<<"b", "f">>},
     names |-> {"dotted"}, kinds |-> Kind]

ThreeSettings == {TwoServers, TwoDomains, LateAnswers}

ASSUME ResolverAssumption

-----------------------------------------------------------------------------
OneInit ==
    /\ Init /\ ResolverInit
    /\ part \in {"cache", "lookup"}
    /\ part = "cache" => setting = TwoServers /\ ~in_hosts /\ ~nonblock

\* resolve() has returned, or waits for bytes that no server will send.
Over ==
    /\ part = "lookup"
    /\ pc \in {"done", "select", "readtcp", "readudp"}
    /\ UNCHANGED <<part, vars, resolverVars>>

OneNext ==
    \/ part = "cache" /\ Next /\ UNCHANGED <<part, resolverVars>>
    \/ part = "lookup" /\ ResolverNext /\ UNCHANGED <<part, vars>>
    \/ Over

OneSpec ==
    /\ OneInit /\ [][OneNext]_<<part, vars, resolverVars>>
    /\ WF_resolverVars(part = "lookup" /\ Probe)

-----------------------------------------------------------------------------
(* The other properties are those of the two modules.                        *)

\* Whatever the servers answer or fail to, resolve() returns, or waits over TCP or
\* in a read (dns.c:120).
LookupReturns == part = "lookup" => ReturnsOrIsLeftWaiting
=============================================================================
