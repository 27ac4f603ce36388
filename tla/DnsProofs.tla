----------------------------- MODULE DnsProofs -----------------------------
(***************************************************************************)
(* The cache, for every ring size, set of hosts and set of addresses: it   *)
(* never holds a name twice, what a task is told of its host was resolved  *)
(* in the pass the task is performed in, and the ring holds the names      *)
(* added last, though the counter that goes round it wraps.                *)
(*                                                                         *)
(* The look-up, for any number of name servers, tries and domains, any     *)
(* order of look-up and any kinds of names and answers, with signals or    *)
(* without: its callback is run once, a search asks for every candidate    *)
(* once before it says that there is no such name, an address answers the  *)
(* question that was being asked, every server is asked as often as there  *)
(* are tries unless it failed, and no query waits on a closed socket.      *)
(***************************************************************************)
EXTENDS DnsCache, Resolver, FiniteSetTheorems, SequenceTheorems, WellFoundedInduction, TLAPS

-----------------------------------------------------------------------------
(* DnsCache.                                                               *)


(* TaskAddressesFresh is not inductive: a pass that fails forgets what it   *)
(* obtained and keeps the cache, which is harmless because get_jobs looks   *)
(* up one name only, the exception's.                                       *)
OnlyDispatchBeforeJobs ==
    phase = "get_jobs" =>
        \A e \in {answer} \cup {cache[i] : i \in Entry} : e.name \in {NoHost, Dispatch}

DnsInv ==
    /\ DnsTypeOK
    /\ OneEntryPerName
    /\ TaskAddressesFresh
    /\ OnlyDispatchBeforeJobs

-----------------------------------------------------------------------------
(* Both counters of add_cache stay in range: the entry it writes is one of *)
(* the ring's, and the unsigned char wraps to 0.                           *)
LEMMA CounterInRange ==
    ASSUME NEW n \in Nat
    PROVE  n % CacheSize \in Entry /\ n % IndexRange \in 0 .. IndexRange - 1
<1>1. /\ CacheSize \in Nat /\ CacheSize > 0
      /\ IndexRange \in Nat /\ IndexRange > 0
  BY CacheAssumption
<1>2. n % CacheSize \in 0 .. CacheSize - 1
  BY <1>1
<1>3. n % IndexRange \in 0 .. IndexRange - 1
  BY <1>1
<1>4. QED
  BY <1>2, <1>3 DEF Entry

(* The empty entry is an entry, so a flush gives a cache.                   *)
LEMMA FlushedType == EmptyEntry \in Centry /\ Flushed \in [Entry -> Centry]
  BY DEF EmptyEntry, Centry, Flushed

(* The history of the last names stays a sequence of that many.             *)
LEMMA RecentType ==
    ASSUME NEW s \in Seq(Hosts), Len(s) <= CacheSize, NEW host \in Hosts
    PROVE  /\ LastOf(Append(s, host)) \in Seq(Hosts)
           /\ Len(LastOf(Append(s, host))) <= CacheSize
<1>1. /\ Append(s, host) \in Seq(Hosts) /\ Len(Append(s, host)) = Len(s) + 1
      /\ Append(s, host) # <<>>
  OBVIOUS
<1>2. /\ Tail(Append(s, host)) \in Seq(Hosts)
      /\ Len(Tail(Append(s, host))) = Len(s)
  BY <1>1
<1>3. CacheSize \in Nat /\ Len(s) \in Nat
  BY CacheAssumption
<1>4. QED
  BY <1>1, <1>2, <1>3 DEF LastOf

-----------------------------------------------------------------------------
(* The empty cache of dns_init satisfies the invariant.                     *)
LEMMA DnsInitInv == Init => DnsInv
<1> SUFFICES ASSUME Init PROVE DnsInv
  OBVIOUS
<1>1. DnsTypeOK
  BY FlushedType, CacheAssumption DEF Init, DnsTypeOK, Phase
<1>2. \A e \in {answer} \cup {cache[i] : i \in Entry} : e.name = NoHost
  BY DEF Init, Flushed, EmptyEntry
<1>3. QED
  BY <1>1, <1>2 DEF DnsInv, OneEntryPerName, TaskAddressesFresh, OnlyDispatchBeforeJobs

(* Each lookup and each step of mainiter keeps the invariant.               *)
LEMMA DnsNextInv == DnsInv /\ [Next]_vars => DnsInv'
<1> SUFFICES ASSUME DnsInv, [Next]_vars PROVE DnsInv'
  OBVIOUS
<1> USE DEF DnsInv
<1>1. CASE UNCHANGED vars
  BY <1>1 DEF vars, DnsTypeOK, OneEntryPerName, TaskAddressesFresh, OnlyDispatchBeforeJobs
<1>2. ASSUME NEW host \in Wanted, Hit(host) PROVE DnsInv'
  <2>1. PICK i \in Entry : cache[i].name = host /\ answer' = cache[i]
    BY <1>2 DEF Hit, CachedAt
  <2>2. QED
    BY <1>2, <2>1
    DEF Hit, DnsTypeOK, OneEntryPerName, TaskAddressesFresh, OnlyDispatchBeforeJobs
<1>3. ASSUME NEW host \in Wanted, Miss(host) PROVE DnsInv'
  <2> DEFINE k == index % CacheSize
  <2>1. host \in Hosts
    BY <1>3, CacheAssumption DEF Wanted, DnsTypeOK, Phase
  <2>2. k \in Entry /\ index' \in 0 .. IndexRange - 1
    <3>1. index \in Nat /\ index + 1 \in Nat
      BY CacheAssumption DEF DnsTypeOK
    <3>2. index' = (index + 1) % IndexRange
      BY <1>3 DEF Miss, AddCache
    <3>3. QED
      BY <3>1, <3>2, CounterInRange
  <2>3. PICK addr \in Addrs \cup {INADDR_NONE} :
            /\ answer' = [name |-> host, addr |-> addr]
            /\ cache' = [cache EXCEPT ![k] = answer']
    BY <1>3 DEF Miss, AddCache
  <2>4. answer' \in Centry /\ answer'.name = host
    BY <2>1, <2>3 DEF Centry
  <2>5. recent' \in Seq(Hosts) /\ Len(recent') <= CacheSize
    BY <1>3, <2>1, RecentType DEF Miss, DnsTypeOK
  <2>6. \A i \in Entry : cache'[i] = IF i = k THEN answer' ELSE cache[i]
    BY <2>2, <2>3 DEF DnsTypeOK
  <2>7. DnsTypeOK'
    BY <1>3, <2>2, <2>3, <2>4, <2>5 DEF Miss, DnsTypeOK
  <2>8. OneEntryPerName'
    BY <1>3, <2>4, <2>6 DEF Miss, CachedAt, OneEntryPerName
  <2>9. TaskAddressesFresh'
    BY <1>3, <2>6 DEF Miss, TaskAddressesFresh
  <2>10. OnlyDispatchBeforeJobs'
    BY <1>3, <2>4, <2>6 DEF Miss, Wanted, OnlyDispatchBeforeJobs
  <2>11. QED
    BY <2>7, <2>8, <2>9, <2>10
<1>4. CASE ResolveAgain
  <2>1. PICK addr \in Addrs \cup {INADDR_NONE} : answer' = [answer EXCEPT !.addr = addr]
    BY <1>4 DEF ResolveAgain
  <2>2. answer' \in Centry /\ answer'.name = answer.name
    BY <2>1 DEF DnsTypeOK, Centry
  <2>3. QED
    BY <1>4, <2>2 DEF ResolveAgain, DnsTypeOK, OneEntryPerName, TaskAddressesFresh,
                      OnlyDispatchBeforeJobs
<1>5. CASE JobsFail
  BY <1>5, FlushedType DEF JobsFail, Enters, DnsTypeOK, Phase, OneEntryPerName, TaskAddressesFresh,
              OnlyDispatchBeforeJobs, EmptyEntry
<1>6. CASE JobsFetched \/ TasksProcessed
  BY <1>6, FlushedType DEF JobsFetched, TasksProcessed, Enters, DnsTypeOK, Phase, OneEntryPerName,
              TaskAddressesFresh, OnlyDispatchBeforeJobs, EmptyEntry
<1>7. CASE ResultsSent
  <2>1. \A e \in {answer'} \cup {cache'[i] : i \in Entry} : e.name = NoHost
    BY <1>7 DEF ResultsSent, Enters, Flushed, EmptyEntry
  <2>2. DnsTypeOK'
    BY <1>7, FlushedType, CacheAssumption DEF ResultsSent, Enters, DnsTypeOK, Phase
  <2>3. QED
    BY <2>1, <2>2 DEF OneEntryPerName, TaskAddressesFresh, OnlyDispatchBeforeJobs
<1>8. QED
  BY <1>1, <1>2, <1>3, <1>4, <1>5, <1>6, <1>7 DEF Next

(* The inductive invariant of the cache holds in every behaviour.           *)
THEOREM DnsInvariant == Spec => []DnsInv
  BY DnsInitInv, DnsNextInv, PTL DEF Spec

(* add_cache's counters stay inside the ring and the unsigned char, however *)
(* many names are looked up and however large the ring.                     *)
THEOREM DnsTypeCorrect == Spec => []DnsTypeOK
<1>1. DnsInv => DnsTypeOK
  BY DEF DnsInv
<1>2. QED
  BY <1>1, DnsInvariant, PTL

(* No name is ever cached twice: resolve_cached adds a name only after a    *)
(* search that would have found it, failed lookups included.                *)
THEOREM DnsOneEntryPerName == Spec => []OneEntryPerName
<1>1. DnsInv => OneEntryPerName
  BY DEF DnsInv
<1>2. QED
  BY <1>1, DnsInvariant, PTL

(* mainiter's flush: no task is ever given an address of an earlier pass,   *)
(* unless its host is the dispatch server.                                  *)
THEOREM DnsTaskAddressesFresh == Spec => []TaskAddressesFresh
<1>1. DnsInv => TaskAddressesFresh
  BY DEF DnsInv
<1>2. QED
  BY <1>1, DnsInvariant, PTL

-----------------------------------------------------------------------------
(***************************************************************************)
(* LastNamesCached.  The entry written next is the counter modulo the ring  *)
(* size; because the counter's range is a multiple of it, that entry walks  *)
(* around the ring through every wrap of the counter.  Behind it lie the    *)
(* names added last, in order; every other entry is empty.                  *)
(***************************************************************************)
Hand == index % CacheSize

After(k) == IF k = CacheSize - 1 THEN 0 ELSE k + 1

(* Where the j-th of the last n names is when the hand is at k.             *)
Behind(k, n, j) == IF k - n + j - 1 >= 0 THEN k - n + j - 1 ELSE k - n + j - 1 + CacheSize

Ring(n) ==
    /\ \A j \in 1 .. n : cache[Behind(Hand, n, j)].name = recent[j]
    /\ \A i \in Entry : cache[i].name # NoHost => \E j \in 1 .. n : i = Behind(Hand, n, j)

RingInv == Ring(Len(recent))

(* Quotient and remainder are unique.                                       *)
LEMMA DivisionUnique ==
    ASSUME NEW c \in Nat, c > 0, NEW p \in Int, NEW q \in Int,
           NEW r \in 0 .. c - 1, NEW s \in 0 .. c - 1, p * c + r = q * c + s
    PROVE  p = q /\ r = s
<1>1. \A a, b \in Int : a < b => (a + 1) * c <= b * c
  BY Z3
<1>2. \A a \in Int : (a + 1) * c = a * c + c
  BY Z3
<1>3. \A a \in Int : a * c \in Int
  OBVIOUS
<1>4. ~(p < q)
  BY <1>1, <1>2, <1>3
<1>5. ~(q < p)
  BY <1>1, <1>2, <1>3
<1>6. p = q
  BY <1>4, <1>5
<1>7. QED
  BY <1>3, <1>6

(* What is left when a multiple of the divisor is taken away.               *)
LEMMA Remainder ==
    ASSUME NEW c \in Nat, c > 0, NEW q \in Int, NEW r \in 0 .. c - 1
    PROVE  (q * c + r) % c = r
<1> DEFINE a == q * c + r
<1>1. q * c \in Int /\ a \in Int
  OBVIOUS
<1>2. a = (a \div c) * c + (a % c) /\ a % c \in 0 .. c - 1 /\ a \div c \in Int
  BY <1>1, Z3
<1>3. QED
  BY <1>2, DivisionUnique

(* The hand goes on by one, also when the counter wraps.                    *)
LEMMA HandMoves ==
    ASSUME NEW n \in 0 .. IndexRange - 1
    PROVE  ((n + 1) % IndexRange) % CacheSize = After(n % CacheSize)
<1> DEFINE c == CacheSize
           m == IndexRange \div c
           q == n \div c
           k == n % c
<1>1. c \in Nat /\ c > 0 /\ IndexRange \in Nat /\ IndexRange > 0 /\ IndexRange % c = 0
  BY CacheAssumption
<1>2. IndexRange = m * c /\ m \in Int
  <2>1. IndexRange = m * c + (IndexRange % c) /\ m \in Int
    BY <1>1, Z3
  <2>2. QED
    BY <1>1, <2>1
<1>3. n = q * c + k /\ k \in 0 .. c - 1 /\ q \in Int /\ n \in Nat
  BY <1>1, Z3
<1> HIDE DEF c, m, q, k
<1>4. CASE n + 1 = IndexRange
  <2>1. (n + 1) % IndexRange = 0
    <3>1. \A a \in Nat : a > 0 => a % a = 0
      BY Z3
    <3>2. QED
      BY <1>1, <1>4, <3>1
  <2>2. 0 % c = 0
    BY <1>1, Z3
  <2>3. k = c - 1
    <3>1. q * c + k = (m - 1) * c + (c - 1)
      <4>1. (m - 1) * c = m * c - c
        BY <1>1, <1>2, Z3
      <4>2. QED
        BY <1>1, <1>2, <1>3, <1>4, <4>1
    <3>2. c - 1 \in 0 .. c - 1 /\ m - 1 \in Int
      BY <1>1, <1>2
    <3>3. \A d, e \in Int, r, t \in 0 .. c - 1 : d * c + r = e * c + t => r = t
      BY <1>1, DivisionUnique
    <3> DEFINE d == m - 1
               t == c - 1
    <3> HIDE DEF d, t
    <3>4. q * c + k = d * c + t /\ d \in Int /\ t \in 0 .. c - 1
      BY <3>1, <3>2 DEF d, t
    <3>5. k = t
      BY <1>3, <3>3, <3>4
    <3>6. QED
      BY <3>5 DEF t
  <2>4. QED
    BY <2>1, <2>2, <2>3 DEF After, c, k
<1>5. CASE n + 1 < IndexRange
  <2>1. (n + 1) % IndexRange = n + 1
    <3>1. \A a, b \in Nat : a < b => a % b = a
      BY Z3
    <3>2. QED
      BY <1>1, <1>3, <1>5, <3>1
  <2>2. CASE k = c - 1
    <3>1. n + 1 = (q + 1) * c + 0
      <4>1. (q + 1) * c = q * c + c
        BY <1>1, <1>3, Z3
      <4>2. QED
        BY <1>1, <1>3, <2>2, <4>1
    <3>2. (n + 1) % c = 0
      BY <1>1, <1>3, <3>1, Remainder
    <3>3. QED
      BY <2>1, <2>2, <3>2 DEF After, c, k
  <2>3. CASE k # c - 1
    <3>1. n + 1 = q * c + (k + 1) /\ k + 1 \in 0 .. c - 1
      BY <1>1, <1>3, <2>3
    <3>2. (n + 1) % c = k + 1
      BY <1>1, <1>3, <3>1, Remainder
    <3>3. QED
      BY <2>1, <2>3, <3>2 DEF After, c, k
  <2>4. QED
    BY <2>2, <2>3
<1>6. QED
  BY <1>1, <1>3, <1>4, <1>5

(* One more name: the others stay where they are, or the first of a full    *)
(* ring is where the new one goes.                                          *)
LEMMA BehindMoves ==
    ASSUME NEW k \in Entry, NEW n \in 0 .. CacheSize
    PROVE  /\ n < CacheSize =>
                 /\ \A j \in 1 .. n : /\ Behind(After(k), n + 1, j) = Behind(k, n, j)
                                      /\ Behind(k, n, j) # k
                 /\ Behind(After(k), n + 1, n + 1) = k
           /\ n = CacheSize =>
                 /\ \A j \in 1 .. n - 1 : /\ Behind(After(k), n, j) = Behind(k, n, j + 1)
                                          /\ Behind(k, n, j + 1) # k
                 /\ Behind(After(k), n, n) = k /\ Behind(k, n, 1) = k
           /\ \A j \in 1 .. n : Behind(k, n, j) \in Entry
  BY CacheAssumption DEF Behind, After, Entry

(* The names that are remembered: the new one last, the oldest forgotten if *)
(* there are more than the ring holds.                                      *)
LEMMA RecentNames ==
    ASSUME NEW s \in Seq(Hosts), Len(s) <= CacheSize, NEW host \in Hosts
    PROVE  LET t == LastOf(Append(s, host))
           IN  /\ Len(s) < CacheSize =>
                     /\ Len(t) = Len(s) + 1 /\ t[Len(s) + 1] = host
                     /\ \A j \in 1 .. Len(s) : t[j] = s[j]
               /\ Len(s) = CacheSize =>
                     /\ Len(t) = Len(s) /\ t[Len(s)] = host
                     /\ \A j \in 1 .. Len(s) - 1 : t[j] = s[j + 1]
<1> DEFINE a == Append(s, host)
<1>1. /\ a \in Seq(Hosts) /\ Len(a) = Len(s) + 1 /\ a # <<>> /\ a[Len(s) + 1] = host
      /\ \A j \in 1 .. Len(s) : a[j] = s[j]
  OBVIOUS
<1>2. CacheSize \in Nat /\ CacheSize > 0 /\ Len(s) \in Nat
  BY CacheAssumption
<1> HIDE DEF a
<1>3. Len(Tail(a)) = Len(s) /\ \A j \in 1 .. Len(s) : Tail(a)[j] = a[j + 1]
  BY <1>1, <1>2
<1>4. LastOf(a) = IF Len(s) + 1 > CacheSize THEN Tail(a) ELSE a
  BY <1>1 DEF LastOf
<1>5. CASE Len(s) < CacheSize
  BY <1>1, <1>2, <1>4, <1>5 DEF a
<1>6. CASE Len(s) = CacheSize
  <2>1. LastOf(a) = Tail(a)
    BY <1>2, <1>4, <1>6
  <2>2. \A j \in 1 .. Len(s) - 1 : j + 1 \in 1 .. Len(s) /\ j \in 1 .. Len(s)
    BY <1>2
  <2>3. Len(s) \in 1 .. Len(s)
    BY <1>2, <1>6
  <2>4. QED
    BY <1>1, <1>2, <1>3, <1>6, <2>1, <2>2, <2>3 DEF a
<1>7. QED
  BY <1>2, <1>5, <1>6

(* add_cache writes where the hand points.                                  *)
LEMMA RingAdd ==
    ASSUME DnsTypeOK, RingInv, NEW host \in Hosts, Miss(host)
    PROVE  RingInv'
<1> DEFINE n == Len(recent)
           k == Hand
<1>1. /\ index \in 0 .. IndexRange - 1 /\ index \in Nat
      /\ recent \in Seq(Hosts) /\ n <= CacheSize
      /\ cache \in [Entry -> Centry] /\ n \in 0 .. CacheSize
  BY CacheAssumption DEF DnsTypeOK
<1>2. k \in Entry
  BY <1>1, CounterInRange DEF Hand
<1>3. /\ answer'.name = host /\ cache' = [cache EXCEPT ![k] = answer']
      /\ index' = (index + 1) % IndexRange /\ recent' = LastOf(Append(recent, host))
  BY DEF Miss, AddCache, Hand
<1>4. Hand' = After(k)
  BY <1>1, <1>3, HandMoves DEF Hand
<1>5. \A i \in Entry : cache'[i] = IF i = k THEN answer' ELSE cache[i]
  BY <1>1, <1>2, <1>3
<1> HIDE DEF k
<1>6. /\ \A j \in 1 .. n : cache[Behind(k, n, j)].name = recent[j] /\ Behind(k, n, j) \in Entry
      /\ \A i \in Entry : cache[i].name # NoHost => \E j \in 1 .. n : i = Behind(k, n, j)
  BY <1>1, <1>2, BehindMoves DEF RingInv, Ring, k
<1>7. CASE n < CacheSize
  <2>1. /\ Len(recent') = n + 1 /\ recent'[n + 1] = host
        /\ \A j \in 1 .. n : recent'[j] = recent[j]
    BY <1>1, <1>3, <1>7, RecentNames
  <2>2. /\ \A j \in 1 .. n : /\ Behind(After(k), n + 1, j) = Behind(k, n, j)
                             /\ Behind(k, n, j) # k
        /\ Behind(After(k), n + 1, n + 1) = k
    BY <1>1, <1>2, <1>7, BehindMoves
  <2> HIDE DEF n
  <2>3. \A j \in 1 .. n + 1 : j = n + 1 \/ j \in 1 .. n
    BY <1>1
  <2>4. \A j \in 1 .. n + 1 : cache'[Behind(After(k), n + 1, j)].name = recent'[j]
    BY <1>2, <1>3, <1>5, <1>6, <2>1, <2>2, <2>3
  <2>5. ASSUME NEW i \in Entry, cache'[i].name # NoHost
        PROVE  \E j \in 1 .. n + 1 : i = Behind(After(k), n + 1, j)
    <3>1. CASE i = k
      <4>1. n + 1 \in 1 .. n + 1
        BY <1>1
      <4>2. QED
        BY <2>2, <3>1, <4>1
    <3>2. CASE i # k
      <4>1. PICK j \in 1 .. n : i = Behind(k, n, j)
        BY <1>5, <1>6, <2>5, <3>2
      <4>2. j \in 1 .. n + 1
        BY <1>1
      <4>3. QED
        BY <2>2, <4>1, <4>2
    <3>3. QED
      BY <3>1, <3>2
  <2>6. QED
    BY <1>4, <2>1, <2>4, <2>5 DEF RingInv, Ring
<1>8. CASE n = CacheSize
  <2>1. /\ Len(recent') = n /\ recent'[n] = host
        /\ \A j \in 1 .. n - 1 : recent'[j] = recent[j + 1]
    BY <1>1, <1>3, <1>8, RecentNames
  <2>2. /\ \A j \in 1 .. n - 1 : /\ Behind(After(k), n, j) = Behind(k, n, j + 1)
                                 /\ Behind(k, n, j + 1) # k
        /\ Behind(After(k), n, n) = k /\ Behind(k, n, 1) = k
    BY <1>1, <1>2, <1>8, BehindMoves
  <2> HIDE DEF n
  <2>3. n \in 1 .. n /\ \A j \in 1 .. n : j = n \/ (j \in 1 .. n - 1 /\ j + 1 \in 1 .. n)
    BY <1>1, <1>8, CacheAssumption
  <2>4. \A j \in 1 .. n : cache'[Behind(After(k), n, j)].name = recent'[j]
    BY <1>2, <1>3, <1>5, <1>6, <2>1, <2>2, <2>3
  <2>5. ASSUME NEW i \in Entry, cache'[i].name # NoHost
        PROVE  \E j \in 1 .. n : i = Behind(After(k), n, j)
    <3>1. CASE i = k
      BY <2>2, <2>3, <3>1
    <3>2. CASE i # k
      <4>1. PICK j \in 1 .. n : i = Behind(k, n, j)
        BY <1>5, <1>6, <2>5, <3>2
      <4>2. j - 1 \in 1 .. n - 1 /\ j - 1 + 1 = j
        BY <1>1, <2>2, <3>2, <4>1
      <4>3. i = Behind(After(k), n, j - 1) /\ j - 1 \in 1 .. n
        BY <1>1, <2>2, <4>1, <4>2
      <4>4. QED
        BY <4>3
    <3>3. QED
      BY <3>1, <3>2
  <2>6. QED
    BY <1>4, <2>1, <2>4, <2>5 DEF RingInv, Ring
<1> HIDE DEF n
<1>9. n < CacheSize \/ n = CacheSize
  BY <1>1, CacheAssumption
<1>10. QED
  BY <1>7, <1>8, <1>9

(* Every step keeps the ring: only a miss adds a name, and the end of a     *)
(* pass empties it.                                                         *)
LEMMA RingNext ==
    ASSUME DnsTypeOK, RingInv, [Next]_vars
    PROVE  RingInv'
<1>1. CASE UNCHANGED <<cache, index, recent>>
  BY <1>1 DEF RingInv, Ring, Hand
<1>2. ASSUME NEW host \in Wanted, Miss(host) PROVE RingInv'
  <2>1. host \in Hosts
    BY <1>2, CacheAssumption DEF Wanted, DnsTypeOK, Phase
  <2>2. QED
    BY <1>2, <2>1, RingAdd
<1>3. CASE ResultsSent
  BY <1>3 DEF ResultsSent, RingInv, Ring, Flushed, EmptyEntry
<1>4. QED
  BY <1>1, <1>2, <1>3
  DEF Next, vars, Hit, ResolveAgain, JobsFail, JobsFetched, TasksProcessed

(* The counters stay in the ring, no name is in it twice, and it holds the  *)
(* names added last since the flush, as many as it has entries, though the  *)
(* unsigned char wraps on its own and no flush resets it                    *)
(* (RingHoldsLastNames).                                                    *)
THEOREM DnsRingHoldsLastNames == Spec => []RingHoldsLastNames
<1>1. Init => RingInv
  BY DEF Init, RingInv, Ring, Flushed, EmptyEntry
<1>2. DnsInv /\ RingInv => RingHoldsLastNames
  <2> SUFFICES ASSUME DnsInv, RingInv PROVE RingHoldsLastNames
    OBVIOUS
  <2>1. DnsTypeOK /\ OneEntryPerName /\ recent \in Seq(Hosts) /\ Len(recent) \in 0 .. CacheSize
    BY CacheAssumption DEF DnsInv, DnsTypeOK
  <2>2. DOMAIN recent = 1 .. Len(recent) /\ \A j \in 1 .. Len(recent) : recent[j] # NoHost
    <3>1. DOMAIN recent = 1 .. Len(recent)
      BY <2>1
    <3>2. \A j \in 1 .. Len(recent) : recent[j] \in Hosts
      BY <2>1
    <3>3. NoHost \notin Hosts
      BY CacheAssumption
    <3>4. QED
      BY <3>1, <3>2, <3>3
  <2>3. Hand \in Entry
    <3>1. index \in Nat
      BY CacheAssumption DEF DnsInv, DnsTypeOK
    <3>2. QED
      BY <3>1, CounterInRange DEF Hand
  <2>4. \A j \in 1 .. Len(recent) : Behind(Hand, Len(recent), j) \in Entry
    BY <2>1, <2>3, BehindMoves
  <2>5. LastNamesCached
    <3>1. /\ \A j \in 1 .. Len(recent) : cache[Behind(Hand, Len(recent), j)].name = recent[j]
          /\ \A i \in Entry : cache[i].name # NoHost =>
                \E j \in 1 .. Len(recent) : i = Behind(Hand, Len(recent), j)
      BY DEF RingInv, Ring
    <3>2. ASSUME NEW i \in Entry, cache[i].name # NoHost
          PROVE  cache[i].name \in {recent[j] : j \in DOMAIN recent}
      <4>1. PICK j \in 1 .. Len(recent) : i = Behind(Hand, Len(recent), j)
        BY <3>1, <3>2
      <4>2. cache[i].name = recent[j]
        BY <3>1, <4>1
      <4>3. QED
        BY <2>2, <4>2
    <3>3. ASSUME NEW j \in DOMAIN recent
          PROVE  \E i \in Entry : cache[i].name = recent[j] /\ recent[j] # NoHost
      BY <2>2, <2>4, <3>1
    <3>4. QED
      BY <3>2, <3>3 DEF LastNamesCached
  <2>6. QED
    BY <2>1, <2>5 DEF RingHoldsLastNames
<1>3. DnsInv /\ RingInv /\ [Next]_vars => DnsInv' /\ RingInv'
  BY DnsNextInv, RingNext DEF DnsInv
<1>4. QED
  BY <1>1, <1>2, <1>3, DnsInitInv, PTL DEF Spec

-----------------------------------------------------------------------------
(* Resolver.                                                               *)


Places == {"gethostbyname", "next_lookup", "send", "next_server", "end_query", "unlink",
           "select", "write", "readtcp", "readudp", "timeouts", "done"}

(* The steps of the loop, in which the query has been sent.                 *)
Phases == {"select", "write", "readtcp", "readudp", "timeouts"}

(* Why a query ends without an answer.                                      *)
Reason == {"unreachable", "timeout"}

Queries == [qid : Nat, of : 0 .. NDomains, try : 0 .. Tries - 1, server : 0 .. NServers,
            skip : SUBSET Servers, tcp : BOOLEAN, armed : BOOLEAN, error : Reason,
            sends : [Servers -> Nat]]

Messages == [qid : Nat, kind : Kind, of : Nat] \cup {Error}

Sockets == [udp : Fds \cup {Closed}, tcp : Fds \cup {Closed}, queue : Seq(Nat)]

ControlType ==
    /\ setting \in Settings /\ pc \in Places /\ back \in Phases /\ at \in 1 .. NServers + 1
    /\ ready \in [read : SUBSET Fds, write : SUBSET Fds]

SearchType ==
    /\ name \in Name
    /\ squery \in [as_is : BOOLEAN, next_domain : Nat, status_as_is : {"none", "no_name"}]
    /\ tried \in Seq(0 .. NDomains)

NetType ==
    /\ servers \in [Servers -> Sockets]
    /\ inbox \in [Fds \cup {Closed} -> SUBSET Messages]
    /\ asked \subseteq [fd : Fds \cup {Closed}, qid : Nat, of : Nat]

(* A query that runs has an id and a server.                                *)
Live == query.qid # 0

QueryType ==
    /\ query \in Queries /\ next_id \in Nat \ {0}
    /\ IF Live THEN query.server \in Servers ELSE query = NoQuery

(* Where the callback has been run: where no query is left.                 *)
CallsInv ==
    /\ calls \in {0, 1} /\ (calls = 0 <=> ip = Waiting)
    /\ ip \in {Waiting, Failed} \cup {Address(c) : c \in 0 .. Stray}
    /\ pc \in {"gethostbyname", "next_lookup"} => ~Live /\ calls = 0
    /\ pc \in {"send", "next_server", "end_query"} => Live /\ calls = 0
    /\ pc \in {"unlink", "done"} => ~Live /\ calls = 1
    /\ pc \in Phases => (Live <=> calls = 0)

(* How far a search is: the name as it is first and then the domains, or    *)
(* the domains first.                                                       *)
AsIsFirst ==
    /\ squery.next_domain \in 1 .. NDomains + 1 /\ Len(tried) = squery.next_domain
    /\ \A k \in 1 .. Len(tried) : tried[k] = k - 1
    /\ squery.as_is <=> squery.next_domain = 1
    /\ squery.as_is <=> squery.status_as_is = "none"

DomainsFirst ==
    /\ squery.next_domain \in 2 .. NDomains + 1 /\ squery.status_as_is = "none"
    /\ \A k \in 1 .. Len(tried) : tried[k] = IF k = NDomains + 1 THEN 0 ELSE k
    /\ IF squery.as_is THEN squery.next_domain = NDomains + 1 /\ Len(tried) = NDomains + 1
                       ELSE Len(tried) = squery.next_domain - 1

SearchInv ==
    /\ \A i, j \in 1 .. Len(tried) : i # j => tried[i] # tried[j]
    /\ Live =>
         /\ tried # <<>> /\ Last(tried) = query.of
         /\ IF Single THEN Len(tried) = 1 /\ tried[1] = 0 ELSE AsIsFirst \/ DomainsFirst

(* What ends a query: an answer to its question, or its reason.             *)
StatusInv ==
    pc = "end_query" =>
        status.is \in Kind \cup Reason /\ status.of \in 0 .. NDomains /\ status.of = query.of

(* In the loop the query's server has an open socket.                       *)
OpenInv ==
    pc \in Phases =>
        IF Live THEN IF query.tcp THEN servers[Current].tcp # Closed
                                  ELSE servers[Current].udp # Closed
        ELSE servers = ClosedAll

SkipInv == Live /\ pc \in Phases \cup {"send"} => Current \notin query.skip

(* The servers before n have been asked in this round, those from n on in   *)
(* the rounds before only; over TCP there is one round more.                *)
AskedBefore(n) ==
    \A s \in Servers :
        LET times == IF s < n THEN query.try + 1 ELSE query.try
        IN  IF query.tcp THEN query.sends[s] <= (IF s < n THEN Tries + 1 ELSE Tries)
            ELSE query.sends[s] <= times /\ (s \in query.skip \/ query.sends[s] = times)

RoundInv ==
    /\ Live /\ pc = "send" => AskedBefore(Current)
    /\ Live /\ pc \in Phases \cup {"next_server"} => AskedBefore(Current + 1)
    /\ pc = "end_query" =>
         /\ \A s \in Servers : query.sends[s] <= Tries + 1
         /\ status.is \in Reason /\ ~query.tcp =>
              \A s \in Servers : s \in query.skip \/ query.sends[s] = Tries

TypeInv == ControlType /\ SearchType /\ NetType /\ QueryType

ResolverInv ==
    /\ TypeInv /\ CallsInv /\ SearchInv /\ StatusInv /\ OpenInv /\ SkipInv /\ RoundInv

-----------------------------------------------------------------------------
(* The numbers of a setting.                                                *)
LEMMA SettingFacts ==
    ASSUME ResolverAssumption, setting \in Settings
    PROVE  /\ NServers \in Nat /\ NServers > 0 /\ Tries \in Nat /\ Tries > 0
           /\ NDomains \in Nat /\ Servers = 1 .. NServers
           /\ setting.names \subseteq Name /\ setting.kinds \subseteq Kind
  BY DEF ResolverAssumption, NServers, Tries, NDomains, Servers

(* The setting a step keeps, and everything that depends on it alone.       *)
LEMMA SettingStays ==
    ASSUME UNCHANGED env
    PROVE  /\ UNCHANGED <<setting, name, NServers, Tries, NDomains, Servers, Fds, NoQuery>>
           /\ UNCHANGED <<ClosedAll, Single, Candidates, Queries, Sockets, Stray>>
  BY DEF env, NServers, Tries, NDomains, Servers, Fds, NoQuery, ClosedAll, Single, Candidates,
         Queries, Sockets, Stray

(* The lowest of some numbers is one of them.                               *)
LEMMA LowestIsLeast ==
    ASSUME NEW S \in SUBSET Nat, S # {}
    PROVE  LowestOf(S) \in S /\ \A t \in S : LowestOf(S) <= t
<1>1. PICK m \in S : \A y \in S : ~(<<y, m>> \in OpToRel(<, Nat))
  BY NatLessThanWellFounded, WFMin
<1>2. \A y \in S : m <= y
  <2>1. SUFFICES ASSUME NEW y \in S PROVE ~(y < m)
    BY SMT
  <2>2. <<y, m>> \in Nat \X Nat
    OBVIOUS
  <2>3. y < m => <<y, m>> \in OpToRel(<, Nat)
    BY <2>2, Zenon DEF OpToRel
  <2>4. QED
    BY <1>1, <2>3
<1>3. QED
  BY <1>2, Zenon DEF LowestOf

(* As many values as arguments at most.                                     *)
LEMMA ImageSize ==
    ASSUME NEW S, NEW f, IsFiniteSet(S)
    PROVE  /\ IsFiniteSet({f[x] : x \in S})
           /\ Cardinality({f[x] : x \in S}) <= Cardinality(S)
           /\ Cardinality({f[x] : x \in S}) \in Nat
<1> DEFINE T == {f[x] : x \in S}
           g == [x \in S |-> f[x]]
<1>1. g \in Surjection(S, T)
  BY DEF Surjection
<1>2. QED
  BY <1>1, FS_Surjection, FS_CardinalityType

(* While a server lacks a socket a descriptor is free: the servers have two *)
(* sockets each, and there are two descriptors for each.                    *)
LEMMA DescriptorLeft ==
    ASSUME ResolverAssumption, setting \in Settings, servers \in [Servers -> Sockets],
           NEW s \in Servers, servers[s].udp = Closed \/ servers[s].tcp = Closed
    PROVE  Fds \ Used(servers) # {}
<1> DEFINE udp == [t \in Servers |-> servers[t].udp]
           tcp == [t \in Servers |-> servers[t].tcp]
           Others == Servers \ {s}
           U == {udp[t] : t \in Servers}
           T == {tcp[t] : t \in Servers}
           UO == {udp[t] : t \in Others}
           TO == {tcp[t] : t \in Others}
<1>1. IsFiniteSet(Servers) /\ Cardinality(Servers) = NServers /\ NServers \in Nat /\ NServers > 0
  <2>1. NServers \in Nat /\ NServers > 0 /\ Servers = 1 .. NServers
    BY SettingFacts DEF Servers
  <2>2. IsFiniteSet(1 .. NServers) /\ Cardinality(1 .. NServers) = NServers
    BY <2>1, FS_Interval
  <2>3. QED
    BY <2>1, <2>2
<1>2. IsFiniteSet(Others) /\ Cardinality(Others) = NServers - 1
  BY <1>1, FS_RemoveElement
<1>3. IsFiniteSet(U) /\ Cardinality(U) <= NServers /\ Cardinality(U) \in Nat
  BY <1>1, ImageSize
<1>4. IsFiniteSet(T) /\ Cardinality(T) <= NServers /\ Cardinality(T) \in Nat
  BY <1>1, ImageSize
<1>5. IsFiniteSet(UO) /\ Cardinality(UO) <= NServers - 1 /\ Cardinality(UO) \in Nat
  <2> HIDE DEF Others, udp
  <2>1. IsFiniteSet(UO) /\ Cardinality(UO) <= Cardinality(Others) /\ Cardinality(UO) \in Nat
    BY <1>2, ImageSize
  <2>2. QED
    BY <1>2, <2>1
<1>6. IsFiniteSet(TO) /\ Cardinality(TO) <= NServers - 1 /\ Cardinality(TO) \in Nat
  <2> HIDE DEF Others, tcp
  <2>1. IsFiniteSet(TO) /\ Cardinality(TO) <= Cardinality(Others) /\ Cardinality(TO) \in Nat
    BY <1>2, ImageSize
  <2>2. QED
    BY <1>2, <2>1
<1>7. \E A, B : /\ IsFiniteSet(A) /\ IsFiniteSet(B) /\ Cardinality(A) \in Nat
                /\ Cardinality(B) \in Nat /\ Cardinality(A) + Cardinality(B) < 2 * NServers
                /\ Used(servers) \ {Closed} \subseteq A \cup B
  <2>1. CASE servers[s].udp = Closed
    <3>1. Used(servers) \ {Closed} \subseteq UO \cup T
      BY <2>1 DEF Used
    <3>2. Cardinality(UO) + Cardinality(T) < 2 * NServers
      BY <1>1, <1>4, <1>5
    <3>3. QED
      BY <1>4, <1>5, <3>1, <3>2
  <2>2. CASE servers[s].tcp = Closed
    <3>1. Used(servers) \ {Closed} \subseteq U \cup TO
      BY <2>2 DEF Used
    <3>2. Cardinality(U) + Cardinality(TO) < 2 * NServers
      BY <1>1, <1>3, <1>6
    <3>3. QED
      BY <1>3, <1>6, <3>1, <3>2
  <2>3. QED
    BY <2>1, <2>2
<1>8. PICK A, B : /\ IsFiniteSet(A) /\ IsFiniteSet(B) /\ Cardinality(A) \in Nat
                  /\ Cardinality(B) \in Nat /\ Cardinality(A) + Cardinality(B) < 2 * NServers
                  /\ Used(servers) \ {Closed} \subseteq A \cup B
  BY <1>7
<1>9. /\ IsFiniteSet(A \cup B) /\ Cardinality(A \cap B) \in Nat
      /\ Cardinality(A \cup B) = Cardinality(A) + Cardinality(B) - Cardinality(A \cap B)
  BY <1>8, FS_Union, FS_Intersection, FS_CardinalityType
<1>10. IsFiniteSet(Fds) /\ Cardinality(Fds) = 2 * NServers
  BY <1>1, FS_Interval DEF Fds
<1>11. ~(Fds \subseteq A \cup B)
  <2>1. Fds \subseteq A \cup B => Cardinality(Fds) <= Cardinality(A \cup B)
    BY <1>9, FS_Subset
  <2>2. QED
    BY <1>1, <1>8, <1>9, <1>10, <2>1
<1>12. Closed \notin Fds
  BY <1>1 DEF Closed, Fds
<1>13. QED
  BY <1>8, <1>11, <1>12

(* The kernel has a descriptor for a socket that is opened.                 *)
LEMMA FreeDescriptor ==
    ASSUME ResolverAssumption, setting \in Settings, servers \in [Servers -> Sockets],
           NEW s \in Servers, servers[s].udp = Closed \/ servers[s].tcp = Closed
    PROVE  LowestFree(servers) \in Fds /\ LowestFree(servers) # Closed
<1>1. LowestFree(servers) = LowestOf(Fds \ Used(servers))
  BY Zenon DEF LowestFree, LowestOf
<1>2. Fds \subseteq Nat /\ Closed \notin Fds
  BY SettingFacts DEF Fds, Closed
<1>3. QED
  BY <1>1, <1>2, LowestIsLeast, DescriptorLeft

-----------------------------------------------------------------------------
(* The invariant holds before the look-up.                                  *)
LEMMA InitHolds == ResolverAssumption /\ ResolverInit => ResolverInv
<1> SUFFICES ASSUME ResolverAssumption, ResolverInit PROVE ResolverInv
  OBVIOUS
<1>1. /\ setting \in Settings /\ pc = "gethostbyname" /\ back = "select" /\ at = 1 /\ name \in Name
      /\ query = NoQuery /\ ip = Waiting /\ calls = 0 /\ tried = <<>> /\ next_id = 1
      /\ ready = NothingReady /\ status = [is |-> "none", of |-> 0]
      /\ squery = [as_is |-> FALSE, next_domain |-> 0, status_as_is |-> "none"]
  BY SettingFacts DEF ResolverInit
<1>2. /\ NServers \in Nat /\ NServers > 0 /\ Tries \in Nat /\ Tries > 0
      /\ NDomains \in Nat /\ Servers = 1 .. NServers
  BY <1>1, SettingFacts
<1>3. ControlType
  BY <1>1, <1>2 DEF ControlType, NothingReady, Places, Phases
<1>4. SearchType
  BY <1>1 DEF SearchType
<1>5. NetType
  BY DEF ResolverInit, NetType, Sockets
<1>6. QueryType /\ ~Live
  BY <1>1, <1>2 DEF QueryType, Queries, Live, NoQuery, Reason
<1>7. CallsInv
  BY <1>1, <1>6 DEF CallsInv, Phases
<1>8. SearchInv
  BY <1>1, <1>6 DEF SearchInv
<1>9. QED
  BY <1>1, <1>3, <1>4, <1>5, <1>6, <1>7, <1>8
  DEF ResolverInv, TypeInv, StatusInv, OpenInv, SkipInv, RoundInv, Phases

-----------------------------------------------------------------------------
(* In the loop a query stays where it is, or is moved on: what it is, where *)
(* it was sent and how often do not change, and it is not at a server that  *)
(* has failed it.                                                           *)
LEMMA QueryGoesOn ==
    ASSUME ResolverAssumption, ResolverInv, UNCHANGED env, pc \in Phases, Live,
           UNCHANGED <<squery, status, next_id, ip, calls, tried>>,
           ControlType', NetType', query' \in Queries,
           /\ query'.qid = query.qid /\ query'.of = query.of /\ query'.try = query.try
           /\ query'.server = query.server /\ query'.tcp = query.tcp
           /\ query'.sends = query.sends /\ query.skip \subseteq query'.skip,
           \/ pc' = "next_server"
           \/ /\ pc' \in Phases /\ query.server \notin query'.skip
              /\ servers'[query.server].udp = servers[query.server].udp
              /\ servers'[query.server].tcp = servers[query.server].tcp
    PROVE  ResolverInv'
<1>1. /\ UNCHANGED <<setting, name, NServers, Tries, NDomains, Servers, Fds, NoQuery, ClosedAll>>
      /\ UNCHANGED <<Single, Candidates, Queries, Sockets, Stray>>
  BY SettingStays
<1>2. Live'
  BY DEF Live
<1>3. SearchType'
  BY <1>1 DEF ResolverInv, TypeInv, SearchType
<1>4. QueryType'
  BY <1>1, <1>2 DEF ResolverInv, TypeInv, QueryType
<1>5. CallsInv'
  BY <1>1, <1>2 DEF ResolverInv, CallsInv, Phases, Live
<1>6. SearchInv'
  <2>1. query'.of = query.of /\ UNCHANGED <<squery, tried, Single, NDomains>>
    BY <1>1
  <2>2. QED
    BY <1>2, <2>1 DEF ResolverInv, SearchInv, AsIsFirst, DomainsFirst
<1>7. StatusInv' /\ SkipInv' /\ OpenInv'
  BY <1>1, <1>2 DEF ResolverInv, StatusInv, SkipInv, OpenInv, Current, Phases
<1>8. RoundInv'
  <2>1. AskedBefore(Current + 1)
    BY DEF ResolverInv, RoundInv
  <2>2. AskedBefore(Current + 1)'
    BY <1>1, <2>1 DEF AskedBefore, Current
  <2>3. pc' \in Phases \cup {"next_server"}
    OBVIOUS
  <2>4. QED
    BY <2>2, <2>3 DEF RoundInv, Phases
<1>9. QED
  BY <1>3, <1>4, <1>5, <1>6, <1>7, <1>8 DEF ResolverInv, TypeInv

(* Without a query.                                                         *)
LEMMA NoQueryLeft ==
    ASSUME ResolverAssumption, ResolverInv, UNCHANGED env,
           UNCHANGED <<squery, next_id, tried>>, query' = NoQuery,
           ControlType', NetType', CallsInv',
           pc' \notin {"send", "next_server", "end_query"},
           pc' \in Phases => servers' = ClosedAll
    PROVE  ResolverInv'
<1>1. /\ UNCHANGED <<setting, name, NServers, Tries, NDomains, Servers, Fds, NoQuery, ClosedAll>>
      /\ UNCHANGED <<Single, Candidates, Queries, Sockets, Stray>>
  BY SettingStays
<1>2. ~Live'
  BY DEF Live, NoQuery
<1>3. SearchType'
  BY <1>1 DEF ResolverInv, TypeInv, SearchType
<1>4. QueryType'
  <2>1. NoQuery \in Queries
    BY SettingFacts DEF ResolverInv, TypeInv, ControlType, Queries, NoQuery, Reason
  <2>2. QED
    BY <1>1, <1>2, <2>1 DEF ResolverInv, TypeInv, QueryType
<1>5. SearchInv'
  BY <1>2 DEF ResolverInv, SearchInv
<1>6. StatusInv' /\ SkipInv' /\ OpenInv' /\ RoundInv'
  BY <1>1, <1>2 DEF StatusInv, SkipInv, OpenInv, RoundInv
<1>7. QED
  BY <1>3, <1>4, <1>5, <1>6 DEF ResolverInv, TypeInv

(* A step of the loop that moves no query on.                               *)
LEMMA LoopGoesOn ==
    ASSUME ResolverAssumption, ResolverInv, UNCHANGED env, pc \in Phases, pc' \in Phases,
           UNCHANGED <<squery, query, status, next_id, ip, calls, tried>>,
           ControlType', NetType',
           \A s \in Servers : /\ servers'[s].udp = servers[s].udp
                              /\ servers'[s].tcp = servers[s].tcp,
           servers = ClosedAll => servers' = servers
    PROVE  ResolverInv'
<1>1. CASE Live
  <2>1. query \in Queries /\ query.server \in Servers /\ query.server \notin query.skip
    BY <1>1 DEF ResolverInv, TypeInv, QueryType, SkipInv, Current
  <2>2. QED
    BY <1>1, <2>1, SettingStays, QueryGoesOn
<1>2. CASE ~Live
  <2>1. query = NoQuery /\ servers' = ClosedAll
    BY <1>2 DEF ResolverInv, TypeInv, QueryType, OpenInv
  <2>2. CallsInv'
    BY SettingStays DEF ResolverInv, CallsInv, Phases, Live
  <2>3. QED
    BY <2>1, <2>2, NoQueryLeft DEF Phases
<1>3. QED
  BY <1>1, <1>2

(* A query runs or is none.                                                 *)
LEMMA QueryRuns == QueryType => (query # NoQuery <=> Live)
  BY DEF QueryType, Live, NoQuery

(* What waits at closed sockets is forgotten.                               *)
LEMMA ForgetKeeps ==
    ASSUME NetType, UNCHANGED env, servers' \in [Servers -> Sockets], ForgetClosed(servers')
    PROVE  NetType'
<1>1. UNCHANGED <<Servers, Fds, Sockets>>
  BY SettingStays
<1>2. inbox' \in [Fds \cup {Closed} -> SUBSET Messages]
  BY DEF NetType, ForgetClosed
<1>3. asked' \subseteq [fd : Fds \cup {Closed}, qid : Nat, of : Nat]
  BY DEF NetType, ForgetClosed
<1>4. QED
  BY <1>1, <1>2, <1>3 DEF NetType, Messages, Error

(* After an error no query stays at the server that was closed.             *)
LEMMA HandleErrorKeeps ==
    ASSUME ResolverAssumption, ResolverInv, UNCHANGED env, pc \in Phases,
           NEW s \in Servers, HandleError(s), at' \in 1 .. NServers + 1,
           UNCHANGED <<back, ready, squery, status, next_id, ip, calls, tried>>
    PROVE  ResolverInv'
<1>1. /\ servers' = [servers EXCEPT ![s] = [udp |-> Closed, tcp |-> Closed, queue |-> <<>>]]
      /\ ForgetClosed(servers')
      /\ IF query # NoQuery /\ query.server = s
         THEN pc' = "next_server" /\ query' = [query EXCEPT !.skip = @ \cup {s}]
         ELSE pc' = pc /\ query' = query
  BY DEF HandleError, CloseOne, Current
<1>2. /\ UNCHANGED <<setting, name, NServers, Tries, NDomains, Servers, Fds, NoQuery, ClosedAll>>
      /\ UNCHANGED <<Single, Candidates, Queries, Sockets, Stray>>
  BY SettingStays
<1>3. servers' \in [Servers -> Sockets]
  BY <1>1 DEF ResolverInv, TypeInv, NetType, Sockets
<1>4. NetType'
  BY <1>1, <1>3, ForgetKeeps DEF ResolverInv, TypeInv
<1>5. ControlType'
  BY <1>1, <1>2 DEF ResolverInv, TypeInv, ControlType, Places
<1>6. CASE Live
  <2>1. query \in Queries /\ query.server \in Servers /\ query # NoQuery
    BY <1>6, QueryRuns DEF ResolverInv, TypeInv, QueryType
  <2>2. CASE query.server = s
    <3>1. pc' = "next_server" /\ query' = [query EXCEPT !.skip = @ \cup {s}]
      BY <1>1, <2>1, <2>2
    <3>2. /\ query' \in Queries
          /\ query'.qid = query.qid /\ query'.of = query.of /\ query'.try = query.try
          /\ query'.server = query.server /\ query'.tcp = query.tcp
          /\ query'.sends = query.sends /\ query.skip \subseteq query'.skip
      BY <2>1, <3>1 DEF Queries
    <3>3. QED
      BY <1>4, <1>5, <1>6, <3>1, <3>2, QueryGoesOn
  <2>3. CASE query.server # s
    <3>1. pc' = pc /\ query' = query
      BY <1>1, <2>3
    <3>2. servers'[query.server] = servers[query.server]
      BY <1>1, <2>1, <2>3 DEF ResolverInv, TypeInv, NetType
    <3>3. query.server \notin query.skip
      BY <1>6 DEF ResolverInv, SkipInv, Current
    <3>4. QED
      BY <1>4, <1>5, <1>6, <2>1, <3>1, <3>2, <3>3, QueryGoesOn
  <2>4. QED
    BY <2>2, <2>3
<1>7. CASE ~Live
  <2>1. query = NoQuery /\ servers = ClosedAll
    BY <1>7 DEF ResolverInv, TypeInv, QueryType, OpenInv
  <2>2. pc' = pc /\ query' = NoQuery /\ servers' = ClosedAll
    BY <1>1, <2>1 DEF ClosedAll
  <2>3. CallsInv'
    BY <1>2, <1>7, <2>1, <2>2 DEF ResolverInv, CallsInv, Phases, Live
  <2>4. QED
    BY <1>4, <1>5, <2>2, <2>3, NoQueryLeft DEF Phases
<1>8. QED
  BY <1>6, <1>7

(* How often a server has been asked at most.                               *)
LEMMA SendsBounded ==
    ASSUME ResolverAssumption, ResolverInv, Live, pc \in Phases \cup {"next_server"}
    PROVE  \A s \in Servers : /\ query.sends[s] \in Nat /\ query.sends[s] <= Tries + 1
                              /\ ~query.tcp => query.sends[s] <= Tries
<1>1. AskedBefore(query.server + 1)
  BY DEF ResolverInv, RoundInv, Current
<1>2. Tries \in Nat /\ Tries > 0 /\ query.try \in 0 .. Tries - 1 /\ query.sends \in [Servers -> Nat]
  BY SettingFacts DEF ResolverInv, TypeInv, ControlType, QueryType, Queries
<1>3. TAKE s \in Servers
<1>4. CASE query.tcp
  <2>1. query.sends[s] <= IF s < query.server + 1 THEN Tries + 1 ELSE Tries
    BY <1>1, <1>4 DEF AskedBefore
  <2>2. QED
    BY <1>2, <1>4, <2>1
<1>5. CASE ~query.tcp
  <2>1. query.sends[s] <= IF s < query.server + 1 THEN query.try + 1 ELSE query.try
    BY <1>1, <1>5 DEF AskedBefore
  <2>2. QED
    BY <1>2, <1>5, <2>1
<1>6. QED
  BY <1>4, <1>5

(* An answer ends the query it is for, or moves it on.                      *)
LEMMA ProcessAnswerKeeps ==
    ASSUME ResolverAssumption, ResolverInv, UNCHANGED env, pc \in Phases,
           NEW s \in Servers, NEW packet \in [qid : Nat, kind : Kind, of : Nat],
           ProcessAnswer(s, packet), NetType', at' \in 1 .. NServers + 1,
           UNCHANGED <<back, ready, squery, next_id, servers, ip, calls, tried>>
    PROVE  ResolverInv'
<1>1. /\ UNCHANGED <<setting, name, NServers, Tries, NDomains, Servers, Fds, NoQuery, ClosedAll>>
      /\ UNCHANGED <<Single, Candidates, Queries, Sockets, Stray>>
  BY SettingStays
<1>2. ControlType' <=> pc' \in Places
  BY <1>1 DEF ResolverInv, TypeInv, ControlType
<1>3. Live => query \in Queries /\ query.server \in Servers /\ query.server \notin query.skip
  BY DEF ResolverInv, TypeInv, QueryType, SkipInv, Current
<1>4. IsForQuery(packet) => Live
  BY QueryRuns DEF ResolverInv, TypeInv, IsForQuery
<1>5. ASSUME pc' = pc, UNCHANGED <<query, status>> PROVE ResolverInv'
  <2>1. ControlType'
    BY <1>2, <1>5 DEF ResolverInv, TypeInv, ControlType
  <2>2. QED
    BY <1>1, <1>5, <2>1, LoopGoesOn
<1>6. ASSUME Live, pc' = "next_server", UNCHANGED <<query, status>> PROVE ResolverInv'
  <2>1. ControlType'
    BY <1>2, <1>6 DEF Places
  <2>2. QED
    BY <1>1, <1>3, <1>6, <2>1, QueryGoesOn
<1>7. ASSUME Live, ~query.tcp, pc' = "send", query' = [query EXCEPT !.tcp = TRUE], UNCHANGED status
      PROVE  ResolverInv'
  <2>1. /\ query' \in Queries /\ query'.tcp
        /\ query'.qid = query.qid /\ query'.of = query.of /\ query'.try = query.try
        /\ query'.server = query.server /\ query'.skip = query.skip
        /\ query'.sends = query.sends
    BY <1>3, <1>7 DEF Queries
  <2>2. Live'
    BY <1>7, <2>1 DEF Live
  <2>3. TypeInv'
    BY <1>1, <1>2, <1>3, <1>7, <2>1, <2>2
    DEF ResolverInv, TypeInv, SearchType, QueryType, Places
  <2>4. CallsInv'
    BY <1>1, <1>7, <2>2 DEF ResolverInv, CallsInv, Phases
  <2>5. SearchInv'
    BY <1>1, <1>7, <2>1, <2>2 DEF ResolverInv, SearchInv, AsIsFirst, DomainsFirst
  <2>6. StatusInv' /\ OpenInv'
    BY <1>7 DEF StatusInv, OpenInv, Phases
  <2>7. SkipInv'
    BY <1>3, <1>7, <2>1 DEF SkipInv, Current
  <2>8. RoundInv'
    <3>1. \A t \in Servers : query.sends[t] \in Nat /\ query.sends[t] <= Tries
      BY <1>7, SendsBounded
    <3>2. Tries \in Nat /\ query'.sends = query.sends /\ query'.tcp
          /\ UNCHANGED <<Servers, Tries>>
      BY <1>1, <2>1, SettingFacts DEF ResolverInv, TypeInv, ControlType
    <3>3. AskedBefore(Current)'
      <4>1. \A t \in Servers, n \in {Tries, Tries + 1} : query.sends[t] <= n
        BY <3>1, <3>2
      <4>2. QED
        BY <3>2, <4>1 DEF AskedBefore
    <3>4. QED
      BY <1>7, <3>3 DEF RoundInv, Phases
  <2>9. QED
    BY <2>3, <2>4, <2>5, <2>6, <2>7, <2>8 DEF ResolverInv
<1>8. ASSUME Live, pc' \in {pc, "next_server"}, query' = [query EXCEPT !.skip = @ \cup {s}],
             pc' = IF Current = s THEN "next_server" ELSE pc, UNCHANGED status
      PROVE  ResolverInv'
  <2>1. /\ query' \in Queries
        /\ query'.qid = query.qid /\ query'.of = query.of /\ query'.try = query.try
        /\ query'.server = query.server /\ query'.tcp = query.tcp
        /\ query'.sends = query.sends /\ query'.skip = query.skip \cup {s}
    BY <1>3, <1>8 DEF Queries
  <2>2. ControlType'
    BY <1>2, <1>8 DEF Places, ResolverInv, TypeInv, ControlType
  <2>3. pc' = "next_server" \/ (pc' \in Phases /\ query.server \notin query'.skip)
    BY <1>3, <1>8, <2>1 DEF Current
  <2>4. query.skip \subseteq query'.skip
    BY <2>1
  <2>5. QED
    BY <1>8, <2>1, <2>2, <2>3, <2>4, QueryGoesOn
<1>9. ASSUME Live, pc' = "end_query", UNCHANGED query, packet.of = query.of,
             status' = [is |-> packet.kind, of |-> packet.of]
      PROVE  ResolverInv'
  <2>1. Live' /\ status'.is \in Kind /\ status'.of = query.of
    BY <1>9 DEF Live
  <2>2. TypeInv'
    BY <1>1, <1>2, <1>3, <1>9, <2>1 DEF ResolverInv, TypeInv, SearchType, QueryType, Places
  <2>3. CallsInv'
    BY <1>1, <1>9, <2>1 DEF ResolverInv, CallsInv, Phases
  <2>4. SearchInv'
    BY <1>1, <1>9, <2>1 DEF ResolverInv, SearchInv, AsIsFirst, DomainsFirst
  <2>5. StatusInv' /\ OpenInv' /\ SkipInv'
    BY <1>1, <1>3, <1>9, <2>1 DEF StatusInv, OpenInv, SkipInv, Phases, Queries
  <2>6. RoundInv'
    <3>1. \A t \in Servers : query.sends[t] <= Tries + 1
      BY <1>9, SendsBounded
    <3>2. status'.is \notin Reason
      BY <2>1 DEF Kind, Reason
    <3>3. QED
      BY <1>1, <1>9, <3>1, <3>2 DEF RoundInv, Phases
  <2>7. QED
    BY <2>2, <2>3, <2>4, <2>5, <2>6 DEF ResolverInv
<1>10. QED
  BY <1>4, <1>5, <1>6, <1>7, <1>8, <1>9 DEF ProcessAnswer, Accepted, SameQuestions, EndWith

-----------------------------------------------------------------------------
(* The steps of the loop of resolve().                                      *)

(* The descriptors the loop may wait for.                                   *)
LEMMA DescriptorsAreReal ==
    ASSUME NetType
    PROVE  ReadFds \subseteq Fds /\ WriteFds \subseteq Fds /\ Readable \subseteq Fds
  BY DEF NetType, ReadFds, WriteFds, Readable, Used, Sockets

(* The servers to come are servers, and the next place is one.              *)
LEMMA NextToCome ==
    ASSUME ResolverAssumption, ControlType, NEW here \in SUBSET ToCome, here # {}
    PROVE  LowestOf(here) \in here /\ LowestOf(here) \in Servers
           /\ LowestOf(here) + 1 \in 1 .. NServers + 1
<1>1. NServers \in Nat /\ at \in 1 .. NServers + 1 /\ ToCome = at .. NServers
  BY SettingFacts DEF ControlType, ToCome
<1>2. here \in SUBSET Nat
  BY <1>1
<1>3. LowestOf(here) \in here
  BY <1>2, LowestIsLeast
<1>4. LowestOf(here) \in at .. NServers
  BY <1>1, <1>3
<1>5. \A n \in at .. NServers : n \in 1 .. NServers /\ n + 1 \in 1 .. NServers + 1
  BY <1>1
<1>6. QED
  BY <1>3, <1>4, <1>5 DEF Servers

(* select() returns, or is interrupted.                                     *)
LEMMA SelectKeeps ==
    ASSUME ResolverAssumption, ResolverInv, Select \/ SelectInterrupted
    PROVE  ResolverInv'
<1>1. ControlType /\ NetType /\ NServers \in Nat /\ NServers > 0
  BY SettingFacts DEF ResolverInv, TypeInv, ControlType
<1>2. /\ pc = "select" /\ pc' = "write" /\ back' = "write" /\ at' = 1 /\ UNCHANGED env
      /\ UNCHANGED <<squery, query, status, next_id, ip, calls, tried, servers, inbox, asked>>
  BY DEF Select, SelectInterrupted, Begin
<1>3. UNCHANGED <<setting, name, NServers, Tries, NDomains, Servers, Fds, Sockets, Messages>>
  BY <1>2, SettingStays DEF Messages, Error
<1>4. ready' \in [read : SUBSET Fds, write : SUBSET Fds]
  <2>1. CASE Select
    <3>1. PICK w \in SUBSET WriteFds : ready' = [read |-> Readable, write |-> w]
      BY <2>1 DEF Select
    <3>2. QED
      BY <1>1, <3>1, DescriptorsAreReal
  <2>2. CASE SelectInterrupted
    BY <1>1, <2>2, DescriptorsAreReal DEF SelectInterrupted
  <2>3. QED
    BY <2>1, <2>2
<1>5. ControlType' /\ NetType'
  BY <1>1, <1>2, <1>3, <1>4 DEF ControlType, NetType, Places, Phases
<1>6. pc \in Phases /\ pc' \in Phases
  BY <1>2 DEF Phases
<1>7. QED
  BY <1>2, <1>5, <1>6, LoopGoesOn

(* A function of ares_process has been through its servers.                 *)
LEMMA PassedKeeps ==
    ASSUME ResolverAssumption, ResolverInv,
           \/ Passed("write", ToWrite, "readtcp") \/ Passed("readtcp", ToReadTcp, "readudp")
           \/ Passed("readudp", ToReadUdp, "timeouts")
    PROVE  ResolverInv'
<1>1. ControlType /\ NetType /\ NServers \in Nat /\ NServers > 0
  BY SettingFacts DEF ResolverInv, TypeInv, ControlType
<1>2. /\ pc \in Phases /\ pc' \in Phases /\ back' = pc' /\ at' = 1 /\ UNCHANGED env
      /\ UNCHANGED <<squery, query, status, next_id, ip, calls, tried, servers, inbox, asked>>
      /\ UNCHANGED ready
  BY DEF Passed, Begin, Phases
<1>3. UNCHANGED <<setting, name, NServers, Tries, NDomains, Servers, Fds, Sockets, Messages>>
  BY <1>2, SettingStays DEF Messages, Error
<1>4. ControlType' /\ NetType'
  BY <1>1, <1>2, <1>3 DEF ControlType, NetType, Places, Phases
<1>5. QED
  BY <1>2, <1>4, LoopGoesOn

(* What is queued for a server goes out.                                    *)
LEMMA WriteTcpDataKeeps ==
    ASSUME ResolverAssumption, ResolverInv, WriteTcpData
    PROVE  ResolverInv'
<1>1. ControlType /\ NetType /\ QueryType /\ NServers \in Nat /\ NServers > 0 /\ NDomains \in Nat
  BY SettingFacts DEF ResolverInv, TypeInv, ControlType
<1>2. PICK s \in Servers :
         /\ pc = "write" /\ ToWrite # {} /\ s = LowestOf(ToWrite) /\ at' = s + 1
         /\ servers' = [servers EXCEPT ![s].queue = <<>>]
         /\ asked' = asked \cup {[fd |-> servers[s].tcp, qid |-> q, of |-> query.of] :
                                   q \in ToSet(servers[s].queue) \cap {query.qid}}
  BY DEF WriteTcpData, AtServer
<1>3. /\ UNCHANGED <<env, pc, back, ready, squery, query, status, next_id, inbox, ip, calls, tried>>
      /\ pc \in Phases /\ pc' \in Phases
  BY <1>2 DEF WriteTcpData, Phases
<1>4. /\ UNCHANGED <<setting, name, NServers, Tries, NDomains, Servers, Fds, Sockets>>
      /\ UNCHANGED <<Messages, ClosedAll>>
  BY <1>3, SettingStays DEF Messages, Error
<1>5. at' \in 1 .. NServers + 1
  BY <1>1, <1>2, NextToCome DEF ToWrite
<1>6. ControlType'
  BY <1>1, <1>3, <1>4, <1>5 DEF ControlType
<1>7. servers' \in [Servers -> Sockets]
  <2>1. servers[s] \in Sockets /\ servers \in [Servers -> Sockets]
    BY <1>1 DEF NetType
  <2>2. ASSUME NEW r \in Sockets PROVE [r EXCEPT !.queue = <<>>] \in Sockets
    <3>1. <<>> \in Seq(Nat)
      OBVIOUS
    <3>2. QED
      BY <3>1 DEF Sockets
  <2>3. QED
    BY <1>2, <2>1, <2>2
<1>8. asked' \subseteq [fd : Fds \cup {Closed}, qid : Nat, of : Nat]
  <2>1. query.qid \in Nat /\ query.of \in Nat
    BY <1>1 DEF QueryType, Queries
  <2>2. servers[s].tcp \in Fds \cup {Closed}
    BY <1>1 DEF NetType, Sockets
  <2>3. QED
    BY <1>1, <1>2, <2>1, <2>2 DEF NetType
<1>9. NetType'
  BY <1>1, <1>3, <1>4, <1>7, <1>8 DEF NetType
<1>10. \A t \in Servers : servers'[t].udp = servers[t].udp /\ servers'[t].tcp = servers[t].tcp
  BY <1>1, <1>2 DEF NetType, Sockets
<1>11. servers = ClosedAll => servers' = servers
  BY <1>2 DEF ClosedAll
<1>12. QED
  BY <1>3, <1>6, <1>9, <1>10, <1>11, LoopGoesOn

(* Servers answer, or do not.                                               *)
LEMMA ServeKeeps ==
    ASSUME ResolverAssumption, ResolverInv, Serve \/ ServerFails
    PROVE  ResolverInv'
<1>1. /\ ControlType /\ NetType /\ NServers \in Nat /\ NServers > 0 /\ NDomains \in Nat
      /\ setting.kinds \subseteq Kind
  BY SettingFacts DEF ResolverInv, TypeInv, ControlType
<1>2. PICK r \in asked, msg \in Messages : Arrives(r, msg)
  <2>1. \A r \in asked : r.qid \in Nat /\ r.of \in Nat
    BY <1>1 DEF NetType
  <2>2. CASE Serve
    BY <1>1, <2>1, <2>2 DEF Serve, Messages, Stray
  <2>3. CASE ServerFails
    BY <2>3 DEF ServerFails, Messages
  <2>4. QED
    BY <2>2, <2>3
<1>3. /\ UNCHANGED <<env, pc, back, at, ready, squery, query, status, next_id, servers>>
      /\ UNCHANGED <<ip, calls, tried>>
      /\ asked' = asked \ {r} /\ inbox' = [inbox EXCEPT ![r.fd] = @ \cup {msg}]
  BY <1>2 DEF Arrives
<1>4. pc \in Phases /\ pc' \in Phases
  BY <1>3 DEF Serve, ServerFails, Listening, Phases
<1>5. UNCHANGED <<setting, name, NServers, Tries, NDomains, Servers, Fds, Sockets, Messages>>
  BY <1>3, SettingStays DEF Messages, Error
<1>6. ControlType'
  BY <1>1, <1>3, <1>5 DEF ControlType
<1>7. inbox' \in [Fds \cup {Closed} -> SUBSET Messages]
  BY <1>1, <1>2, <1>3 DEF NetType
<1>8. NetType'
  BY <1>1, <1>3, <1>5, <1>7 DEF NetType
<1>9. QED
  BY <1>3, <1>4, <1>6, <1>8, LoopGoesOn

(* A query that is late is moved on.                                        *)
LEMMA ProcessTimeoutsKeeps ==
    ASSUME ResolverAssumption, ResolverInv, ProcessTimeouts
    PROVE  ResolverInv'
<1>1. /\ ControlType /\ NetType /\ QueryType /\ NServers \in Nat /\ NServers > 0
  BY SettingFacts DEF ResolverInv, TypeInv, ControlType
<1>2. /\ UNCHANGED <<env, squery, status, next_id, servers, inbox, asked, ip, calls, tried>>
      /\ pc = "timeouts" /\ pc \in Phases /\ back' = "select" /\ at' = 1 /\ ready' = NothingReady
      /\ \/ /\ query # NoQuery /\ pc' = "next_server"
            /\ query' = [query EXCEPT !.error = "timeout"]
         \/ pc' = "select" /\ UNCHANGED query
  BY DEF ProcessTimeouts, Phases
<1>3. UNCHANGED <<setting, name, NServers, Tries, NDomains, Servers, Fds, Sockets, Messages>>
  BY <1>2, SettingStays DEF Messages, Error
<1>4. ControlType' /\ NetType'
  BY <1>1, <1>2, <1>3 DEF ControlType, NetType, NothingReady, Places, Phases
<1>5. CASE query # NoQuery /\ pc' = "next_server" /\ query' = [query EXCEPT !.error = "timeout"]
  <2>1. Live /\ query \in Queries
    BY <1>1, <1>5, QueryRuns DEF QueryType
  <2>2. /\ query' \in Queries
        /\ query'.qid = query.qid /\ query'.of = query.of /\ query'.try = query.try
        /\ query'.server = query.server /\ query'.tcp = query.tcp
        /\ query'.sends = query.sends /\ query.skip \subseteq query'.skip
    BY <1>5, <2>1 DEF Queries, Reason
  <2>3. QED
    BY <1>2, <1>4, <1>5, <2>1, <2>2, QueryGoesOn
<1>6. CASE pc' = "select" /\ UNCHANGED query
  <2>1. pc' \in Phases
    BY <1>6 DEF Phases
  <2>2. QED
    BY <1>2, <1>4, <1>6, <2>1, LoopGoesOn
<1>7. QED
  BY <1>2, <1>5, <1>6

(* Writing or reading fails.                                                *)
LEMMA FailureKeeps ==
    ASSUME ResolverAssumption, ResolverInv, WriteFails \/ ReadTcpFails \/ ReadUdpFails
    PROVE  ResolverInv'
<1>1. ControlType
  BY DEF ResolverInv, TypeInv
<1>2. PICK here \in SUBSET ToCome, s \in Servers :
         here # {} /\ s = LowestOf(here) /\ at' = s + 1 /\ HandleError(s)
  BY DEF WriteFails, ReadTcpFails, ReadUdpFails, AtServer, ToWrite, ToReadTcp, ToReadUdp
<1>3. /\ UNCHANGED <<env, back, ready, squery, status, next_id, ip, calls, tried>>
      /\ pc \in Phases
  BY DEF WriteFails, ReadTcpFails, ReadUdpFails, AtServer, Phases
<1>4. at' \in 1 .. NServers + 1
  BY <1>1, <1>2, NextToCome
<1>5. QED
  BY <1>2, <1>3, <1>4, HandleErrorKeeps

(* An answer is read.                                                       *)
LEMMA ReadKeeps ==
    ASSUME ResolverAssumption, ResolverInv, ReadTcpData \/ ReadUdpPacket
    PROVE  ResolverInv'
<1>1. ControlType /\ NetType
  BY DEF ResolverInv, TypeInv
<1>2. PICK here \in SUBSET ToCome, s \in Servers, fd \in Fds \cup {Closed}, packet \in Messages :
         /\ here # {} /\ s = LowestOf(here) /\ at' = s + 1
         /\ Receive(fd, packet) /\ ProcessAnswer(s, packet)
  <2>1. \A s \in Servers : /\ servers[s].udp \in Fds \cup {Closed}
                           /\ servers[s].tcp \in Fds \cup {Closed}
    BY <1>1 DEF NetType, Sockets
  <2>2. CASE ReadTcpData
    BY <1>1, <2>1, <2>2 DEF ReadTcpData, AtServer, ToReadTcp, NetType
  <2>3. CASE ReadUdpPacket
    BY <1>1, <2>1, <2>3 DEF ReadUdpPacket, AtServer, ToReadUdp, NetType
  <2>4. QED
    BY <2>2, <2>3
<1>3. /\ UNCHANGED <<env, back, ready, squery, next_id, servers, asked, ip, calls, tried>>
      /\ pc \in Phases
  BY DEF ReadTcpData, ReadUdpPacket, AtServer, Phases
<1>4. at' \in 1 .. NServers + 1
  BY <1>1, <1>2, NextToCome
<1>5. packet \in [qid : Nat, kind : Kind, of : Nat]
  BY <1>1, <1>2 DEF Receive, NetType, Messages
<1>6. NetType'
  <2>1. UNCHANGED <<Servers, Fds, Sockets, Messages>>
    BY <1>3, SettingStays DEF Messages, Error
  <2>2. inbox' \in [Fds \cup {Closed} -> SUBSET Messages]
    BY <1>1, <1>2 DEF Receive, NetType
  <2>3. QED
    BY <1>1, <1>3, <2>1, <2>2 DEF NetType
<1>7. QED
  BY <1>2, <1>3, <1>4, <1>5, <1>6, ProcessAnswerKeeps


-----------------------------------------------------------------------------
(* The steps without a query: ares_gethostbyname, the end of a search and   *)
(* of resolve().                                                            *)

(* The callback is run for the first time, and no query is left.            *)
LEMMA AnsweredKeepsCalls ==
    ASSUME ResolverAssumption, ResolverInv, UNCHANGED env, calls = 0, query' = NoQuery,
           NEW result \in {Failed} \cup {Address(c) : c \in 0 .. NDomains},
           Answered(result), pc' = "unlink"
    PROVE  CallsInv'
<1>1. result # Waiting
  BY DEF Failed, Address, Waiting
<1>2. NDomains \in Nat /\ UNCHANGED <<NDomains, Stray>>
  BY SettingFacts, SettingStays DEF ResolverInv, TypeInv, ControlType
<1>3. result \in {Waiting, Failed} \cup {Address(c) : c \in 0 .. Stray'}
  BY <1>2 DEF Stray
<1>4. ip' = result /\ calls' = 1
  BY DEF Answered
<1>5. ~Live'
  BY DEF Live, NoQuery
<1>6. QED
  BY <1>1, <1>3, <1>4, <1>5 DEF CallsInv, Phases

(* A name that is not asked for: digits, the hosts file, nothing left.      *)
LEMMA LookupKeeps ==
    ASSUME ResolverAssumption, ResolverInv, GetHostByName \/ LookupFile \/ LookupsOver
    PROVE  ResolverInv'
<1>1. /\ pc \in {"gethostbyname", "next_lookup"} /\ UNCHANGED env
      /\ UNCHANGED <<back, at, ready, squery, query, status, next_id, servers, inbox, asked, tried>>
      /\ \/ /\ pc' = "unlink"
            /\ \E result \in {Failed} \cup {Address(0)} : Answered(result)
         \/ pc' = "next_lookup" /\ UNCHANGED <<ip, calls>>
  BY DEF GetHostByName, LookupFile, LookupsOver
<1>2. ~Live /\ query = NoQuery /\ calls = 0
  BY <1>1 DEF ResolverInv, CallsInv, TypeInv, QueryType
<1>3. /\ UNCHANGED <<setting, name, NServers, Tries, NDomains, Servers, Fds, Sockets, Stray>>
      /\ UNCHANGED Messages
  BY <1>1, SettingStays DEF Messages, Error
<1>4. ControlType' /\ NetType'
  BY <1>1, <1>3 DEF ResolverInv, TypeInv, ControlType, NetType, Places
<1>5. CallsInv'
  <2>1. CASE pc' = "next_lookup" /\ UNCHANGED <<ip, calls>>
    BY <1>1, <1>2, <1>3, <2>1 DEF ResolverInv, CallsInv, Live, Phases
  <2>2. CASE pc' = "unlink" /\ \E result \in {Failed} \cup {Address(0)} : Answered(result)
    <3>1. 0 \in 0 .. NDomains
      BY SettingFacts DEF ResolverInv, TypeInv, ControlType
    <3>2. PICK result \in {Failed} \cup {Address(c) : c \in 0 .. NDomains} : Answered(result)
      BY <2>2, <3>1
    <3>3. QED
      BY <1>1, <1>2, <2>2, <3>2, AnsweredKeepsCalls
  <2>3. QED
    BY <1>1, <2>1, <2>2
<1>6. QED
  BY <1>1, <1>2, <1>4, <1>5, NoQueryLeft DEF Phases

(* A search that is over: its status says what the callback is given.       *)
LEMMA EndSearchKeeps ==
    ASSUME ResolverAssumption, ResolverInv, EndSearch
    PROVE  ResolverInv'
<1>1. /\ pc = "end_query" /\ UNCHANGED env /\ query' = NoQuery
      /\ UNCHANGED <<back, at, ready, squery, status, next_id, servers, inbox, asked, tried>>
      /\ \/ /\ pc' = "unlink"
            /\ Answered(IF status.is = "address" THEN Address(status.of) ELSE Failed)
         \/ pc' = "next_lookup" /\ UNCHANGED <<ip, calls>>
  BY DEF EndSearch
<1>2. calls = 0 /\ status.of \in 0 .. NDomains
  BY <1>1 DEF ResolverInv, CallsInv, StatusInv
<1>3. /\ UNCHANGED <<setting, name, NServers, Tries, NDomains, Servers, Fds, Sockets, Stray>>
      /\ UNCHANGED Messages
  BY <1>1, SettingStays DEF Messages, Error
<1>4. ControlType' /\ NetType'
  BY <1>1, <1>3 DEF ResolverInv, TypeInv, ControlType, NetType, Places
<1>5. CallsInv'
  <2>1. CASE pc' = "next_lookup" /\ UNCHANGED <<ip, calls>>
    <3>1. ~Live'
      BY <1>1 DEF Live, NoQuery
    <3>2. QED
      BY <1>1, <1>2, <1>3, <2>1, <3>1 DEF ResolverInv, CallsInv, Phases
  <2>2. CASE /\ pc' = "unlink"
             /\ Answered(IF status.is = "address" THEN Address(status.of) ELSE Failed)
    BY <1>1, <1>2, <2>2, AnsweredKeepsCalls
  <2>3. QED
    BY <1>1, <2>1, <2>2
<1>6. QED
  BY <1>1, <1>4, <1>5, NoQueryLeft DEF Phases

(* The sockets are closed where no query is left.                           *)
LEMMA ClosingKeeps ==
    ASSUME ResolverAssumption, ResolverInv, Unlink \/ Finish
    PROVE  ResolverInv'
<1>1. /\ UNCHANGED env /\ servers' = ClosedAll /\ ForgetClosed(servers')
      /\ UNCHANGED <<back, at, ready, squery, query, status, next_id, tried>>
  BY DEF Unlink, Finish
<1>2. UNCHANGED <<setting, name, NServers, Tries, NDomains, Servers, Fds, Sockets, Stray>>
  BY <1>1, SettingStays
<1>3. servers' \in [Servers -> Sockets]
  BY <1>1 DEF ClosedAll, Sockets
<1>4. NetType'
  BY <1>1, <1>3, ForgetKeeps DEF ResolverInv, TypeInv
<1>5. ~Live /\ query = NoQuery /\ calls = 1 /\ ip # Waiting
  BY QueryRuns DEF ResolverInv, CallsInv, TypeInv, QueryType, Unlink, Finish, Phases
<1>6. pc' \in Phases \cup {"done"} /\ UNCHANGED <<ip, calls>>
  BY <1>5 DEF ResolverInv, TypeInv, ControlType, Unlink, Finish
<1>7. ControlType'
  BY <1>1, <1>2, <1>6 DEF ResolverInv, TypeInv, ControlType, Places, Phases
<1>8. CallsInv'
  BY <1>1, <1>2, <1>5, <1>6 DEF ResolverInv, CallsInv, Live, Phases
<1>9. QED
  BY <1>1, <1>4, <1>5, <1>6, <1>7, <1>8, NoQueryLeft DEF Phases

-----------------------------------------------------------------------------
(* ares_search: the candidates of a search, one query after another.        *)

(* A new query is for a candidate that has not been asked for.              *)
LEMMA AskKeeps ==
    ASSUME ResolverAssumption, ResolverInv, UNCHANGED env, calls = 0,
           NEW of \in 0 .. NDomains, NEW before \in Seq(0 .. NDomains), Ask(of, before),
           UNCHANGED <<back, at, ready, status, servers, inbox, asked, ip, calls>>,
           squery' \in [as_is : BOOLEAN, next_domain : Nat, status_as_is : {"none", "no_name"}],
           IF Single THEN Len(tried') = 1 /\ tried'[1] = 0 ELSE AsIsFirst' \/ DomainsFirst'
    PROVE  ResolverInv'
<1>1. /\ UNCHANGED <<setting, name, NServers, Tries, NDomains, Servers, Fds, NoQuery, ClosedAll>>
      /\ UNCHANGED <<Single, Candidates, Queries, Sockets, Stray, Messages>>
  BY SettingStays DEF Messages, Error
<1>2. /\ NServers \in Nat /\ NServers > 0 /\ Tries \in Nat /\ Tries > 0 /\ NDomains \in Nat
      /\ Servers = 1 .. NServers /\ next_id \in Nat \ {0}
  BY SettingFacts DEF ResolverInv, TypeInv, ControlType, QueryType
<1>3. /\ query' = [NoQuery EXCEPT !.qid = next_id, !.of = of, !.server = 1]
      /\ next_id' = next_id + 1 /\ tried' = Append(before, of) /\ pc' = "send"
  BY DEF Ask
<1>4. /\ query'.qid = next_id /\ query'.of = of /\ query'.server = 1 /\ query'.try = 0
      /\ query'.skip = {} /\ query'.tcp = FALSE /\ query'.sends = [s \in Servers |-> 0]
  BY <1>3 DEF NoQuery
<1>5. Live' /\ query' \in Queries
  <2>1. query' = [qid |-> next_id, of |-> of, try |-> 0, server |-> 1, skip |-> {},
                  tcp |-> FALSE, armed |-> FALSE, error |-> "unreachable",
                  sends |-> [s \in Servers |-> 0]]
    BY <1>3 DEF NoQuery
  <2>2. 0 \in 0 .. Tries - 1 /\ 1 \in 0 .. NServers /\ [s \in Servers |-> 0] \in [Servers -> Nat]
    BY <1>2
  <2>3. QED
    BY <1>2, <2>1, <2>2 DEF Live, Queries, Reason
<1>6. tried' \in Seq(0 .. NDomains) /\ tried' # <<>> /\ Last(tried') = of
  BY <1>3 DEF Last
<1>7. TypeInv'
  <2>1. ControlType' /\ NetType'
    BY <1>1, <1>3 DEF ResolverInv, TypeInv, ControlType, NetType, Places
  <2>2. SearchType'
    BY <1>1, <1>6 DEF ResolverInv, TypeInv, SearchType
  <2>3. QueryType'
    BY <1>1, <1>2, <1>3, <1>4, <1>5 DEF QueryType
  <2>4. QED
    BY <2>1, <2>2, <2>3 DEF TypeInv
<1>8. CallsInv'
  BY <1>1, <1>3, <1>5 DEF ResolverInv, CallsInv, Phases
<1>9. SearchInv'
  <2>1. \A i, j \in 1 .. Len(tried') : i # j => tried'[i] # tried'[j]
    <3>1. CASE Single
      <4>1. Len(tried') = 1
        BY <3>1
      <4>2. QED
        BY <4>1
    <3>2. CASE AsIsFirst'
      BY <3>2 DEF AsIsFirst
    <3>3. CASE DomainsFirst'
      <4>1. /\ \A k \in 1 .. Len(tried') : tried'[k] = IF k = NDomains + 1 THEN 0 ELSE k
            /\ NDomains \in Nat
        BY <1>1, <1>2, <3>3 DEF DomainsFirst
      <4>2. QED
        BY <4>1
    <3>4. QED
      BY <3>1, <3>2, <3>3
  <2>2. QED
    BY <1>1, <1>4, <1>6, <2>1 DEF SearchInv
<1>10. StatusInv' /\ OpenInv' /\ SkipInv'
  BY <1>3, <1>4 DEF StatusInv, OpenInv, SkipInv, Phases
<1>11. RoundInv'
  <2>1. AskedBefore(Current)'
    BY <1>1, <1>2, <1>4 DEF AskedBefore, Current
  <2>2. QED
    BY <1>3, <2>1 DEF RoundInv, Phases
<1>12. QED
  BY <1>7, <1>8, <1>9, <1>10, <1>11 DEF ResolverInv

(* next_lookup of DNS: the first candidate, or no search.                   *)
LEMMA LookupDnsKeeps ==
    ASSUME ResolverAssumption, ResolverInv, LookupDns
    PROVE  ResolverInv'
<1>1. /\ pc = "next_lookup" /\ UNCHANGED env
      /\ UNCHANGED <<back, at, ready, status, servers, inbox, asked, ip, calls>>
      /\ UNCHANGED <<pc, squery, query, next_id, tried>> \/ Search
  BY DEF LookupDns
<1>2. ~Live /\ query = NoQuery /\ calls = 0 /\ NDomains \in Nat
  BY <1>1, SettingFacts DEF ResolverInv, CallsInv, TypeInv, QueryType, ControlType
<1>3. CASE UNCHANGED <<pc, squery, query, next_id, tried>>
  <2>1. /\ UNCHANGED <<setting, name, NServers, Tries, NDomains, Servers, Fds, Sockets, Stray>>
        /\ UNCHANGED Messages
    BY <1>1, SettingStays DEF Messages, Error
  <2>2. ControlType' /\ NetType'
    BY <1>1, <1>3, <2>1 DEF ResolverInv, TypeInv, ControlType, NetType
  <2>3. CallsInv'
    BY <1>1, <1>3, <2>1 DEF ResolverInv, CallsInv, Live, Phases
  <2>4. QED
    BY <1>1, <1>2, <1>3, <2>2, <2>3, NoQueryLeft DEF Phases
<1>4. CASE Search
  <2> DEFINE as_is == Single \/ name = "dotted"
             of == IF as_is THEN 0 ELSE 1
  <2>1. /\ squery' = [as_is |-> as_is, next_domain |-> IF as_is THEN 1 ELSE 2,
                       status_as_is |-> "none"]
        /\ Ask(of, <<>>) /\ tried' = <<of>>
    BY <1>4 DEF Search, Ask
  <2>2. UNCHANGED <<Single, NDomains>> /\ (NDomains = 0 => Single)
    BY <1>1, SettingStays DEF Single
  <2>3. of \in 0 .. NDomains /\ <<>> \in Seq(0 .. NDomains)
    BY <1>2, <2>2
  <2>4. squery' \in [as_is : BOOLEAN, next_domain : Nat, status_as_is : {"none", "no_name"}]
    BY <2>1
  <2>5. Len(tried') = 1 /\ tried'[1] = of
    BY <2>1
  <2>6. ASSUME Single PROVE Len(tried') = 1 /\ tried'[1] = 0
    BY <2>5, <2>6
  <2>7. ASSUME ~Single, as_is PROVE AsIsFirst'
    <3>1. /\ squery'.next_domain = 1 /\ squery'.as_is /\ squery'.status_as_is = "none"
          /\ of = 0
      BY <2>1, <2>7
    <3>2. QED
      BY <1>2, <2>2, <2>5, <3>1 DEF AsIsFirst
  <2>8. ASSUME ~Single, ~as_is PROVE DomainsFirst'
    <3>1. as_is = FALSE
      BY <2>8, Zenon
    <3>2. squery' = [as_is |-> FALSE, next_domain |-> 2, status_as_is |-> "none"]
      BY <2>1, <2>8, <3>1, Zenon
    <3>3. /\ squery'.next_domain = 2 /\ ~squery'.as_is /\ squery'.status_as_is = "none"
      BY <3>2
    <3>4. of = 1 /\ NDomains + 1 >= 2 /\ NDomains + 1 # 1
      BY <1>2, <2>2, <2>8
    <3>5. QED
      BY <1>2, <2>2, <2>5, <3>3, <3>4 DEF DomainsFirst
  <2>9. IF Single THEN Len(tried') = 1 /\ tried'[1] = 0 ELSE AsIsFirst' \/ DomainsFirst'
    BY <2>6, <2>7, <2>8
  <2>10. QED
    BY <1>1, <1>2, <2>1, <2>3, <2>4, <2>9, AskKeeps
<1>5. QED
  BY <1>1, <1>3, <1>4

(* search_callback: the next domain, or the name as it is.                  *)
LEMMA SearchOnKeeps ==
    ASSUME ResolverAssumption, ResolverInv, SearchOn
    PROVE  ResolverInv'
<1> DEFINE status_as_is == IF squery.as_is THEN "no_name" ELSE squery.status_as_is
<1>1. /\ pc = "end_query" /\ ~Single /\ status.is = "no_name" /\ UNCHANGED env
      /\ UNCHANGED <<back, at, ready, status, servers, inbox, asked, ip, calls>>
      /\ \/ /\ squery.next_domain <= NDomains
            /\ squery' = [as_is |-> FALSE, next_domain |-> squery.next_domain + 1,
                          status_as_is |-> status_as_is]
            /\ Ask(squery.next_domain, tried)
         \/ /\ squery.next_domain > NDomains /\ status_as_is = "none"
            /\ squery' = [squery EXCEPT !.as_is = TRUE]
            /\ Ask(0, tried)
  BY DEF SearchOn, Nonfatal
<1>2. Live /\ calls = 0 /\ NDomains \in Nat /\ UNCHANGED <<Single, NDomains>>
  BY <1>1, SettingFacts, SettingStays DEF ResolverInv, CallsInv, TypeInv, ControlType
<1>3. /\ squery \in [as_is : BOOLEAN, next_domain : Nat, status_as_is : {"none", "no_name"}]
      /\ tried \in Seq(0 .. NDomains)
  BY DEF ResolverInv, TypeInv, SearchType
<1>4. AsIsFirst \/ DomainsFirst
  BY <1>1, <1>2 DEF ResolverInv, SearchInv
<1>5. CASE /\ squery.next_domain <= NDomains
           /\ squery' = [as_is |-> FALSE, next_domain |-> squery.next_domain + 1,
                         status_as_is |-> status_as_is]
           /\ Ask(squery.next_domain, tried)
  <2>1. squery.next_domain \in 0 .. NDomains
    BY <1>3, <1>5
  <2>2. squery' \in [as_is : BOOLEAN, next_domain : Nat, status_as_is : {"none", "no_name"}]
    BY <1>3, <1>5
  <2>3. /\ tried' = Append(tried, squery.next_domain) /\ Len(tried') = Len(tried) + 1
        /\ Len(tried) \in Nat /\ tried'[Len(tried) + 1] = squery.next_domain
        /\ \A k \in 1 .. Len(tried) : tried'[k] = tried[k]
    BY <1>3, <1>5, <2>1 DEF Ask
  <2>4. CASE AsIsFirst
    <3>1. Len(tried) = squery.next_domain
          /\ status_as_is # "none" /\ squery.next_domain \in 1 .. NDomains
      BY <1>2, <1>5, <2>4 DEF AsIsFirst
    <3>2. \A k \in 1 .. Len(tried') : tried'[k] = k - 1
      BY <2>3, <2>4, <3>1 DEF AsIsFirst
    <3>3. AsIsFirst'
      BY <1>2, <1>5, <2>3, <3>1, <3>2 DEF AsIsFirst
    <3>4. QED
      BY <1>1, <1>2, <1>3, <1>5, <2>1, <2>2, <3>3, AskKeeps
  <2>5. CASE DomainsFirst
    <3>1. /\ Len(tried) = squery.next_domain - 1 /\ status_as_is = "none"
          /\ squery.next_domain \in 2 .. NDomains
      BY <1>2, <1>3, <1>5, <2>5 DEF DomainsFirst
    <3>2. \A k \in 1 .. Len(tried') : tried'[k] = IF k = NDomains + 1 THEN 0 ELSE k
      BY <1>2, <2>3, <2>5, <3>1 DEF DomainsFirst
    <3>3. DomainsFirst'
      BY <1>2, <1>5, <2>3, <3>1, <3>2 DEF DomainsFirst
    <3>4. QED
      BY <1>1, <1>2, <1>3, <1>5, <2>1, <2>2, <3>3, AskKeeps
  <2>6. QED
    BY <1>4, <2>4, <2>5
<1>6. CASE /\ squery.next_domain > NDomains /\ status_as_is = "none"
           /\ squery' = [squery EXCEPT !.as_is = TRUE]
           /\ Ask(0, tried)
  <2>1. 0 \in 0 .. NDomains
    BY <1>2
  <2>2. /\ squery' \in [as_is : BOOLEAN, next_domain : Nat, status_as_is : {"none", "no_name"}]
        /\ squery'.as_is /\ squery'.next_domain = squery.next_domain
        /\ squery'.status_as_is = squery.status_as_is
    BY <1>3, <1>6
  <2>3. /\ Len(tried') = Len(tried) + 1 /\ Len(tried) \in Nat /\ tried'[Len(tried) + 1] = 0
        /\ \A k \in 1 .. Len(tried) : tried'[k] = tried[k]
    BY <1>3, <1>6, <2>1 DEF Ask
  <2>4. DomainsFirst /\ ~squery.as_is
    BY <1>4, <1>6 DEF AsIsFirst
  <2>5. Len(tried) = NDomains /\ squery.next_domain = NDomains + 1 /\ NDomains + 1 >= 2
    BY <1>2, <1>6, <2>4 DEF DomainsFirst
  <2>6. \A k \in 1 .. Len(tried') : tried'[k] = IF k = NDomains + 1 THEN 0 ELSE k
    BY <1>2, <2>3, <2>4, <2>5 DEF DomainsFirst
  <2>7. DomainsFirst'
    BY <1>2, <2>2, <2>3, <2>4, <2>5, <2>6 DEF DomainsFirst
  <2>8. QED
    BY <1>1, <1>2, <1>3, <1>6, <2>1, <2>2, <2>7, AskKeeps
<1>7. QED
  BY <1>1, <1>5, <1>6

-----------------------------------------------------------------------------
(* ares__send_query and next_server: one query at one server after another. *)

(* A query that is sent or moved on stays the query of its candidate.       *)
LEMMA QueryKept ==
    ASSUME ResolverAssumption, ResolverInv, UNCHANGED env, Live,
           query' \in Queries, query'.server \in Servers,
           query'.qid = query.qid, query'.of = query.of,
           UNCHANGED <<squery, next_id, tried, ip, calls>>,
           pc' \in Phases \cup {"send", "next_server", "end_query"}
    PROVE  Live' /\ SearchType' /\ QueryType' /\ SearchInv' /\ CallsInv'
<1>1. /\ UNCHANGED <<setting, name, NServers, Tries, NDomains, Servers, Fds, NoQuery, ClosedAll>>
      /\ UNCHANGED <<Single, Candidates, Queries, Sockets, Stray>>
  BY SettingStays
<1>2. Live'
  BY DEF Live
<1>3. SearchType' /\ QueryType'
  BY <1>1, <1>2 DEF ResolverInv, TypeInv, SearchType, QueryType
<1>4. SearchInv'
  <2>1. query'.of = query.of /\ UNCHANGED <<squery, tried, Single, NDomains>>
    BY <1>1
  <2>2. QED
    BY <1>2, <2>1 DEF ResolverInv, SearchInv, AsIsFirst, DomainsFirst
<1>5. calls = 0
  BY DEF ResolverInv, TypeInv, ControlType, CallsInv, Places, Phases
<1>6. CallsInv'
  BY <1>1, <1>2, <1>5 DEF ResolverInv, CallsInv, Phases
<1>7. QED
  BY <1>2, <1>3, <1>4, <1>6

(* A query that is sent has an open socket and one turn more.               *)
LEMMA SendQueryKeeps ==
    ASSUME ResolverAssumption, ResolverInv, SendQuery
    PROVE  ResolverInv'
<1>1. /\ pc = "send" /\ pc' = back /\ UNCHANGED env
      /\ IF query.tcp THEN QueuedForTcp ELSE SentOverUdp
      /\ query' = [query EXCEPT !.armed = ~query.tcp, !.sends[query.server] = @ + 1]
      /\ UNCHANGED <<back, at, ready, squery, status, next_id, inbox, ip, calls, tried>>
  BY DEF SendQuery, Current
<1>2. /\ UNCHANGED <<setting, name, NServers, Tries, NDomains, Servers, Fds, NoQuery, ClosedAll>>
      /\ UNCHANGED <<Single, Candidates, Queries, Sockets, Stray, Messages>>
  BY <1>1, SettingStays DEF Messages, Error
<1>3. /\ NServers \in Nat /\ NServers > 0 /\ Tries \in Nat /\ Tries > 0 /\ NDomains \in Nat
      /\ Servers = 1 .. NServers /\ setting \in Settings /\ pc' \in Phases
  BY <1>1, SettingFacts DEF ResolverInv, TypeInv, ControlType
<1>4. Live /\ query \in Queries /\ query.server \in Servers /\ query.server \notin query.skip
  BY <1>1 DEF ResolverInv, CallsInv, TypeInv, QueryType, SkipInv, Current
<1>5. /\ query' \in Queries /\ query'.server = query.server /\ query'.skip = query.skip
      /\ query'.qid = query.qid /\ query'.of = query.of /\ query'.try = query.try
      /\ query'.tcp = query.tcp
      /\ query'.sends = [query.sends EXCEPT ![query.server] = @ + 1]
      /\ query.sends \in [Servers -> Nat]
  <2>1. PICK b \in BOOLEAN :
           query' = [query EXCEPT !.armed = b, !.sends[query.server] = @ + 1]
    BY <1>1, Zenon
  <2>2. query.sends \in [Servers -> Nat]
    BY <1>4 DEF Queries
  <2>3. [query.sends EXCEPT ![query.server] = @ + 1] \in [Servers -> Nat]
    BY <1>4, <2>2
  <2>4. QED
    BY <1>4, <2>1, <2>2, <2>3 DEF Queries
<1>6. Live' /\ SearchType' /\ QueryType' /\ SearchInv' /\ CallsInv'
  BY <1>1, <1>3, <1>4, <1>5, QueryKept
<1>7. PICK fd \in Fds, field \in {"udp", "tcp"} :
         /\ field = "tcp" => query.tcp
         /\ field = "udp" => ~query.tcp
         /\ servers' = IF query.tcp
                       THEN [servers EXCEPT ![query.server].tcp = fd,
                                            ![query.server].queue = Append(@, query.qid)]
                       ELSE [servers EXCEPT ![query.server].udp = fd]
         /\ asked' \subseteq asked \cup {[fd |-> fd, qid |-> query.qid, of |-> query.of]}
  <2>1. servers \in [Servers -> Sockets] /\ servers[query.server] \in Sockets
    BY <1>4 DEF ResolverInv, TypeInv, NetType
  <2>2. /\ servers[query.server].udp \in Fds \cup {Closed}
        /\ servers[query.server].tcp \in Fds \cup {Closed}
    BY <2>1 DEF Sockets
  <2>3. CASE query.tcp
    <3>1. PICK fd \in Fds :
             servers' = [servers EXCEPT ![query.server].tcp = fd,
                                        ![query.server].queue = Append(@, query.qid)]
      BY <1>1, <1>3, <1>4, <2>1, <2>2, <2>3, FreeDescriptor DEF QueuedForTcp, Current
    <3>2. asked' = asked
      BY <1>1, <2>3 DEF QueuedForTcp
    <3>3. QED
      BY <2>3, <3>1, <3>2
  <2>4. CASE ~query.tcp
    <3>1. PICK fd \in Fds :
             /\ servers' = [servers EXCEPT ![query.server].udp = fd]
             /\ asked' = asked \cup {[fd |-> fd, qid |-> query.qid, of |-> query.of]}
      BY <1>1, <1>3, <1>4, <2>1, <2>2, <2>4, FreeDescriptor DEF SentOverUdp, Current
    <3>2. QED
      BY <2>4, <3>1
  <2>5. QED
    BY <2>3, <2>4
<1>8. servers' \in [Servers -> Sockets]
  <2>1. ASSUME NEW r \in Sockets
        PROVE  /\ [r EXCEPT !.udp = fd] \in Sockets
               /\ [r EXCEPT !.tcp = fd, !.queue = Append(@, query.qid)] \in Sockets
    <3>1. query.qid \in Nat /\ r.queue \in Seq(Nat)
      BY <1>4 DEF Queries, Sockets
    <3>2. Append(r.queue, query.qid) \in Seq(Nat)
      BY <3>1
    <3>3. QED
      BY <3>2 DEF Sockets
  <2>2. servers \in [Servers -> Sockets]
    BY DEF ResolverInv, TypeInv, NetType
  <2>3. QED
    BY <1>4, <1>7, <2>1, <2>2
<1>9. NetType'
  <2>1. query.qid \in Nat /\ query.of \in Nat
    BY <1>3, <1>4 DEF Queries
  <2>2. asked' \subseteq [fd : Fds \cup {Closed}, qid : Nat, of : Nat]
    BY <1>7, <2>1 DEF ResolverInv, TypeInv, NetType
  <2>3. QED
    BY <1>1, <1>2, <1>8, <2>2 DEF ResolverInv, TypeInv, NetType
<1>10. ControlType'
  BY <1>1, <1>2, <1>3 DEF ResolverInv, TypeInv, ControlType, Places, Phases
<1>11. OpenInv'
  <2>1. fd # Closed /\ servers \in [Servers -> Sockets]
    BY <1>3, <1>7 DEF Fds, Closed, ResolverInv, TypeInv, NetType
  <2>2. CASE query.tcp
    <3>1. servers'[query.server].tcp = fd
      BY <1>4, <1>7, <2>1, <2>2 DEF Sockets
    <3>2. QED
      BY <1>5, <1>6, <2>1, <2>2, <3>1 DEF OpenInv, Current
  <2>3. CASE ~query.tcp
    <3>1. servers'[query.server].udp = fd
      BY <1>4, <1>7, <2>1, <2>3 DEF Sockets
    <3>2. QED
      BY <1>5, <1>6, <2>1, <2>3, <3>1 DEF OpenInv, Current
  <2>4. QED
    BY <2>2, <2>3
<1>12. StatusInv' /\ SkipInv'
  BY <1>3, <1>4, <1>5 DEF StatusInv, SkipInv, Current, Phases
<1>13. RoundInv'
  <2>1. AskedBefore(query.server)
    BY <1>1, <1>4 DEF ResolverInv, RoundInv, Current
  <2>2. query.server \in Nat /\ query.try \in Nat
    BY <1>3, <1>4 DEF Queries
  <2>3. ASSUME NEW s \in Servers
        PROVE  /\ query'.sends[s] = query.sends[s] + (IF s = query.server THEN 1 ELSE 0)
               /\ query.sends[s] \in Nat /\ s \in Nat
    BY <1>3, <1>4, <1>5
  <2>4. ASSUME NEW s \in Servers, query.tcp
        PROVE  query'.sends[s] <= IF s < query.server + 1 THEN Tries + 1 ELSE Tries
    <3>1. query.sends[s] <= IF s < query.server THEN Tries + 1 ELSE Tries
      BY <2>1, <2>4 DEF AskedBefore
    <3>2. QED
      BY <1>3, <2>2, <2>3, <3>1
  <2>5. ASSUME NEW s \in Servers, ~query.tcp
        PROVE  LET times == IF s < query.server + 1 THEN query.try + 1 ELSE query.try
               IN  query'.sends[s] <= times /\ (s \in query.skip \/ query'.sends[s] = times)
    <3>1. LET times == IF s < query.server THEN query.try + 1 ELSE query.try
          IN  query.sends[s] <= times /\ (s \in query.skip \/ query.sends[s] = times)
      BY <2>1, <2>5 DEF AskedBefore
    <3>2. QED
      BY <1>3, <1>4, <2>2, <2>3, <3>1
  <2>6. AskedBefore(Current + 1)'
    BY <1>2, <1>5, <2>4, <2>5 DEF AskedBefore, Current
  <2>7. QED
    BY <1>3, <2>6 DEF RoundInv, Phases
<1>14. QED
  BY <1>6, <1>9, <1>10, <1>11, <1>12, <1>13 DEF ResolverInv, TypeInv

(* A server that could not be asked has had its turn of the round.          *)
LEMMA SendFailsKeeps ==
    ASSUME ResolverAssumption, ResolverInv, SendFails
    PROVE  ResolverInv'
<1>1. /\ pc = "send" /\ pc' = "next_server" /\ UNCHANGED env
      /\ query' = [query EXCEPT !.skip = @ \cup {query.server}]
      /\ UNCHANGED <<back, at, ready, squery, status, next_id, servers, inbox, asked>>
      /\ UNCHANGED <<ip, calls, tried>>
  BY DEF SendFails, Current
<1>2. /\ UNCHANGED <<setting, name, NServers, Tries, NDomains, Servers, Fds, NoQuery, ClosedAll>>
      /\ UNCHANGED <<Single, Candidates, Queries, Sockets, Stray, Messages>>
  BY <1>1, SettingStays DEF Messages, Error
<1>3. /\ NServers \in Nat /\ NServers > 0 /\ Tries \in Nat /\ Tries > 0
      /\ Servers = 1 .. NServers
  BY <1>1, SettingFacts DEF ResolverInv, TypeInv, ControlType
<1>4. Live /\ query \in Queries /\ query.server \in Servers
  BY <1>1 DEF ResolverInv, CallsInv, TypeInv, QueryType
<1>5. /\ query' \in Queries /\ query'.server = query.server
      /\ query'.qid = query.qid /\ query'.of = query.of /\ query'.try = query.try
      /\ query'.tcp = query.tcp /\ query'.sends = query.sends
      /\ query'.skip = query.skip \cup {query.server}
      /\ query.sends \in [Servers -> Nat] /\ query.try \in Nat /\ query.server \in Nat
  BY <1>1, <1>3, <1>4 DEF Queries
<1>6. Live' /\ SearchType' /\ QueryType' /\ SearchInv' /\ CallsInv'
  BY <1>1, <1>4, <1>5, QueryKept
<1>7. ControlType' /\ NetType'
  BY <1>1, <1>2 DEF ResolverInv, TypeInv, ControlType, NetType, Places
<1>8. StatusInv' /\ SkipInv' /\ OpenInv'
  BY <1>1 DEF StatusInv, SkipInv, OpenInv, Phases
<1>9. RoundInv'
  <2>1. AskedBefore(query.server)
    BY <1>1, <1>4 DEF ResolverInv, RoundInv, Current
  <2>2. AskedBefore(Current + 1)'
    BY <1>2, <1>3, <1>4, <1>5, <2>1 DEF AskedBefore, Current
  <2>3. QED
    BY <1>1, <2>2 DEF RoundInv, Phases
<1>10. QED
  BY <1>6, <1>7, <1>8, <1>9 DEF ResolverInv, TypeInv

(* The query goes to a server of this round or of the next, or ends.        *)
LEMMA NextServerKeeps ==
    ASSUME ResolverAssumption, ResolverInv, NextServer
    PROVE  ResolverInv'
<1>1. /\ pc = "next_server" /\ UNCHANGED env
      /\ UNCHANGED <<back, at, ready, squery, next_id, servers, inbox, asked, ip, calls, tried>>
  BY DEF NextServer
<1>2. /\ UNCHANGED <<setting, name, NServers, Tries, NDomains, Servers, Fds, NoQuery, ClosedAll>>
      /\ UNCHANGED <<Single, Candidates, Queries, Sockets, Stray, Messages>>
  BY <1>1, SettingStays DEF Messages, Error
<1>3. /\ NServers \in Nat /\ NServers > 0 /\ Tries \in Nat /\ Tries > 0 /\ NDomains \in Nat
      /\ Servers = 1 .. NServers
  BY <1>1, SettingFacts DEF ResolverInv, TypeInv, ControlType
<1>4. Live /\ query \in Queries /\ query.server \in Servers
  BY <1>1 DEF ResolverInv, CallsInv, TypeInv, QueryType
<1>5. /\ query.sends \in [Servers -> Nat] /\ query.try \in 0 .. Tries - 1
      /\ query.try \in Nat /\ query.server \in Nat /\ query.of \in 0 .. NDomains
      /\ query.error \in Reason
  BY <1>3, <1>4 DEF Queries
<1>6. \A s \in Servers :
         /\ query.tcp => query.sends[s] <= IF s < query.server + 1 THEN Tries + 1 ELSE Tries
         /\ ~query.tcp =>
              LET times == IF s < query.server + 1 THEN query.try + 1 ELSE query.try
              IN  query.sends[s] <= times /\ (s \in query.skip \/ query.sends[s] = times)
  BY <1>1, <1>4 DEF ResolverInv, RoundInv, AskedBefore, Current
<1>7. ASSUME NEW n \in 1 .. NServers + 1, Left(n) # {}
      PROVE  /\ LowestOf(Left(n)) \in Servers /\ LowestOf(Left(n)) >= n
             /\ LowestOf(Left(n)) \notin query.skip
             /\ \A s \in n .. NServers : s < LowestOf(Left(n)) => s \in query.skip
  <2>1. /\ Left(n) \in SUBSET Nat
        /\ \A s : s \in Left(n) <=> s \in n .. NServers /\ s \notin query.skip
    BY <1>3 DEF Left
  <2>2. LowestOf(Left(n)) \in Left(n) /\ \A s \in Left(n) : LowestOf(Left(n)) <= s
    BY <1>7, <2>1, LowestIsLeast
  <2> DEFINE low == LowestOf(Left(n))
  <2>3. low \in n .. NServers /\ low \notin query.skip
    BY <2>1, <2>2
  <2>4. ASSUME NEW s \in n .. NServers, s < low PROVE s \in query.skip
    <3>1. s \in Left(n) => low <= s
      BY <2>2
    <3> HIDE DEF low
    <3>2. QED
      BY <1>3, <2>1, <2>3, <2>4, <3>1
  <2> HIDE DEF low
  <2>5. low \in Servers /\ low >= n
    BY <1>3, <2>3
  <2>6. QED
    BY <2>3, <2>4, <2>5 DEF low
<1>8. ASSUME NEW n \in Servers, n \notin query.skip, pc' = "send", UNCHANGED status,
             NEW t \in 0 .. Tries - 1, query' = [query EXCEPT !.server = n, !.try = t],
             AskedBefore(n)'
      PROVE  ResolverInv'
  <2>1. /\ query' \in Queries /\ query'.server = n /\ query'.skip = query.skip
        /\ query'.qid = query.qid /\ query'.of = query.of
    <3>1. n \in 0 .. NServers
      BY <1>3
    <3>2. query' = [query EXCEPT !.server = n, !.try = t]
      BY <1>8
    <3>3. QED
      BY <1>4, <3>1, <3>2 DEF Queries
  <2>2. Live' /\ SearchType' /\ QueryType' /\ SearchInv' /\ CallsInv'
    BY <1>1, <1>4, <1>8, <2>1, QueryKept
  <2>3. ControlType' /\ NetType'
    BY <1>1, <1>2, <1>8 DEF ResolverInv, TypeInv, ControlType, NetType, Places
  <2>4. StatusInv' /\ SkipInv' /\ OpenInv'
    BY <1>8, <2>1 DEF StatusInv, SkipInv, OpenInv, Current, Phases
  <2>5. RoundInv'
    BY <1>8, <2>1 DEF RoundInv, AskedBefore, Current, Phases
  <2>6. QED
    BY <2>2, <2>3, <2>4, <2>5 DEF ResolverInv, TypeInv
<1>9. CASE /\ Left(query.server + 1) # {} /\ pc' = "send" /\ UNCHANGED status
           /\ query' = [query EXCEPT !.server = LowestOf(Left(query.server + 1))]
  <2>1. PICK n \in Servers :
           /\ n = LowestOf(Left(query.server + 1)) /\ n >= query.server + 1 /\ n \notin query.skip
           /\ \A s \in query.server + 1 .. NServers : s < n => s \in query.skip
    BY <1>3, <1>4, <1>7, <1>9
  <2>2. query' = [query EXCEPT !.server = n, !.try = query.try]
    BY <1>4, <1>9, <2>1 DEF Queries
  <2>3. query'.tcp = query.tcp /\ query'.skip = query.skip /\ query'.sends = query.sends
        /\ query'.try = query.try
    BY <1>4, <2>2 DEF Queries
  <2>4. ASSUME NEW s \in Servers
        PROVE  /\ s < n => s < query.server + 1 \/ s \in query.skip
               /\ s < query.server + 1 => s < n
               /\ query.sends[s] \in Nat
    BY <1>3, <1>5, <2>1
  <2>5. ASSUME NEW s \in Servers, query.tcp
        PROVE  query.sends[s] <= IF s < n THEN Tries + 1 ELSE Tries
    <3>1. query.sends[s] <= IF s < query.server + 1 THEN Tries + 1 ELSE Tries
      BY <1>6, <2>5
    <3>2. QED
      BY <1>3, <2>4, <3>1
  <2>6. ASSUME NEW s \in Servers, ~query.tcp
        PROVE  LET times == IF s < n THEN query.try + 1 ELSE query.try
               IN  query.sends[s] <= times /\ (s \in query.skip \/ query.sends[s] = times)
    <3>1. LET times == IF s < query.server + 1 THEN query.try + 1 ELSE query.try
          IN  query.sends[s] <= times /\ (s \in query.skip \/ query.sends[s] = times)
      BY <1>6, <2>6
    <3>2. QED
      BY <1>5, <2>4, <3>1
  <2>7. AskedBefore(n)'
    BY <1>2, <2>3, <2>5, <2>6 DEF AskedBefore
  <2>8. QED
    BY <1>5, <1>8, <1>9, <2>1, <2>2, <2>7
<1>10. CASE /\ Left(query.server + 1) = {} /\ ~query.tcp /\ query.try + 1 < Tries /\ Left(1) # {}
            /\ query' = [query EXCEPT !.server = LowestOf(Left(1)), !.try = @ + 1]
            /\ pc' = "send" /\ UNCHANGED status
  <2>1. PICK n \in Servers :
           /\ n = LowestOf(Left(1)) /\ n \notin query.skip
           /\ \A s \in 1 .. NServers : s < n => s \in query.skip
    BY <1>3, <1>7, <1>10
  <2>2. query' = [query EXCEPT !.server = n, !.try = query.try + 1]
        /\ query.try + 1 \in 0 .. Tries - 1
    BY <1>3, <1>4, <1>5, <1>10, <2>1 DEF Queries
  <2>3. query'.tcp = query.tcp /\ query'.skip = query.skip /\ query'.sends = query.sends
        /\ query'.try = query.try + 1
    BY <1>4, <2>2 DEF Queries
  <2>4. \A s \in query.server + 1 .. NServers : s \in query.skip
    BY <1>10 DEF Left
  <2>5. ASSUME NEW s \in Servers
        PROVE  LET times == IF s < n THEN query.try + 1 + 1 ELSE query.try + 1
               IN  query.sends[s] <= times /\ (s \in query.skip \/ query.sends[s] = times)
    <3>1. LET times == IF s < query.server + 1 THEN query.try + 1 ELSE query.try
          IN  query.sends[s] <= times /\ (s \in query.skip \/ query.sends[s] = times)
      BY <1>6, <1>10
    <3>2. s < n \/ ~(s < query.server + 1) => s \in query.skip
      BY <1>3, <1>5, <2>1, <2>4
    <3>3. query.sends[s] \in Nat
      BY <1>5
    <3>4. QED
      BY <1>5, <3>1, <3>2, <3>3
  <2>6. AskedBefore(n)'
    BY <1>2, <1>10, <2>3, <2>5 DEF AskedBefore
  <2>7. QED
    BY <1>8, <1>10, <2>1, <2>2, <2>6
<1>11. CASE /\ Left(query.server + 1) = {}
            /\ query.tcp \/ query.try + 1 = Tries \/ Left(1) = {}
            /\ pc' = "end_query" /\ UNCHANGED query
            /\ status' = [is |-> query.error, of |-> query.of]
  <2>1. Live' /\ SearchType' /\ QueryType' /\ SearchInv' /\ CallsInv'
    BY <1>1, <1>4, <1>11, QueryKept
  <2>2. ControlType' /\ NetType'
    BY <1>1, <1>2, <1>11 DEF ResolverInv, TypeInv, ControlType, NetType, Places
  <2>3. StatusInv' /\ SkipInv' /\ OpenInv'
    BY <1>2, <1>5, <1>11 DEF StatusInv, SkipInv, OpenInv, Phases
  <2>4. \A s \in Servers : query.sends[s] <= Tries + 1
    BY <1>1, <1>4, SendsBounded
  <2>5. ~query.tcp => \A s \in Servers : s \in query.skip \/ query.sends[s] = Tries
    <3>1. SUFFICES ASSUME ~query.tcp, NEW s \in Servers, s \notin query.skip
                   PROVE  query.sends[s] = Tries
      OBVIOUS
    <3>2. s \in 1 .. NServers /\ s \notin query.server + 1 .. NServers /\ Left(1) # {}
      BY <1>3, <1>11, <3>1 DEF Left
    <3>3. s < query.server + 1 /\ query.try + 1 = Tries
      BY <1>3, <1>5, <1>11, <3>1, <3>2
    <3>4. QED
      BY <1>6, <3>1, <3>3
  <2>6. RoundInv'
    BY <1>2, <1>11, <2>4, <2>5 DEF RoundInv, Phases
  <2>7. QED
    BY <2>1, <2>2, <2>3, <2>6 DEF ResolverInv, TypeInv
<1>12. QED
  BY <1>9, <1>10, <1>11 DEF NextServer, Current, EndWith

-----------------------------------------------------------------------------
(* No step breaks the invariant.                                            *)
LEMMA NextKeeps ==
    ASSUME ResolverAssumption, ResolverInv, [ResolverNext]_resolverVars
    PROVE  ResolverInv'
<1>1. CASE Lookup
  BY <1>1, LookupKeeps, LookupDnsKeeps DEF Lookup
<1>2. CASE Query
  BY <1>2, SendQueryKeeps, SendFailsKeeps, NextServerKeeps, SearchOnKeeps, EndSearchKeeps,
     ClosingKeeps DEF Query
<1>3. CASE Select \/ SelectInterrupted
  BY <1>3, SelectKeeps
<1>4. CASE Finish
  BY <1>4, ClosingKeeps
<1>5. CASE Process
  BY <1>5, WriteTcpDataKeeps, FailureKeeps, ReadKeeps, PassedKeeps, ProcessTimeoutsKeeps
  DEF Process
<1>6. CASE Serve \/ ServerFails
  BY <1>6, ServeKeeps
<1>7. CASE UNCHANGED resolverVars
  <2>1. /\ UNCHANGED <<setting, name, NServers, Tries, NDomains, Servers, Fds, NoQuery, ClosedAll>>
        /\ UNCHANGED <<Single, Candidates, Queries, Sockets, Stray, Messages>>
    BY <1>7, SettingStays DEF resolverVars, env, Messages, Error
  <2>2. UNCHANGED <<pc, back, at, ready, squery, query, status, next_id, servers, inbox, asked,
                    ip, calls, tried>>
    BY <1>7 DEF resolverVars
  <2>3. TypeInv'
    BY <2>1, <2>2
    DEF ResolverInv, TypeInv, ControlType, SearchType, NetType, QueryType, Live
  <2>4. CallsInv' /\ SearchInv'
    BY <2>1, <2>2 DEF ResolverInv, CallsInv, SearchInv, AsIsFirst, DomainsFirst, Live
  <2>5. StatusInv' /\ OpenInv' /\ SkipInv'
    BY <2>1, <2>2 DEF ResolverInv, StatusInv, OpenInv, SkipInv, Live, Current
  <2>6. RoundInv'
    BY <2>1, <2>2 DEF ResolverInv, RoundInv, AskedBefore, Live, Current
  <2>7. QED
    BY <2>3, <2>4, <2>5, <2>6 DEF ResolverInv
<1>8. QED
  BY <1>1, <1>2, <1>3, <1>4, <1>5, <1>6, <1>7 DEF ResolverNext, Probe

(* The invariant holds in every state of every look-up.                     *)
THEOREM ResolverInvariant ==
    ASSUME ResolverAssumption PROVE ResolverSpec => []ResolverInv
<1>1. ResolverInit => ResolverInv
  BY InitHolds
<1>2. ResolverInv /\ [ResolverNext]_resolverVars => ResolverInv'
  BY NextKeeps
<1>3. QED
  BY <1>1, <1>2, PTL DEF ResolverSpec

(* A search that reports no such name has asked for every candidate.        *)
LEMMA EveryCandidateAsked ==
    ASSUME ResolverAssumption, ResolverInv, pc = "end_query", SearchOver, Nonfatal
    PROVE  ToSet(tried) = Candidates
<1>1. Live /\ tried \in Seq(0 .. NDomains) /\ NDomains \in Nat
  BY SettingFacts DEF ResolverInv, CallsInv, TypeInv, SearchType, ControlType
<1>2. ToSet(tried) = {tried[k] : k \in 1 .. Len(tried)} /\ Len(tried) \in Nat
  BY <1>1 DEF ToSet
<1>3. CASE Single
  <2>1. Len(tried) = 1 /\ tried[1] = 0
    BY <1>1, <1>3 DEF ResolverInv, SearchInv
  <2>2. 1 .. 1 = {1}
    OBVIOUS
  <2>3. ToSet(tried) = {0}
    BY <1>2, <2>1, <2>2
  <2>4. QED
    BY <1>3, <2>3 DEF Candidates
<1>4. CASE ~Single
  <2>1. /\ (AsIsFirst \/ DomainsFirst) /\ Candidates = 0 .. NDomains
        /\ squery.next_domain > NDomains /\ (squery.as_is \/ squery.status_as_is # "none")
    BY <1>1, <1>4 DEF ResolverInv, SearchInv, SearchOver, Candidates
  <2>2. CASE AsIsFirst
    <3>1. Len(tried) = NDomains + 1 /\ \A k \in 1 .. NDomains + 1 : tried[k] = k - 1
      BY <1>1, <2>1, <2>2 DEF AsIsFirst
    <3>2. \A c \in 0 .. NDomains : c + 1 \in 1 .. NDomains + 1 /\ tried[c + 1] = c
      BY <1>1, <3>1
    <3>3. QED
      BY <1>1, <1>2, <1>4, <3>1, <3>2 DEF Candidates
  <2>3. CASE DomainsFirst
    <3>1. /\ Len(tried) = NDomains + 1
          /\ \A k \in 1 .. NDomains + 1 : tried[k] = IF k = NDomains + 1 THEN 0 ELSE k
      BY <1>1, <2>1, <2>3 DEF DomainsFirst
    <3>2. \A c \in 0 .. NDomains : \E k \in 1 .. NDomains + 1 : tried[k] = c
      <4>1. TAKE c \in 0 .. NDomains
      <4>2. c = 0 => tried[NDomains + 1] = c /\ NDomains + 1 \in 1 .. NDomains + 1
        BY <1>1, <3>1
      <4>3. c # 0 => tried[c] = c /\ c \in 1 .. NDomains + 1
        BY <1>1, <3>1
      <4>4. QED
        BY <4>2, <4>3
    <3>3. QED
      BY <1>1, <1>2, <1>4, <3>1, <3>2 DEF Candidates
  <2>4. QED
    BY <2>1, <2>2, <2>3
<1>5. QED
  BY <1>3, <1>4

(* CalledOnce: the callback of a look-up is run once, whatever the servers  *)
(* do, and a search that ends without an address has asked for every        *)
(* candidate, for none twice (end_query, search_callback).                  *)
THEOREM ResolverCalledOnce ==
    ASSUME ResolverAssumption PROVE ResolverSpec => []CalledOnce
<1>1. ResolverInv => CallbackOnce
  BY DEF ResolverInv, CallsInv, CallbackOnce
<1>2. ResolverInv => EveryCandidateOnce
  <2>1. ResolverInv => DOMAIN tried = 1 .. Len(tried)
    BY DEF ResolverInv, TypeInv, SearchType
  <2>2. QED
    BY <2>1, EveryCandidateAsked DEF ResolverInv, SearchInv, EveryCandidateOnce
<1>3. QED
  BY <1>1, <1>2, ResolverInvariant, PTL DEF CalledOnce

(* AnswersTheQuestion: the address a query ends with answers the candidate  *)
(* that was asked for last (process_answer).                                *)
THEOREM ResolverAnswersTheQuestion ==
    ASSUME ResolverAssumption PROVE ResolverSpec => []AnswersTheQuestion
<1>1. ResolverInv => AnswersTheQuestion
  BY DEF ResolverInv, StatusInv, SearchInv, CallsInv, AnswersTheQuestion
<1>2. QED
  BY <1>1, ResolverInvariant, PTL

(* EveryServerHadItsTries: a query that ends unanswered over UDP was sent   *)
(* to every server as often as there are tries unless the server failed, no *)
(* server that failed is asked again, and the loop waits on an open socket  *)
(* (next_server, handle_error).                                             *)
THEOREM ResolverEveryServerHadItsTries ==
    ASSUME ResolverAssumption PROVE ResolverSpec => []EveryServerHadItsTries
<1> SUFFICES ASSUME ResolverAssumption PROVE ResolverSpec => []EveryServerHadItsTries
  OBVIOUS
<1>1. ResolverInv => ResolverTypeOK
  <2>1. SUFFICES ASSUME ResolverInv PROVE ResolverTypeOK
    OBVIOUS
  <2>2. NServers \in Nat /\ NServers > 0 /\ Tries \in Nat /\ Tries > 0 /\ NDomains \in Nat
        /\ Servers = 1 .. NServers
    BY <2>1, SettingFacts DEF ResolverInv, TypeInv, ControlType
  <2>3. query \in Queries
    BY <2>1 DEF ResolverInv, TypeInv, QueryType
  <2>4. /\ query.server \in 0 .. NServers /\ query.try \in 0 .. Tries - 1
        /\ query.skip \subseteq Servers /\ query.of \in 0 .. NDomains
    BY <2>3 DEF Queries
  <2>5. \A s \in Servers : /\ servers[s].udp \in Fds \cup {Closed}
                           /\ servers[s].tcp \in Fds \cup {Closed}
    BY <2>1 DEF ResolverInv, TypeInv, NetType, Sockets
  <2>6. ready.read \subseteq Fds /\ ready.write \subseteq Fds
    BY <2>1 DEF ResolverInv, TypeInv, ControlType
  <2>7. QED
    BY <2>1, <2>4, <2>5, <2>6
    DEF ResolverInv, TypeInv, ControlType, CallsInv, Places, Phases, ResolverTypeOK
<1>2. ResolverInv => AskedAsOften
  <2>1. SUFFICES ASSUME ResolverInv PROVE AskedAsOften
    OBVIOUS
  <2>2. /\ Tries \in Nat /\ Tries > 0 /\ query \in Queries /\ Servers = 1 .. NServers
        /\ NServers \in Nat /\ pc \in Places
    BY <2>1, SettingFacts DEF ResolverInv, TypeInv, ControlType, QueryType
  <2>3. \A s \in Servers : query.sends[s] <= Tries + 1
    <3>1. CASE ~Live
      BY <2>1, <2>2, <3>1 DEF ResolverInv, TypeInv, QueryType, NoQuery
    <3>2. CASE Live /\ pc = "end_query"
      BY <2>1, <3>2 DEF ResolverInv, RoundInv
    <3>3. CASE Live /\ pc \in Phases \cup {"next_server"}
      BY <2>1, <3>3, SendsBounded
    <3>4. CASE Live /\ pc = "send"
      <4>1. AskedBefore(query.server) /\ query.try \in 0 .. Tries - 1 /\ query.server \in Servers
        BY <2>1, <2>2, <3>4
        DEF ResolverInv, RoundInv, TypeInv, QueryType, Queries, Current
      <4>2. TAKE s \in Servers
      <4>3. query.sends[s] \in Nat
        BY <2>2 DEF Queries
      <4>4. CASE query.tcp
        <5>1. query.sends[s] <= IF s < query.server THEN Tries + 1 ELSE Tries
          BY <4>1, <4>4 DEF AskedBefore
        <5>2. QED
          BY <2>2, <4>3, <5>1
      <4>5. CASE ~query.tcp
        <5>1. query.sends[s] <= IF s < query.server THEN query.try + 1 ELSE query.try
          BY <4>1, <4>5 DEF AskedBefore
        <5>2. QED
          BY <2>2, <4>1, <4>3, <5>1
      <4>6. QED
        BY <4>4, <4>5
    <3>5. QED
      BY <2>1, <2>2, <3>1, <3>2, <3>3, <3>4 DEF ResolverInv, CallsInv, Places, Phases
  <2>4. QED
    BY <2>1, <2>3 DEF ResolverInv, RoundInv, AskedAsOften, Reason
<1>3. ResolverInv => SkippedNotAsked
  BY DEF ResolverInv, SkipInv, CallsInv, SkippedNotAsked
<1>4. ResolverInv => WaitsOnOpenSocket
  <2>1. ResolverInv => (query = NoQuery <=> ~Live)
    BY QueryRuns DEF ResolverInv, TypeInv
  <2>2. QED
    BY <2>1 DEF ResolverInv, OpenInv, Phases, WaitsOnOpenSocket
<1>5. QED
  BY <1>1, <1>2, <1>3, <1>4, ResolverInvariant, PTL DEF EveryServerHadItsTries

=============================================================================
