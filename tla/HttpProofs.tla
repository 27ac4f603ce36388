---------------------------- MODULE HttpProofs -----------------------------
(***************************************************************************)
(* For any URLs, status codes, redirect limit and number of descriptors:   *)
(* the chain of redirects is counted, a request goes to its own host,      *)
(* every open socket belongs to a call in progress, no call takes the      *)
(* answer to another's request, and what is reported is the status at the  *)
(* end of the chain.  And, for any web, limit of URLs and depth: every part *)
(* of a page is asked for, nothing else is, and what was fetched is        *)
(* counted.                                                                *)
(***************************************************************************)
EXTENDS Http, PageParts, SequenceTheorems, WellFoundedInduction, TLAPS

Places == {"connect", "send", "response", "body", "redirect", "redirecting", "return"}
Whys == {"none", "connect", "silent", "invalid", "code", "limit", "no_location"}

Frames ==
    [kind : Kinds, req : Requests, fd : Fds \cup {0}, at : Places,
     answer : Responses \cup {NoResponse}, ret : Codes \cup {0, -1} \cup {None}, why : Whys]

Conns ==
    [open : {TRUE}, host : {u.host : u \in Urls}, port : {u.port : u \in Urls},
     asked : Seq(Nat), wire : Seq(Responses \cup {Rest})]

HttpType ==
    /\ calls \in Seq(Frames)
    /\ conns \in [Fds -> Conns \cup {Closed}]

(* A call below another one waits for it, and counts the redirects before it. *)
CountInv ==
    /\ Depth <= RedirectLimit + 1
    /\ \A i \in 1 .. Depth :
          /\ calls[i].at # "return" => calls[i].req.redirects = i - 1
          /\ calls[i].at = "redirecting" <=> i < Depth

HasSocket == {"send", "response", "body", "redirect", "redirecting"}

(* Who has which socket: a redirected call its caller's, a call of its own   *)
(* one that no call below it has.                                            *)
FdInv ==
    /\ \A i \in 1 .. Depth :
          /\ calls[i].at = "connect" => calls[i].fd = 0 /\ calls[i].kind # "redirected"
          /\ calls[i].at \in HasSocket => calls[i].fd # 0
          /\ calls[i].kind = "redirected" => i > 1 /\ calls[i].fd = calls[i - 1].fd
          /\ calls[i].kind # "redirected" /\ calls[i].fd # 0 =>
                 \A j \in 1 .. i - 1 : calls[j].fd # calls[i].fd
    /\ \A fd \in Fds : conns[fd].open <=> \E i \in 1 .. Depth : calls[i].fd = fd

(* What GoesToItsHost needs of the call that runs: its connection is one to  *)
(* its host.                                                                *)
HostOf(frame, cs) ==
    frame.at \in {"send", "response", "body", "redirect"} =>
        cs[frame.fd].host = frame.req.host

HostInv == calls # <<>> => HostOf(Top, conns)

HttpInv == HttpType /\ CountInv /\ FdInv /\ HostInv

-----------------------------------------------------------------------------
(* The three ways the stack of calls changes.                              *)
LEMMA TopChanges ==
    ASSUME NEW S, NEW s \in Seq(S), s # <<>>, NEW f \in S
    PROVE  LET t == [s EXCEPT ![Len(s)] = f]
           IN  /\ t \in Seq(S) /\ Len(t) = Len(s) /\ t # <<>>
               /\ Len(s) \in Nat /\ Len(s) > 0
               /\ \A i \in 1 .. Len(s) : t[i] = IF i = Len(s) THEN f ELSE s[i]
<1>1. Len(s) \in Nat /\ Len(s) > 0
  BY EmptySeq
<1>2. QED
  BY <1>1, ExceptSeq

(* A call made by the running one: the new frame is on top, those below
   the caller's are as they were. *)
LEMMA CallMade ==
    ASSUME NEW S, NEW s \in Seq(S), s # <<>>, NEW f \in S, NEW g \in S
    PROVE  LET t == Append([s EXCEPT ![Len(s)] = f], g)
           IN  /\ t \in Seq(S) /\ Len(t) = Len(s) + 1
               /\ Len(s) \in Nat /\ Len(s) > 0
               /\ \A i \in 1 .. Len(s) + 1 :
                     t[i] = IF i = Len(s) + 1 THEN g ELSE IF i = Len(s) THEN f ELSE s[i]
<1> DEFINE u == [s EXCEPT ![Len(s)] = f]
<1>1. /\ u \in Seq(S) /\ Len(u) = Len(s) /\ Len(s) \in Nat /\ Len(s) > 0
      /\ \A i \in 1 .. Len(s) : u[i] = IF i = Len(s) THEN f ELSE s[i]
  BY TopChanges
<1> HIDE DEF u
<1>2. /\ Append(u, g) \in Seq(S) /\ Len(Append(u, g)) = Len(u) + 1
      /\ \A i \in 1 .. Len(u) + 1 : Append(u, g)[i] = IF i = Len(u) + 1 THEN g ELSE u[i]
  BY <1>1, AppendProperties
<1>3. \A i \in 1 .. Len(s) + 1 :
          Append(u, g)[i] = IF i = Len(s) + 1 THEN g ELSE IF i = Len(s) THEN f ELSE s[i]
  BY <1>1, <1>2
<1>4. QED
  BY <1>1, <1>2, <1>3 DEF u

(* A call that ends leaves the frames below its caller's as they were. *)
LEMMA CallEnds ==
    ASSUME NEW S, NEW s \in Seq(S), Len(s) > 1, NEW f \in S
    PROVE  LET t == [SubSeq(s, 1, Len(s) - 1) EXCEPT ![Len(s) - 1] = f]
           IN  /\ t \in Seq(S) /\ Len(t) = Len(s) - 1 /\ Len(s) \in Nat
               /\ \A i \in 1 .. Len(s) - 1 : t[i] = IF i = Len(s) - 1 THEN f ELSE s[i]
<1> DEFINE u == SubSeq(s, 1, Len(s) - 1)
<1>1. Len(s) \in Nat
  BY LenProperties
<1>2. \A i \in 1 .. Len(s) - 1 : s[i] \in S
  BY <1>1, ElementOfSeq
<1>3. /\ u \in Seq(S) /\ Len(u) = Len(s) - 1
      /\ \A i \in 1 .. Len(s) - 1 : u[i] = s[i]
  BY <1>1, <1>2, SubSeqProperties
<1> HIDE DEF u
<1>4. Len(s) - 1 \in 1 .. Len(u)
  BY <1>1, <1>3
<1>5. /\ [u EXCEPT ![Len(s) - 1] = f] \in Seq(S) /\ Len([u EXCEPT ![Len(s) - 1] = f]) = Len(u)
      /\ \A j \in 1 .. Len(u) :
            [u EXCEPT ![Len(s) - 1] = f][j] = IF j = Len(s) - 1 THEN f ELSE u[j]
  BY <1>3, <1>4, ExceptSeq
<1>6. QED
  BY <1>1, <1>3, <1>5 DEF u

-----------------------------------------------------------------------------
(* Types of what the steps build.                                          *)
LEMMA NewRequestType ==
    ASSUME NEW url \in Urls
    PROVE  NewRequest(url) \in Requests /\ NewRequest(url).redirects = 0
  BY HttpAssumption DEF NewRequest, Requests

(* A new call's frame is well-typed. *)
LEMMA FrameType ==
    ASSUME NEW kind \in Kinds, NEW req \in Requests, NEW fd \in Fds \cup {0}, NEW at \in Places
    PROVE  Frame(kind, req, fd, at) \in Frames
  BY DEF Frame, Frames, Whys

(* A call that is about to return keeps what it was and what it holds. *)
LEMMA ReturnsType ==
    ASSUME NEW frame \in Frames, NEW ret \in Codes \cup {0, -1}, NEW why \in Whys
    PROVE  LET f == Returns(frame, ret, why)
           IN  /\ f \in Frames /\ f.at = "return"
               /\ f.kind = frame.kind /\ f.fd = frame.fd /\ f.req = frame.req
  BY DEF Returns, Frames, Places

(* A redirected request counts one redirect more, under the limit. *)
LEMMA RedirectedType ==
    ASSUME NEW req \in Requests, ~LimitReached(req), NEW location
    PROVE  LET new == RedirectedRequest(req, location)
           IN  new \in Requests /\ new.redirects = req.redirects + 1
<1>1. req.redirects + 1 \in 0 .. RedirectLimit
  BY HttpAssumption DEF LimitReached, Requests
<1>2. CASE location \in Urls
  <2> DEFINE new == NewRequest(location)
  <2>1. new \in Requests
    BY <1>2, NewRequestType
  <2>2. RedirectedRequest(req, location) =
          [new EXCEPT !.redirects = req.redirects + 1, !.version = req.version]
    BY <1>2 DEF RedirectedRequest
  <2> HIDE DEF new
  <2>3. QED
    BY <1>1, <1>2, <2>1, <2>2 DEF Requests
<1>3. CASE location \notin Urls
  <2>1. RedirectedRequest(req, location) =
          [req EXCEPT !.redirects = req.redirects + 1, !.version = req.version]
    BY <1>3 DEF RedirectedRequest
  <2>2. QED
    BY <1>1, <2>1 DEF Requests
<1>4. QED
  BY <1>2, <1>3

(* Whatever the status of an answer, the call goes on with its own socket. *)
LEMMA AfterStatusType ==
    ASSUME NEW frame \in Frames, NEW r \in Responses
    PROVE  LET f == AfterStatus(frame, r)
           IN  /\ f \in Frames /\ f.at \in {"body", "redirect", "return"}
               /\ f.kind = frame.kind /\ f.fd = frame.fd
               /\ f.req.redirects = frame.req.redirects /\ f.req.host = frame.req.host
<1> DEFINE read == [frame EXCEPT !.answer = r, !.req.status = r.code,
                                 !.req.version = IF r.old THEN 0 ELSE @]
<1>1. r.code \in Codes
  BY DEF Responses
<1>2. /\ read \in Frames /\ read.kind = frame.kind /\ read.fd = frame.fd
      /\ read.req.redirects = frame.req.redirects /\ read.req.host = frame.req.host
  BY <1>1 DEF Frames, Requests
<1> HIDE DEF read
<1>3. AfterStatus(frame, r) \in {[read EXCEPT !.at = "body"], [read EXCEPT !.at = "redirect"],
                                Returns(read, r.code, "code")}
  BY DEF AfterStatus, read
<1>4. \A at \in {"body", "redirect"} :
          LET f == [read EXCEPT !.at = at]
          IN  /\ f \in Frames /\ f.at = at /\ f.kind = read.kind /\ f.fd = read.fd
              /\ f.req = read.req
  BY <1>2 DEF Frames, Places
<1>5. LET f == Returns(read, r.code, "code")
      IN  /\ f \in Frames /\ f.at = "return" /\ f.kind = read.kind /\ f.fd = read.fd
          /\ f.req = read.req
  BY <1>1, <1>2, ReturnsType DEF Whys
<1>6. QED
  BY <1>2, <1>3, <1>4, <1>5

(* What a redirected call's caller takes over from it is well-typed. *)
LEMMA CopiedBackType ==
    ASSUME NEW caller \in Frames, NEW callee \in Frames
    PROVE  LET f == CopiedBack(caller, callee)
           IN  /\ f \in Frames /\ f.at = "return"
               /\ f.kind = caller.kind /\ f.fd = caller.fd
  BY DEF CopiedBack, Returns, Frames, Requests, Places

(* socket() gives the lowest descriptor that is free.                      *)
LEMMA LowestFreeIsFree == FreeFds # {} => LowestFree \in FreeFds
<1> SUFFICES ASSUME FreeFds # {} PROVE LowestFree \in FreeFds
  OBVIOUS
<1>1. FreeFds \subseteq Nat
  BY HttpAssumption DEF FreeFds
<1>2. PICK m \in FreeFds : \A y \in FreeFds : ~(<<y, m>> \in OpToRel(<, Nat))
  BY <1>1, NatLessThanWellFounded, WFMin
<1>3. \A y \in FreeFds : m <= y
  <2>1. SUFFICES ASSUME NEW y \in FreeFds PROVE ~(y < m)
    BY <1>1, SMT
  <2>2. <<y, m>> \in Nat \X Nat
    BY <1>1
  <2>3. y < m => <<y, m>> \in OpToRel(<, Nat)
    BY <2>2, Zenon DEF OpToRel
  <2>4. QED
    BY <1>2, <2>3
<1>4. QED
  BY <1>3, Zenon DEF LowestFree

-----------------------------------------------------------------------------
(* A step of the innermost call that neither opens nor closes a socket.     *)
LEMMA TopStep ==
    ASSUME HttpType, CountInv, FdInv, calls # <<>>, NEW f \in Frames, calls' = WithTop(f),
           f.kind = Top.kind, f.fd = Top.fd, f.at \notin {"connect", "redirecting"},
           f.at = "return" \/ (Top.at \in HasSocket /\ f.req.redirects = Top.req.redirects),
           Top.at # "return",
           conns' \in [Fds -> Conns \cup {Closed}],
           \A fd \in Fds : conns'[fd].open <=> conns[fd].open
    PROVE  (HttpType /\ CountInv /\ FdInv)' /\ Depth' = Depth /\ Top' = f
<1>1. /\ calls' \in Seq(Frames) /\ Len(calls') = Len(calls) /\ Len(calls) \in Nat
      /\ Len(calls) > 0
      /\ \A i \in 1 .. Len(calls) : calls'[i] = IF i = Len(calls) THEN f ELSE calls[i]
  BY TopChanges DEF HttpType, WithTop, Depth
<1>2. HttpType'
  BY <1>1 DEF HttpType
<1>3. CountInv'
  BY <1>1, HttpAssumption DEF CountInv, Depth, Top
<1>4. \A i \in 1 .. Len(calls) : calls'[i].fd = calls[i].fd /\ calls'[i].kind = calls[i].kind
  BY <1>1 DEF Top, Depth
<1>5. FdInv'
  <2>1. \A i \in 1 .. Len(calls) :
            /\ calls'[i].at = "connect" => calls[i].at = "connect"
            /\ calls'[i].at \in HasSocket => calls[i].at \in HasSocket
    BY <1>1 DEF Top, Depth, Frames, Places, HasSocket
  <2>2. \A i \in 1 .. Len(calls) :
            calls'[i].kind = "redirected" => i > 1 /\ calls'[i].fd = calls'[i - 1].fd
    BY <1>1, <1>4 DEF FdInv, Depth
  <2>3. \A i \in 1 .. Len(calls) :
            calls'[i].kind # "redirected" /\ calls'[i].fd # 0 =>
                \A j \in 1 .. i - 1 : calls'[j].fd # calls'[i].fd
    BY <1>1, <1>4 DEF FdInv, Depth
  <2>4. \A fd \in Fds : conns'[fd].open <=> \E i \in 1 .. Len(calls) : calls'[i].fd = fd
    BY <1>4 DEF FdInv, Depth
  <2>5. \A i \in 1 .. Len(calls) :
            /\ calls'[i].at = "connect" => calls'[i].fd = 0 /\ calls'[i].kind # "redirected"
            /\ calls'[i].at \in HasSocket => calls'[i].fd # 0
    BY <1>4, <2>1 DEF FdInv, Depth
  <2>6. QED
    BY <1>1, <2>2, <2>3, <2>4, <2>5 DEF FdInv, Depth
<1>6. QED
  BY <1>1, <1>2, <1>3, <1>5 DEF Depth, Top

-----------------------------------------------------------------------------
(* The steps, one lemma each for those that are more than a few lines.      *)
(* A connection that is opened takes a free descriptor, so no other call's. *)
LEMMA OpensItsOwn ==
    ASSUME HttpInv, HttpConnect
    PROVE  HttpInv'
<1> DEFINE fd == LowestFree
           conn == [open |-> TRUE, host |-> Top.req.host, port |-> Top.req.port,
                    asked |-> <<>>, wire |-> <<>>]
           f == [Top EXCEPT !.fd = fd, !.at = "send"]
<1>1. calls \in Seq(Frames) /\ calls # <<>> /\ Top \in Frames /\ Top.at = "connect"
  <2>1. calls # <<>> /\ Top.at = "connect" /\ calls \in Seq(Frames)
    BY DEF HttpConnect, HttpInv, HttpType
  <2>2. Len(calls) \in 1 .. Len(calls)
    BY <2>1, EmptySeq
  <2>3. QED
    BY <2>1, <2>2, ElementOfSeq DEF Top, Depth
<1>2. fd \in Fds /\ ~conns[fd].open /\ fd # 0
  BY LowestFreeIsFree, HttpAssumption DEF HttpConnect, FreeFds, OpenFds
<1>3. conns' = [conns EXCEPT ![fd] = conn] /\ calls' = WithTop(f)
  BY DEF HttpConnect
<1>4. conn \in Conns
  BY <1>1 DEF Conns, Frames, Requests
<1>5. /\ f \in Frames /\ f.kind = Top.kind /\ f.fd = fd /\ f.req = Top.req
      /\ f.at = "send"
  BY <1>1, <1>2 DEF Frames, Places
<1>6. \A g \in Fds : conns'[g] = IF g = fd THEN conn ELSE conns[g]
  BY <1>2, <1>3 DEF HttpInv, HttpType
<1>7. conn.open = TRUE /\ conn.host = Top.req.host
  OBVIOUS
<1>8. conns' \in [Fds -> Conns \cup {Closed}]
  BY <1>3, <1>4 DEF HttpInv, HttpType
<1> HIDE DEF fd, conn, f
<1>9. /\ calls' \in Seq(Frames) /\ Len(calls') = Len(calls) /\ Len(calls) \in Nat
      /\ Len(calls) > 0
      /\ \A i \in 1 .. Len(calls) : calls'[i] = IF i = Len(calls) THEN f ELSE calls[i]
  BY <1>1, <1>3, <1>5, TopChanges DEF WithTop, Depth
<1>10. CountInv'
  BY <1>1, <1>5, <1>9 DEF HttpInv, CountInv, Depth, Top
<1>11. Top.fd = 0 /\ Top.kind # "redirected"
  BY <1>1, <1>9 DEF HttpInv, FdInv, Depth, Top
<1>12. \A i \in 1 .. Len(calls) : calls[i].fd # fd
  BY <1>2 DEF HttpInv, FdInv, Depth
<1>13. FdInv'
  <2>1. \A i \in 1 .. Len(calls) :
            /\ calls'[i].at = "connect" => calls'[i].fd = 0 /\ calls'[i].kind # "redirected"
            /\ calls'[i].at \in HasSocket => calls'[i].fd # 0
            /\ calls'[i].kind = "redirected" => i > 1 /\ calls'[i].fd = calls'[i - 1].fd
    BY <1>2, <1>5, <1>9, <1>11 DEF HttpInv, FdInv, Depth, HasSocket
  <2>2. \A i \in 1 .. Len(calls) :
            calls'[i].kind # "redirected" /\ calls'[i].fd # 0 =>
                \A j \in 1 .. i - 1 : calls'[j].fd # calls'[i].fd
    BY <1>5, <1>9, <1>12 DEF HttpInv, FdInv, Depth
  <2>3. \A g \in Fds : conns'[g].open <=> \E i \in 1 .. Len(calls) : calls'[i].fd = g
    <3> SUFFICES ASSUME NEW g \in Fds
                 PROVE  conns'[g].open <=> \E i \in 1 .. Len(calls) : calls'[i].fd = g
      OBVIOUS
    <3>1. CASE g = fd
      BY <1>5, <1>6, <1>7, <1>9, <3>1
    <3>2. CASE g # fd
      <4>1. g # 0
        BY HttpAssumption
      <4>2. (\E i \in 1 .. Len(calls) : calls'[i].fd = g)
              <=> \E i \in 1 .. Len(calls) : calls[i].fd = g
        BY <1>5, <1>9, <1>11, <3>2, <4>1 DEF Top, Depth
      <4>3. conns[g].open <=> \E i \in 1 .. Len(calls) : calls[i].fd = g
        BY DEF HttpInv, FdInv, Depth
      <4>4. conns'[g] = conns[g]
        BY <1>6, <3>2
      <4>5. QED
        BY <4>2, <4>3, <4>4
    <3>3. QED
      BY <3>1, <3>2
  <2>4. QED
    BY <1>9, <2>1, <2>2, <2>3 DEF FdInv, Depth
<1>14. HostInv'
  <2>1. Top' = f
    BY <1>9 DEF Top, Depth
  <2>2. conns'[fd] = conn
    BY <1>2, <1>6
  <2>3. QED
    BY <1>5, <1>7, <2>1, <2>2 DEF HostInv, HostOf
<1>15. QED
  BY <1>8, <1>9, <1>10, <1>13, <1>14 DEF HttpInv, HttpType

(* The call that runs, and the connection behind its descriptor.           *)
LEMMA Running ==
    ASSUME HttpInv, calls # <<>>
    PROVE  /\ Top \in Frames /\ Depth \in Nat /\ Depth > 0 /\ Top = calls[Depth]
           /\ Top.at # "redirecting"
           /\ Top.at \in HasSocket => Top.fd \in Fds /\ conns[Top.fd] \in Conns
<1>1. calls \in Seq(Frames) /\ Len(calls) \in 1 .. Len(calls) /\ Len(calls) \in Nat
  BY EmptySeq DEF HttpInv, HttpType
<1>2. Top \in Frames
  BY <1>1, ElementOfSeq DEF Top, Depth
<1>3. Top.at # "redirecting"
  BY <1>1 DEF HttpInv, CountInv, Depth, Top
<1>4. ASSUME Top.at \in HasSocket PROVE Top.fd \in Fds /\ conns[Top.fd] \in Conns
  <2>1. Top.fd \in Fds
    BY <1>1, <1>2, <1>4 DEF HttpInv, FdInv, Frames, Top, Depth
  <2>2. conns[Top.fd].open
    BY <1>1, <2>1 DEF HttpInv, FdInv, Top, Depth
  <2>3. ~Closed.open
    BY DEF Closed
  <2>4. conns[Top.fd] # Closed
    BY <2>2, <2>3
  <2>5. QED
    BY <2>1, <2>4 DEF HttpInv, HttpType
<1>5. QED
  BY <1>1, <1>2, <1>3, <1>4 DEF Depth, Top

(* A change of a connection that stays open.                               *)
LEMMA ConnChanges ==
    ASSUME HttpType, NEW fd \in Fds, conns[fd] \in Conns, NEW c \in Conns,
           conns' = [conns EXCEPT ![fd] = c]
    PROVE  /\ conns' \in [Fds -> Conns \cup {Closed}] /\ conns'[fd] = c
           /\ \A g \in Fds : conns'[g].open <=> conns[g].open
<1>1. conns[fd].open = TRUE /\ c.open = TRUE
  BY DEF Conns
<1>2. \A g \in Fds : conns'[g] = IF g = fd THEN c ELSE conns[g]
  BY DEF HttpType
<1>3. QED
  BY <1>1, <1>2 DEF HttpType

(* The call that runs gets what it returns: failures of all kinds, answers   *)
(* that are final, pages.                                                    *)
LEMMA GivesUp ==
    ASSUME HttpInv, calls # <<>>, Top.at # "return",
           NEW ret \in Codes \cup {0, -1}, NEW why \in Whys,
           calls' = WithTop(Returns(Top, ret, why)),
           conns' \in [Fds -> Conns \cup {Closed}],
           \A fd \in Fds : conns'[fd].open <=> conns[fd].open
    PROVE  HttpInv'
<1> DEFINE f == Returns(Top, ret, why)
<1>1. f \in Frames /\ f.at = "return" /\ f.kind = Top.kind /\ f.fd = Top.fd
  BY Running, ReturnsType
<1>2. calls' = WithTop(f)
  OBVIOUS
<1> HIDE DEF f
<1>3. (HttpType /\ CountInv /\ FdInv)' /\ Top' = f
  BY <1>1, <1>2, TopStep DEF HttpInv
<1>4. HostInv'
  BY <1>1, <1>3 DEF HostInv, HostOf
<1>5. QED
  BY <1>3, <1>4 DEF HttpInv

(* The early returns of a call preserve the invariant. *)
LEMMA Fails ==
    ASSUME HttpInv, ConnectFails \/ NoHeader \/ InvalidHeader
    PROVE  HttpInv'
<1>1. /\ calls # <<>> /\ Top.at # "return" /\ UNCHANGED conns
      /\ \E why \in Whys : calls' = WithTop(Returns(Top, -1, why))
  BY DEF ConnectFails, NoHeader, InvalidHeader, Whys
<1>2. QED
  BY <1>1, GivesUp DEF HttpInv, HttpType

(* Sending the request preserves the invariant. *)
LEMMA Sends ==
    ASSUME HttpInv, SendRequest
    PROVE  HttpInv'
<1> DEFINE f == [Top EXCEPT !.at = "response"]
           c == [conns[Top.fd] EXCEPT !.asked = Append(@, Depth)]
<1>1. calls # <<>> /\ Top.at = "send" /\ calls' = WithTop(f)
  BY DEF SendRequest
<1>2. Top \in Frames /\ Top.fd \in Fds /\ conns[Top.fd] \in Conns /\ Depth \in Nat
  BY <1>1, Running DEF HasSocket
<1>3. /\ f \in Frames /\ f.at = "response" /\ f.kind = Top.kind /\ f.fd = Top.fd
      /\ f.req = Top.req
  BY <1>2 DEF Frames, Places
<1>4. c \in Conns /\ c.host = conns[Top.fd].host
  <2>1. Append(conns[Top.fd].asked, Depth) \in Seq(Nat)
    BY <1>2, AppendProperties DEF Conns
  <2>2. QED
    BY <1>2, <2>1 DEF Conns
<1>5. conns' = [conns EXCEPT ![Top.fd] = c] \/ UNCHANGED conns
  BY DEF SendRequest
<1> HIDE DEF f, c
<1>6. /\ conns' \in [Fds -> Conns \cup {Closed}]
      /\ conns'[Top.fd].host = conns[Top.fd].host
      /\ \A g \in Fds : conns'[g].open <=> conns[g].open
  <2>1. CASE conns' = [conns EXCEPT ![Top.fd] = c]
    BY <1>2, <1>4, <2>1, ConnChanges DEF HttpInv
  <2>2. CASE UNCHANGED conns
    BY <2>2 DEF HttpInv, HttpType
  <2>3. QED
    BY <1>5, <2>1, <2>2
<1>7. (HttpType /\ CountInv /\ FdInv)' /\ Top' = f
  BY <1>1, <1>3, <1>6, TopStep DEF HttpInv, HasSocket
<1>8. HostOf(f, conns')
  BY <1>1, <1>3, <1>6 DEF HttpInv, HostInv, HostOf
<1>9. QED
  BY <1>7, <1>8 DEF HttpInv, HostInv

(* Reading an answer's header preserves the invariant. *)
LEMMA Reads ==
    ASSUME HttpInv, HandleResponse
    PROVE  HttpInv'
<1> DEFINE r == Head(conns[Top.fd].wire)
           f == AfterStatus(Top, r)
           c == [conns[Top.fd] EXCEPT !.wire =
                    (IF r.rest THEN <<Rest>> ELSE <<>>) \o Tail(@)]
<1>1. /\ calls # <<>> /\ Top.at = "response" /\ calls' = WithTop(f)
      /\ conns[Top.fd].wire # <<>> /\ r # Rest
      /\ conns' = [conns EXCEPT ![Top.fd] = c]
  BY DEF HandleResponse
<1>2. Top \in Frames /\ Top.fd \in Fds /\ conns[Top.fd] \in Conns
  BY <1>1, Running DEF HasSocket
<1>3. r \in Responses /\ Tail(conns[Top.fd].wire) \in Seq(Responses \cup {Rest})
  <2>1. conns[Top.fd].wire \in Seq(Responses \cup {Rest})
    BY <1>2 DEF Conns
  <2>2. QED
    BY <1>1, <2>1, HeadTailProperties
<1>4. c \in Conns /\ c.host = conns[Top.fd].host
  <2>1. <<Rest>> \in Seq(Responses \cup {Rest}) /\ <<>> \in Seq(Responses \cup {Rest})
    OBVIOUS
  <2>2. (IF r.rest THEN <<Rest>> ELSE <<>>) \o Tail(conns[Top.fd].wire)
            \in Seq(Responses \cup {Rest})
    BY <1>3, <2>1, ConcatProperties
  <2>3. QED
    BY <1>2, <2>2 DEF Conns
<1> HIDE DEF r
<1>5. /\ f \in Frames /\ f.at \in {"body", "redirect", "return"}
      /\ f.kind = Top.kind /\ f.fd = Top.fd
      /\ f.req.redirects = Top.req.redirects /\ f.req.host = Top.req.host
  BY <1>2, <1>3, AfterStatusType
<1> HIDE DEF f, c
<1>6. /\ conns' \in [Fds -> Conns \cup {Closed}] /\ conns'[Top.fd] = c
      /\ \A g \in Fds : conns'[g].open <=> conns[g].open
  BY <1>1, <1>2, <1>4, ConnChanges DEF HttpInv
<1>7. (HttpType /\ CountInv /\ FdInv)' /\ Top' = f
  BY <1>1, <1>5, <1>6, TopStep DEF HttpInv, HasSocket
<1>8. HostOf(f, conns')
  BY <1>1, <1>4, <1>5, <1>6 DEF HttpInv, HostInv, HostOf
<1>9. QED
  BY <1>7, <1>8 DEF HttpInv, HostInv

(* Reading the body preserves the invariant. *)
LEMMA ReadsBody ==
    ASSUME HttpInv, ReadBody
    PROVE  HttpInv'
<1> DEFINE c == [conns[Top.fd] EXCEPT !.wire = <<>>]
<1>1. /\ calls # <<>> /\ Top.at = "body" /\ calls' = WithTop(Returns(Top, 0, "code"))
      /\ conns' = [conns EXCEPT ![Top.fd] = c]
  BY DEF ReadBody
<1>2. Top.fd \in Fds /\ conns[Top.fd] \in Conns
  BY <1>1, Running DEF HasSocket
<1>3. c \in Conns
  <2>1. <<>> \in Seq(Responses \cup {Rest})
    OBVIOUS
  <2>2. QED
    BY <1>2, <2>1 DEF Conns
<1> HIDE DEF c
<1>4. /\ conns' \in [Fds -> Conns \cup {Closed}]
      /\ \A g \in Fds : conns'[g].open <=> conns[g].open
  BY <1>1, <1>2, <1>3, ConnChanges DEF HttpInv
<1>5. QED
  BY <1>1, <1>4, GivesUp DEF Whys

(* Following a redirect preserves the invariant, on the same connection
   or on a new one. *)
LEMMA Redirected ==
    ASSUME HttpInv, HandleRedirect
    PROVE  HttpInv'
<1>1. calls # <<>> /\ Top.at = "redirect" /\ UNCHANGED conns
  BY DEF HandleRedirect
<1>2. CASE \E why \in Whys : calls' = WithTop(Returns(Top, -1, why))
  BY <1>1, <1>2, GivesUp DEF HttpInv, HttpType
<1> DEFINE req == Top.req
           r == Top.answer
           new == RedirectedRequest(req, r.location)
           f == [Top EXCEPT !.at = "redirecting", !.answer = NoResponse]
           reused == Frame("redirected", new, Top.fd, "send")
           own == Frame("http_get", new, 0, "connect")
           g == IF CanReuse(req, new, r.keepalive) THEN reused ELSE own
<1>3. CASE ~LimitReached(req) /\ calls' = Append(WithTop(f), g)
  <2>1. /\ Top \in Frames /\ Depth \in Nat /\ Depth > 0 /\ Top = calls[Depth]
        /\ Top.fd \in Fds
    BY <1>1, Running DEF HasSocket
  <2>2. req \in Requests
    BY <2>1 DEF Frames
  <2>3. /\ req.redirects = Depth - 1 /\ Depth + 1 <= RedirectLimit + 1
    BY <1>1, <1>3, <2>1, HttpAssumption DEF HttpInv, CountInv, LimitReached
  <2>4. conns[Top.fd].host = req.host
    BY <1>1 DEF HttpInv, HostInv, HostOf
  <2>5. new \in Requests /\ new.redirects = Depth
    <3>1. new \in Requests /\ new.redirects = req.redirects + 1
      BY <1>3, <2>2, RedirectedType
    <3>2. QED
      BY <2>1, <2>3, <3>1
  <2>6. /\ f \in Frames /\ f.at = "redirecting" /\ f.fd = Top.fd /\ f.kind = Top.kind
        /\ f.req = req
    BY <2>1 DEF Frames, Places
  <2> HIDE DEF new, req, r
  <2>7. /\ reused \in Frames /\ reused.at = "send" /\ reused.kind = "redirected"
        /\ reused.fd = Top.fd /\ reused.req = new
    BY <2>1, <2>5, FrameType DEF Frame, Kinds, Places
  <2>8. /\ own \in Frames /\ own.at = "connect" /\ own.kind = "http_get"
        /\ own.fd = 0 /\ own.req = new
    BY <2>5, FrameType DEF Frame, Kinds, Places
  <2>9. HostOf(g, conns)
    <3>1. CASE CanReuse(req, new, r.keepalive)
      <4>1. req.host = new.host
        BY <3>1 DEF CanReuse
      <4>2. g = reused
        BY <3>1
      <4>3. QED
        BY <2>4, <2>7, <4>1, <4>2 DEF HostOf
    <3>2. CASE ~CanReuse(req, new, r.keepalive)
      BY <2>5, <2>8, <3>2 DEF HostOf
    <3>3. QED
      BY <3>1, <3>2
  <2>10. /\ g \in Frames /\ g.at \notin {"redirecting", "return"}
         /\ g.req.redirects = Depth
         /\ \/ g.at = "connect" /\ g.kind = "http_get" /\ g.fd = 0
            \/ g.at = "send" /\ g.kind = "redirected" /\ g.fd = Top.fd
    BY <2>5, <2>7, <2>8
  <2> HIDE DEF f, g
  <2>11. /\ calls' \in Seq(Frames) /\ Len(calls') = Depth + 1
         /\ \A i \in 1 .. Depth + 1 :
                calls'[i] = IF i = Depth + 1 THEN g ELSE IF i = Depth THEN f ELSE calls[i]
    BY <1>1, <1>3, <2>6, <2>10, CallMade DEF HttpInv, HttpType, WithTop, Depth
  <2>12. CountInv'
    BY <2>1, <2>3, <2>6, <2>10, <2>11, HttpAssumption DEF HttpInv, CountInv, Depth
  <2>13. \A i \in 1 .. Depth : calls'[i].fd = calls[i].fd /\ calls'[i].kind = calls[i].kind
    BY <2>1, <2>6, <2>11
  <2>14. FdInv'
    <3>1. \A i \in 1 .. Depth :
              /\ calls'[i].at = "connect" => calls[i].at = "connect"
              /\ calls'[i].at \in HasSocket => calls[i].at \in HasSocket
      BY <1>1, <2>1, <2>6, <2>11 DEF HasSocket
    <3>2. \A i \in 1 .. Depth + 1 :
              /\ calls'[i].at = "connect" => calls'[i].fd = 0 /\ calls'[i].kind # "redirected"
              /\ calls'[i].at \in HasSocket => calls'[i].fd # 0
              /\ calls'[i].kind = "redirected" => i > 1 /\ calls'[i].fd = calls'[i - 1].fd
      <4>1. ASSUME NEW i \in 1 .. Depth
            PROVE  /\ calls'[i].at = "connect" => calls'[i].fd = 0 /\ calls'[i].kind # "redirected"
                   /\ calls'[i].at \in HasSocket => calls'[i].fd # 0
        BY <2>13, <3>1 DEF HttpInv, FdInv
      <4>2. ASSUME NEW i \in 1 .. Depth, calls'[i].kind = "redirected"
            PROVE  i > 1 /\ calls'[i].fd = calls'[i - 1].fd
        <5>1. i > 1 /\ calls[i].fd = calls[i - 1].fd
          BY <2>13, <4>2 DEF HttpInv, FdInv
        <5>2. i - 1 \in 1 .. Depth
          BY <2>1, <5>1
        <5>3. QED
          BY <2>13, <5>1, <5>2
      <4>3. calls'[Depth + 1] = g /\ calls'[Depth].fd = Top.fd
        BY <2>1, <2>11, <2>13
      <4>4. Top.fd # 0
        BY <2>1, HttpAssumption
      <4>5. /\ calls'[Depth + 1].at = "connect" =>
                  calls'[Depth + 1].fd = 0 /\ calls'[Depth + 1].kind # "redirected"
            /\ calls'[Depth + 1].at \in HasSocket => calls'[Depth + 1].fd # 0
            /\ calls'[Depth + 1].kind = "redirected" => calls'[Depth + 1].fd = calls'[Depth].fd
        BY <2>10, <4>3, <4>4 DEF HasSocket
      <4>6. QED
        BY <2>1, <4>1, <4>2, <4>5
    <3>3. \A i \in 1 .. Depth + 1 :
              calls'[i].kind # "redirected" /\ calls'[i].fd # 0 =>
                  \A j \in 1 .. i - 1 : calls'[j].fd # calls'[i].fd
      BY <2>1, <2>10, <2>11, <2>13 DEF HttpInv, FdInv
    <3>4. \A fd \in Fds : conns'[fd].open <=> \E i \in 1 .. Depth + 1 : calls'[i].fd = fd
      <4> SUFFICES ASSUME NEW fd \in Fds
                   PROVE  conns'[fd].open <=> \E i \in 1 .. Depth + 1 : calls'[i].fd = fd
        OBVIOUS
      <4>1. fd # 0
        BY HttpAssumption
      <4>2. (\E i \in 1 .. Depth + 1 : calls'[i].fd = fd)
               <=> \E i \in 1 .. Depth : calls[i].fd = fd
        BY <2>1, <2>10, <2>11, <2>13, <4>1
      <4>3. QED
        BY <1>1, <4>2 DEF HttpInv, FdInv
    <3>5. QED
      BY <2>11, <3>2, <3>3, <3>4 DEF FdInv, Depth
  <2>15. Top' = g
    BY <2>1, <2>11 DEF Top, Depth
  <2>16. QED
    BY <1>1, <2>9, <2>11, <2>12, <2>14, <2>15 DEF HttpInv, HttpType, HostInv
<1>4. QED
  BY <1>2, <1>3 DEF HandleRedirect, Whys

(* A call ends; its socket goes unless it is the caller's.                  *)
LEMMA SocketsLeft ==
    ASSUME HttpInv, Return
    PROVE  /\ conns' \in [Fds -> Conns \cup {Closed}]
           /\ \A fd \in Fds :
                 conns'[fd].open <=> \E i \in 1 .. Depth - 1 : calls[i].fd = fd
<1>1. calls # <<>> /\ Top.at = "return"
  BY DEF Return
<1>2. /\ Top \in Frames /\ Depth \in Nat /\ Depth > 0 /\ Top = calls[Depth]
  BY <1>1, Running
<1>3. Top.kind = "redirected" => Depth > 1 /\ Top.fd = calls[Depth - 1].fd
  BY <1>2 DEF HttpInv, FdInv
<1>4. Top.kind # "redirected" /\ Top.fd # 0 => \A j \in 1 .. Depth - 1 : calls[j].fd # Top.fd
  BY <1>2 DEF HttpInv, FdInv
<1>5. \A fd \in Fds : conns[fd].open <=> \E i \in 1 .. Depth : calls[i].fd = fd
  BY DEF HttpInv, FdInv
<1>6. CASE ClosesSocket(Top)
  <2>1. Top.fd \in Fds /\ conns' = [conns EXCEPT ![Top.fd] = Closed]
    BY <1>2, <1>6 DEF ClosesSocket, Return, Frames
  <2>2. conns' \in [Fds -> Conns \cup {Closed}]
    BY <2>1 DEF HttpInv, HttpType
  <2>3. \A fd \in Fds : conns'[fd] = IF fd = Top.fd THEN Closed ELSE conns[fd]
    BY <2>1 DEF HttpInv, HttpType
  <2>4. ~Closed.open
    BY DEF Closed
  <2>5. ASSUME NEW fd \in Fds
        PROVE  conns'[fd].open <=> \E i \in 1 .. Depth - 1 : calls[i].fd = fd
    <3>1. CASE fd = Top.fd
      BY <1>4, <1>6, <2>3, <2>4, <3>1 DEF ClosesSocket
    <3>2. CASE fd # Top.fd
      BY <1>2, <1>5, <2>3, <3>2
    <3>3. QED
      BY <3>1, <3>2
  <2>6. QED
    BY <2>2, <2>5
<1>7. CASE ~ClosesSocket(Top)
  <2>1. UNCHANGED conns
    BY <1>7 DEF Return
  <2>2. ASSUME NEW fd \in Fds
        PROVE  conns[fd].open <=> \E i \in 1 .. Depth - 1 : calls[i].fd = fd
    <3>1. fd # 0
      BY HttpAssumption
    <3>2. CASE fd = Top.fd
      <4>1. Depth - 1 \in 1 .. Depth - 1 /\ calls[Depth - 1].fd = fd
        BY <1>2, <1>3, <1>7, <3>1, <3>2 DEF ClosesSocket
      <4>2. Depth - 1 \in 1 .. Depth
        BY <1>2, <4>1
      <4>3. QED
        BY <1>5, <4>1, <4>2
    <3>3. CASE fd # Top.fd
      BY <1>2, <1>5, <3>3
    <3>4. QED
      BY <3>2, <3>3
  <2>3. QED
    BY <2>1, <2>2 DEF HttpInv, HttpType
<1>8. QED
  BY <1>6, <1>7

(* The end of a call, the outermost or a redirected one, preserves the
   invariant. *)
LEMMA Returned ==
    ASSUME HttpInv, Return
    PROVE  HttpInv'
<1>1. calls # <<>> /\ Top.at = "return"
  BY DEF Return
<1>2. /\ Top \in Frames /\ Depth \in Nat /\ Depth > 0 /\ calls \in Seq(Frames)
  BY <1>1, Running DEF HttpInv, HttpType
<1>3. CASE Depth = 1
  <2>1. calls' = <<>> /\ Len(calls') = 0
    BY <1>3 DEF Return
  <2>2. \A fd \in Fds : ~conns'[fd].open
    BY <1>3, SocketsLeft
  <2>3. (HttpType /\ HostInv)'
    BY <2>1, SocketsLeft DEF HttpType, HostInv
  <2>4. (CountInv /\ FdInv)'
    BY <2>1, <2>2, HttpAssumption DEF CountInv, FdInv, Depth
  <2>5. QED
    BY <2>3, <2>4 DEF HttpInv
<1>4. CASE Depth > 1
  <2> DEFINE f == CopiedBack(calls[Depth - 1], Top)
  <2>1. Depth - 1 \in 1 .. Depth - 1 /\ Depth - 1 \in 1 .. Len(calls)
    BY <1>2, <1>4 DEF Depth
  <2>2. /\ f \in Frames /\ f.at = "return" /\ f.kind = calls[Depth - 1].kind
        /\ f.fd = calls[Depth - 1].fd
    BY <1>2, <2>1, ElementOfSeq, CopiedBackType
  <2>3. calls' = [SubSeq(calls, 1, Depth - 1) EXCEPT ![Depth - 1] = f]
    BY <1>4 DEF Return
  <2> HIDE DEF f
  <2>4. /\ calls' \in Seq(Frames) /\ Len(calls') = Depth - 1
        /\ \A i \in 1 .. Depth - 1 : calls'[i] = IF i = Depth - 1 THEN f ELSE calls[i]
    BY <1>2, <1>4, <2>2, <2>3, CallEnds DEF Depth
  <2>5. \A i \in 1 .. Depth - 1 : calls'[i].fd = calls[i].fd /\ calls'[i].kind = calls[i].kind
    BY <2>2, <2>4
  <2>6. CountInv'
    <3>1. \A i \in 1 .. Depth - 1 : i \in 1 .. Depth /\ (i # Depth - 1 => i < Depth - 1)
      BY <1>2
    <3>2. \A i \in 1 .. Depth - 1 :
              /\ calls'[i].at # "return" => calls'[i].req.redirects = i - 1
              /\ calls'[i].at = "redirecting" <=> i < Depth - 1
      BY <1>2, <2>2, <2>4, <3>1 DEF HttpInv, CountInv
    <3>3. Depth - 1 <= RedirectLimit + 1
      BY <1>2, HttpAssumption DEF HttpInv, CountInv
    <3>4. QED
      BY <2>4, <3>2, <3>3 DEF CountInv, Depth
  <2>7. FdInv'
    <3>1. \A i \in 1 .. Depth - 1 :
              /\ calls'[i].at = "connect" => calls[i].at = "connect"
              /\ calls'[i].at \in HasSocket => calls[i].at \in HasSocket
      BY <2>2, <2>4 DEF HasSocket
    <3>2. \A i \in 1 .. Depth - 1 : i \in 1 .. Depth
      BY <1>2
    <3>3. \A i \in 1 .. Depth - 1 :
              /\ calls'[i].at = "connect" => calls'[i].fd = 0 /\ calls'[i].kind # "redirected"
              /\ calls'[i].at \in HasSocket => calls'[i].fd # 0
      BY <2>5, <3>1, <3>2 DEF HttpInv, FdInv
    <3>4. ASSUME NEW i \in 1 .. Depth - 1, calls'[i].kind = "redirected"
          PROVE  i > 1 /\ calls'[i].fd = calls'[i - 1].fd
      <4>1. i > 1 /\ calls[i].fd = calls[i - 1].fd
        BY <2>5, <3>2, <3>4 DEF HttpInv, FdInv
      <4>2. i - 1 \in 1 .. Depth - 1
        BY <1>2, <4>1
      <4>3. QED
        BY <2>5, <4>1, <4>2
    <3>5. ASSUME NEW i \in 1 .. Depth - 1, calls'[i].kind # "redirected", calls'[i].fd # 0,
                 NEW j \in 1 .. i - 1
          PROVE  calls'[j].fd # calls'[i].fd
      <4>1. calls[j].fd # calls[i].fd
        BY <2>5, <3>2, <3>5 DEF HttpInv, FdInv
      <4>2. j \in 1 .. Depth - 1
        BY <1>2
      <4>3. QED
        BY <2>5, <4>1, <4>2
    <3>6. \A fd \in Fds : conns'[fd].open <=> \E i \in 1 .. Depth - 1 : calls'[i].fd = fd
      BY <2>5, SocketsLeft
    <3>7. QED
      BY <2>4, <3>3, <3>4, <3>5, <3>6 DEF FdInv, Depth
  <2>8. Top' = f
    BY <1>2, <2>1, <2>4 DEF Top, Depth
  <2>9. HostInv'
    BY <2>2, <2>8 DEF HostInv, HostOf
  <2>10. QED
    BY <2>4, <2>6, <2>7, <2>9, SocketsLeft DEF HttpInv, HttpType
<1>5. QED
  BY <1>2, <1>3, <1>4

(* The start of a request preserves the invariant. *)
LEMMA Starts ==
    ASSUME HttpInv, Start
    PROVE  HttpInv'
<1>1. PICK url \in Urls, kind \in {"http_get", "http_post_str"} :
          calls' = <<Frame(kind, NewRequest(url), 0, "connect")>>
  BY DEF Start
<1> DEFINE f == Frame(kind, NewRequest(url), 0, "connect")
<1>2. /\ f \in Frames /\ f.at = "connect" /\ f.fd = 0 /\ f.kind = kind
      /\ f.req = NewRequest(url)
  BY NewRequestType, FrameType DEF Frame, Kinds, Places
<1>3. calls = <<>> /\ UNCHANGED conns
  BY DEF Start
<1> HIDE DEF f
<1>4. calls' = <<f>> /\ Len(calls') = 1 /\ calls'[1] = f
  BY <1>1 DEF f
<1>5. HttpType'
  BY <1>2, <1>3, <1>4 DEF HttpInv, HttpType
<1>6. NewRequest(url).redirects = 0
  BY NewRequestType
<1>7. CountInv'
  BY <1>2, <1>4, <1>6, HttpAssumption DEF CountInv, Depth
<1>8. FdInv'
  <2>1. \A fd \in Fds : ~conns[fd].open /\ fd # 0
    BY <1>3, HttpAssumption DEF HttpInv, FdInv, Depth
  <2>2. QED
    BY <1>2, <1>3, <1>4, <2>1 DEF FdInv, Depth, HasSocket
<1>9. Top' = f
  BY <1>4 DEF Top, Depth
<1>10. HostOf(f, conns')
  BY <1>2, <1>6 DEF HostOf
<1>11. QED
  BY <1>5, <1>7, <1>8, <1>9, <1>10 DEF HttpInv, HostInv

(* An answer of the server preserves the invariant. *)
LEMMA Answers ==
    ASSUME HttpInv, ServerAnswers
    PROVE  HttpInv'
<1>1. PICK fd \in OpenFds, r \in Responses :
          /\ conns[fd].asked # <<>>
          /\ conns' = [conns EXCEPT ![fd].wire = Append(@, r), ![fd].asked = Tail(@)]
  BY DEF ServerAnswers
<1> DEFINE c == [conns[fd] EXCEPT !.wire = Append(@, r), !.asked = Tail(@)]
<1>2. fd \in Fds /\ conns[fd] \in Conns
  BY DEF OpenFds, HttpInv, HttpType, Closed
<1>3. conns' = [conns EXCEPT ![fd] = c]
  BY <1>1, <1>2 DEF HttpInv, HttpType
<1>4. c \in Conns /\ c.host = conns[fd].host
  <2>1. Append(conns[fd].wire, r) \in Seq(Responses \cup {Rest})
    BY <1>2, AppendProperties DEF Conns
  <2>2. Tail(conns[fd].asked) \in Seq(Nat)
    BY <1>1, <1>2, HeadTailProperties DEF Conns
  <2>3. QED
    BY <1>2, <2>1, <2>2 DEF Conns
<1> HIDE DEF c
<1>5. /\ conns' \in [Fds -> Conns \cup {Closed}]
      /\ \A g \in Fds : conns'[g].open <=> conns[g].open
  BY <1>2, <1>3, <1>4, ConnChanges DEF HttpInv
<1>6. UNCHANGED calls
  BY DEF ServerAnswers
<1>7. (HttpType /\ CountInv /\ FdInv)'
  BY <1>5, <1>6 DEF HttpInv, HttpType, CountInv, FdInv, Depth
<1>8. \A g \in Fds : conns'[g].host = conns[g].host
  BY <1>2, <1>3, <1>4 DEF HttpInv, HttpType
<1>9. HostInv'
  <2>1. ASSUME calls # <<>> PROVE HostOf(Top, conns')
    <3>1. HostOf(Top, conns)
      BY <2>1 DEF HttpInv, HostInv
    <3>2. Top.at \in HasSocket =>
            conns'[Top.fd].host = conns[Top.fd].host
      BY <1>8, <2>1, Running
    <3>3. QED
      BY <3>1, <3>2 DEF HostOf, HasSocket
  <2>2. Top' = Top
    BY <1>6 DEF Top, Depth
  <2>3. QED
    BY <1>6, <2>1, <2>2 DEF HostInv
<1>10. QED
  BY <1>7, <1>9 DEF HttpInv

-----------------------------------------------------------------------------
(***************************************************************************)
(* Whose answer is read, and which code is reported.  Several requests of a *)
(* chain may be sent on one connection, but never two before an answer: at  *)
(* most one is to come, after at most the rest of one body.  The connection *)
(* of the call that runs is quiet but for its own request.                  *)
(***************************************************************************)
Quiet(c) == c.asked = <<>> /\ c.wire \in {<<>>, <<Rest>>}

Pending(c, d) ==
    \/ Quiet(c)
    \/ c.asked = <<d>> /\ c.wire \in {<<>>, <<Rest>>}
    \/ c.asked = <<>> /\ \E r \in Responses : r.to = d /\ c.wire \in {<<r>>, <<Rest, r>>}

Waits(frame, d, cs) ==
    /\ frame.at \in {"send", "body", "redirect"} => Quiet(cs[frame.fd])
    /\ frame.at = "response" => Pending(cs[frame.fd], d)
    /\ frame.at \in {"body", "redirect"} => frame.answer.to = d

(* Until the end of the chain a request has the status of a redirect, or no *)
(* answer yet.                                                              *)
StatusOf(frame, code) ==
    /\ frame.at \in {"connect", "send", "response", "redirect"} =>
          frame.req.status \in Redirects \cup {0}
    /\ frame.at = "body" => frame.req.status = code /\ code \notin Redirects
    /\ frame.at = "return" =>
          IF frame.ret = -1 THEN frame.req.status \in Redirects \cup {0}
          ELSE frame.req.status = code /\ code \notin Redirects

ChainInv ==
    /\ \A fd \in OpenFds : \E d \in Nat : Pending(conns[fd], d)
    /\ calls # <<>> => Waits(Top, Depth, conns) /\ StatusOf(Top, last)
    /\ outcome # NoOutcome =>
           /\ calls = <<>> /\ outcome \in Frames /\ outcome.at = "return"
           /\ StatusOf(outcome, last)

(* The call that runs changes, those that wait for it do not.               *)
LEMMA TopIs ==
    ASSUME HttpInv, calls # <<>>, NEW f \in Frames, calls' = WithTop(f)
    PROVE  Top' = f /\ Depth' = Depth /\ calls' # <<>>
<1>1. /\ Len(calls') = Len(calls) /\ calls' # <<>> /\ Len(calls) \in Nat /\ Len(calls) > 0
      /\ \A i \in 1 .. Len(calls) : calls'[i] = IF i = Len(calls) THEN f ELSE calls[i]
  BY TopChanges DEF HttpInv, HttpType, WithTop, Depth
<1>2. QED
  BY <1>1 DEF Top, Depth

(* A step that leaves the connections alone has only its frame to show.     *)
LEMMA FrameStep ==
    ASSUME HttpInv, ChainInv, calls # <<>>, NEW f \in Frames, calls' = WithTop(f),
           UNCHANGED <<conns, outcome, last>>,
           Waits(f, Depth, conns), StatusOf(f, last)
    PROVE  ChainInv'
<1>1. Top' = f /\ Depth' = Depth
  BY TopIs
<1>2. OpenFds' = OpenFds
  BY DEF OpenFds
<1>3. outcome = NoOutcome
  BY DEF ChainInv
<1>4. Waits(Top', Depth', conns') /\ StatusOf(Top', last')
  BY <1>1
<1>5. QED
  BY <1>2, <1>3, <1>4 DEF ChainInv

(* A step that changes the connection of the call that runs, and no other.  *)
LEMMA ConnStep ==
    ASSUME HttpInv, ChainInv, calls # <<>>, NEW f \in Frames, calls' = WithTop(f),
           NEW fd \in Fds, NEW c, conns' = [conns EXCEPT ![fd] = c],
           Pending(c, Depth), UNCHANGED outcome,
           Waits(f, Depth, conns'), StatusOf(f, last')
    PROVE  ChainInv'
<1>1. Top' = f /\ Depth' = Depth
  BY TopIs
<1>2. \A g \in Fds : conns'[g] = IF g = fd THEN c ELSE conns[g]
  BY DEF HttpInv, HttpType
<1>3. Depth \in Nat
  BY Running
<1>4. \A g \in OpenFds' : \E d \in Nat : Pending(conns'[g], d)
  <2>1. SUFFICES ASSUME NEW g \in OpenFds' PROVE \E d \in Nat : Pending(conns'[g], d)
    OBVIOUS
  <2>2. g \in Fds /\ (g # fd => g \in OpenFds)
    BY <1>2, <2>1 DEF OpenFds
  <2>3. CASE g = fd
    BY <1>2, <1>3, <2>2, <2>3
  <2>4. CASE g # fd
    BY <1>2, <2>2, <2>4 DEF ChainInv
  <2>5. QED
    BY <2>3, <2>4
<1>5. outcome = NoOutcome
  BY DEF ChainInv
<1>6. Waits(Top', Depth', conns') /\ StatusOf(Top', last')
  BY <1>1
<1>7. QED
  BY <1>4, <1>5, <1>6 DEF ChainInv

(* A connect starts with a quiet connection; a failure has no new code.     *)
LEMMA ChainConnect ==
    ASSUME HttpInv, ChainInv, HttpConnect
    PROVE  ChainInv'
<1> DEFINE fd == LowestFree
           c == [open |-> TRUE, host |-> Top.req.host, port |-> Top.req.port,
                 asked |-> <<>>, wire |-> <<>>]
           f == [Top EXCEPT !.fd = fd, !.at = "send"]
<1>1. /\ calls # <<>> /\ Top.at = "connect" /\ UNCHANGED <<outcome, last>>
      /\ conns' = [conns EXCEPT ![fd] = c] /\ calls' = WithTop(f)
  BY DEF HttpConnect
<1>2. Top \in Frames
  BY <1>1, Running
<1>3. fd \in Fds
  BY LowestFreeIsFree DEF HttpConnect, FreeFds
<1>4. Quiet(c)
  BY DEF Quiet
<1>5. /\ f \in Frames /\ f.fd = fd /\ f.req = Top.req /\ f.at = "send"
  BY <1>2, <1>3 DEF Frames, Places
<1> HIDE DEF fd, c, f
<1>6. conns'[fd] = c
  BY <1>1, <1>3 DEF HttpInv, HttpType
<1>7. Waits(f, Depth, conns')
  BY <1>4, <1>5, <1>6 DEF Waits
<1>8. StatusOf(f, last')
  BY <1>1, <1>5 DEF ChainInv, StatusOf
<1>9. Pending(c, Depth)
  BY <1>4 DEF Pending
<1>10. QED
  BY <1>1, <1>3, <1>5, <1>7, <1>8, <1>9, ConnStep

(* A call that fails before there is an answer has no code to report.       *)
LEMMA ChainFails ==
    ASSUME HttpInv, ChainInv, ConnectFails \/ NoHeader \/ InvalidHeader
    PROVE  ChainInv'
<1>1. PICK why \in Whys : calls' = WithTop(Returns(Top, -1, why))
  BY DEF ConnectFails, NoHeader, InvalidHeader, Whys
<1>2. /\ calls # <<>> /\ Top.at \in {"connect", "response"} /\ UNCHANGED <<conns, outcome, last>>
  BY DEF ConnectFails, NoHeader, InvalidHeader
<1> DEFINE f == Returns(Top, -1, why)
<1>3. f \in Frames /\ f.at = "return" /\ f.req = Top.req /\ f.ret = -1
  <2>1. Top \in Frames
    BY <1>2, Running
  <2>2. f.ret = -1
    BY <2>1 DEF Returns, Frames
  <2>3. QED
    BY <2>1, <2>2, ReturnsType
<1>4. calls' = WithTop(f)
  BY <1>1
<1> HIDE DEF f
<1>5. Waits(f, Depth, conns) /\ StatusOf(f, last)
  BY <1>2, <1>3 DEF ChainInv, Waits, StatusOf
<1>6. QED
  BY <1>2, <1>3, <1>4, <1>5, FrameStep

(* A request is sent on a quiet connection, so it is the only one there.    *)
LEMMA ChainSends ==
    ASSUME HttpInv, ChainInv, SendRequest
    PROVE  ChainInv'
<1> DEFINE f == [Top EXCEPT !.at = "response"]
           c == [conns[Top.fd] EXCEPT !.asked = Append(@, Depth)]
<1>1. calls # <<>> /\ Top.at = "send" /\ calls' = WithTop(f) /\ UNCHANGED <<outcome, last>>
  BY DEF SendRequest
<1>2. Top \in Frames /\ Top.fd \in Fds /\ conns[Top.fd] \in Conns /\ Depth \in Nat
  BY <1>1, Running DEF HasSocket
<1>3. f \in Frames /\ f.at = "response" /\ f.fd = Top.fd /\ f.req = Top.req
  BY <1>2 DEF Frames, Places
<1>4. Quiet(conns[Top.fd])
  BY <1>1 DEF ChainInv, Waits
<1>5. Pending(c, Depth)
  <2>1. c.asked = Append(<<>>, Depth) /\ c.wire = conns[Top.fd].wire
    BY <1>2, <1>4 DEF Conns, Quiet
  <2>2. Append(<<>>, Depth) = <<Depth>>
    BY <1>2
  <2>3. QED
    BY <1>4, <2>1, <2>2 DEF Pending, Quiet
<1>6. conns' = [conns EXCEPT ![Top.fd] = c] \/ UNCHANGED conns
  BY DEF SendRequest
<1> HIDE DEF f, c
<1>7. StatusOf(f, last')
  BY <1>1, <1>3 DEF ChainInv, StatusOf
<1>8. CASE UNCHANGED conns
  <2>1. Waits(f, Depth, conns)
    BY <1>3, <1>4 DEF Waits, Pending
  <2>2. QED
    BY <1>1, <1>3, <1>7, <1>8, <2>1, FrameStep
<1>9. CASE conns' = [conns EXCEPT ![Top.fd] = c]
  <2>1. conns'[Top.fd] = c
    BY <1>2, <1>9 DEF HttpInv, HttpType
  <2>2. Waits(f, Depth, conns')
    BY <1>3, <1>5, <2>1 DEF Waits
  <2>3. QED
    BY <1>1, <1>2, <1>3, <1>5, <1>7, <1>9, <2>2, ConnStep
<1>10. QED
  BY <1>6, <1>8, <1>9

(* The answer on a connection that has only the call's own request, once it *)
(* is read, leaves the connection quiet.                                    *)
LEMMA PendingRead ==
    ASSUME NEW c, NEW d, Pending(c, d), c.wire # <<>>, Head(c.wire) # Rest
    PROVE  /\ Head(c.wire).to = d /\ c.asked = <<>>
           /\ \A b \in BOOLEAN :
                 (IF b THEN <<Rest>> ELSE <<>>) \o Tail(c.wire) \in {<<>>, <<Rest>>}
<1>1. c.wire # <<Rest>>
  OBVIOUS
<1>2. PICK r \in Responses : r.to = d /\ c.wire \in {<<r>>, <<Rest, r>>} /\ c.asked = <<>>
  BY <1>1 DEF Pending, Quiet
<1>3. c.wire = <<r>>
  BY <1>2
<1>4. Head(c.wire) = r /\ Tail(c.wire) = <<>>
  BY <1>3
<1>5. <<Rest>> \o <<>> = <<Rest>> /\ <<>> \o <<>> = <<>>
  OBVIOUS
<1>6. QED
  BY <1>2, <1>4, <1>5

(* What the status of an answer makes of the call that read it.             *)
LEMMA AfterStatusOf ==
    ASSUME NEW frame \in Frames, NEW r \in Responses
    PROVE  LET f == AfterStatus(frame, r)
           IN  /\ f.at \in {"body", "redirect"} => f.answer = r
               /\ StatusOf(f, r.code)
<1> DEFINE read == [frame EXCEPT !.answer = r, !.req.status = r.code,
                                 !.req.version = IF r.old THEN 0 ELSE @]
<1>1. r.code \in Nat
  BY HttpAssumption DEF Responses
<1>2. read.req.status = r.code /\ read.answer = r
  BY DEF Frames, Requests
<1>3. read \in Frames
  <2>1. r.code \in Codes
    BY DEF Responses
  <2>2. QED
    BY <2>1 DEF Frames, Requests
<1> HIDE DEF read
<1>4. CASE r.code = 200
  <2>1. AfterStatus(frame, r) = [read EXCEPT !.at = "body"]
    BY <1>4 DEF AfterStatus, read, Redirects
  <2>2. QED
    BY <1>2, <1>3, <1>4, <2>1 DEF Frames, StatusOf, Redirects
<1>5. CASE r.code \in Redirects
  <2>1. AfterStatus(frame, r) = [read EXCEPT !.at = "redirect"]
    BY <1>5 DEF AfterStatus, read, Redirects
  <2>2. QED
    BY <1>2, <1>3, <1>5, <2>1 DEF Frames, StatusOf
<1>6. CASE r.code # 200 /\ r.code \notin Redirects
  <2>1. AfterStatus(frame, r) = Returns(read, r.code, "code")
    BY <1>6 DEF AfterStatus, read
  <2>2. /\ Returns(read, r.code, "code").at = "return"
        /\ Returns(read, r.code, "code").ret = r.code
        /\ Returns(read, r.code, "code").req = read.req
    BY <1>3 DEF Returns, Frames
  <2>3. r.code # -1
    BY <1>1
  <2>4. QED
    BY <1>2, <1>6, <2>1, <2>2, <2>3 DEF StatusOf
<1>7. QED
  BY <1>4, <1>5, <1>6

(* The call that runs reads the answer to its own request.                  *)
LEMMA ChainReads ==
    ASSUME HttpInv, ChainInv, HandleResponse
    PROVE  ChainInv'
<1> DEFINE r == Head(conns[Top.fd].wire)
           f == AfterStatus(Top, r)
           w == (IF r.rest THEN <<Rest>> ELSE <<>>) \o Tail(conns[Top.fd].wire)
           c == [conns[Top.fd] EXCEPT !.wire = w]
<1>1. /\ calls # <<>> /\ Top.at = "response" /\ calls' = WithTop(f)
      /\ conns[Top.fd].wire # <<>> /\ r # Rest
      /\ conns' = [conns EXCEPT ![Top.fd] = c]
      /\ last' = r.code /\ UNCHANGED outcome
  BY DEF HandleResponse
<1>2. Top \in Frames /\ Top.fd \in Fds /\ conns[Top.fd] \in Conns
  BY <1>1, Running DEF HasSocket
<1>3. r \in Responses
  <2>1. conns[Top.fd].wire \in Seq(Responses \cup {Rest})
    BY <1>2 DEF Conns
  <2>2. QED
    BY <1>1, <2>1, HeadTailProperties
<1>4. Pending(conns[Top.fd], Depth)
  BY <1>1 DEF ChainInv, Waits
<1>5. r.to = Depth /\ conns[Top.fd].asked = <<>> /\ w \in {<<>>, <<Rest>>}
  <2>1. r.rest \in BOOLEAN
    BY <1>3 DEF Responses
  <2>2. QED
    BY <1>1, <1>4, <2>1, PendingRead
<1>6. Quiet(c)
  BY <1>2, <1>5 DEF Conns, Quiet
<1> HIDE DEF r, w
<1>7. /\ f \in Frames /\ f.at \in {"body", "redirect", "return"} /\ f.fd = Top.fd
      /\ f.at \in {"body", "redirect"} => f.answer = r
      /\ StatusOf(f, r.code)
  BY <1>2, <1>3, AfterStatusType, AfterStatusOf
<1> HIDE DEF f, c
<1>8. conns'[Top.fd] = c
  BY <1>1, <1>2 DEF HttpInv, HttpType
<1>9. Waits(f, Depth, conns') /\ Pending(c, Depth)
  BY <1>5, <1>6, <1>7, <1>8 DEF Waits, Pending
<1>10. QED
  BY <1>1, <1>2, <1>7, <1>9, ConnStep

(* Reading the body takes what is left of the answer.                       *)
LEMMA ChainReadsBody ==
    ASSUME HttpInv, ChainInv, ReadBody
    PROVE  ChainInv'
<1> DEFINE f == Returns(Top, 0, "code")
           c == [conns[Top.fd] EXCEPT !.wire = <<>>]
<1>1. /\ calls # <<>> /\ Top.at = "body" /\ calls' = WithTop(f)
      /\ conns' = [conns EXCEPT ![Top.fd] = c] /\ UNCHANGED <<outcome, last>>
  BY DEF ReadBody
<1>2. Top \in Frames /\ Top.fd \in Fds /\ conns[Top.fd] \in Conns
  BY <1>1, Running DEF HasSocket
<1>3. f \in Frames /\ f.at = "return" /\ f.req = Top.req
  BY <1>2, ReturnsType DEF Whys
<1>4. f.ret = 0
  BY <1>2 DEF Returns, Frames
<1>5. Pending(c, Depth)
  <2>1. Quiet(conns[Top.fd])
    BY <1>1 DEF ChainInv, Waits
  <2>2. c.asked = conns[Top.fd].asked /\ c.wire = <<>>
    BY <1>2 DEF Conns
  <2>3. QED
    BY <2>1, <2>2 DEF Quiet, Pending
<1> HIDE DEF f, c
<1>6. Waits(f, Depth, conns') /\ StatusOf(f, last')
  BY <1>1, <1>3, <1>4 DEF Waits, StatusOf, ChainInv
<1>7. QED
  BY <1>1, <1>2, <1>3, <1>5, <1>6, ConnStep

(* A redirect's call starts with its caller's quiet connection, or without  *)
(* one; its status is that of the redirect, or none yet.                    *)
LEMMA ChainRedirects ==
    ASSUME HttpInv, ChainInv, HandleRedirect
    PROVE  ChainInv'
<1>1. calls # <<>> /\ Top.at = "redirect" /\ UNCHANGED <<conns, outcome, last>>
  BY DEF HandleRedirect
<1>2. Top \in Frames /\ Top.fd \in Fds /\ Depth \in Nat /\ Depth > 0
  BY <1>1, Running DEF HasSocket
<1>3. Top.req.status \in Redirects \cup {0} /\ Quiet(conns[Top.fd])
  BY <1>1 DEF ChainInv, StatusOf, Waits
<1>4. CASE \E why \in Whys : calls' = WithTop(Returns(Top, -1, why))
  <2>1. PICK why \in Whys : calls' = WithTop(Returns(Top, -1, why))
    BY <1>4
  <2> DEFINE f == Returns(Top, -1, why)
  <2>2. f \in Frames /\ f.at = "return" /\ f.req = Top.req
    BY <1>2, ReturnsType
  <2>3. f.ret = -1
    BY <1>2 DEF Returns, Frames
  <2>4. calls' = WithTop(f)
    BY <2>1
  <2> HIDE DEF f
  <2>5. Waits(f, Depth, conns) /\ StatusOf(f, last)
    BY <1>3, <2>2, <2>3 DEF Waits, StatusOf
  <2>6. QED
    BY <1>1, <2>2, <2>4, <2>5, FrameStep
<1> DEFINE req == Top.req
           r == Top.answer
           new == RedirectedRequest(req, r.location)
           f == [Top EXCEPT !.at = "redirecting", !.answer = NoResponse]
           reused == Frame("redirected", new, Top.fd, "send")
           own == Frame("http_get", new, 0, "connect")
           g == IF CanReuse(req, new, r.keepalive) THEN reused ELSE own
<1>5. CASE ~LimitReached(req) /\ calls' = Append(WithTop(f), g)
  <2>1. new \in Requests
    BY <1>2, <1>5, RedirectedType DEF Frames
  <2>2. new.status \in Redirects \cup {0}
    <3>1. CASE r.location \in Urls
      BY <3>1 DEF RedirectedRequest, NewRequest
    <3>2. CASE r.location \notin Urls
      <4>1. req \in Requests
        BY <1>2 DEF Frames
      <4>2. new.status = req.status
        BY <3>2, <4>1 DEF RedirectedRequest, Requests
      <4>3. QED
        BY <1>3, <4>2
    <3>3. QED
      BY <3>1, <3>2
  <2>3. f \in Frames
    BY <1>2 DEF Frames, Places
  <2> HIDE DEF new, req, r, f
  <2>4. /\ reused \in Frames /\ reused.at = "send" /\ reused.fd = Top.fd /\ reused.req = new
    BY <1>2, <2>1, FrameType DEF Frame, Kinds, Places
  <2>5. own \in Frames /\ own.at = "connect" /\ own.req = new
    BY <2>1, FrameType DEF Frame, Kinds, Places
  <2>6. /\ g \in Frames /\ g.req = new
        /\ g.at = "connect" \/ (g.at = "send" /\ g.fd = Top.fd)
    BY <2>4, <2>5
  <2> HIDE DEF g
  <2>7. Len(calls') = Depth + 1 /\ calls'[Depth + 1] = g
    BY <1>1, <1>2, <1>5, <2>3, <2>6, CallMade DEF HttpInv, HttpType, WithTop, Depth
  <2>8. Top' = g /\ Depth' = Depth + 1 /\ calls' # <<>>
    BY <1>2, <2>7 DEF Top, Depth
  <2>9. Waits(g, Depth + 1, conns) /\ StatusOf(g, last)
    BY <1>3, <2>2, <2>6 DEF Waits, StatusOf
  <2>10. OpenFds' = OpenFds /\ outcome = NoOutcome
    BY <1>1 DEF OpenFds, ChainInv
  <2>11. Waits(Top', Depth', conns') /\ StatusOf(Top', last')
    BY <1>1, <2>8, <2>9
  <2>12. QED
    BY <1>1, <2>10, <2>11 DEF ChainInv
<1>6. QED
  BY <1>4, <1>5 DEF HandleRedirect, Whys

(* What a call returns, its caller returns: the status goes up the chain.   *)
LEMMA ChainReturns ==
    ASSUME HttpInv, ChainInv, Return
    PROVE  ChainInv'
<1>1. calls # <<>> /\ Top.at = "return" /\ UNCHANGED last
  BY DEF Return
<1>2. /\ Top \in Frames /\ Depth \in Nat /\ Depth > 0 /\ calls \in Seq(Frames)
      /\ StatusOf(Top, last)
  BY <1>1, Running DEF HttpInv, HttpType, ChainInv
<1>3. \A fd \in OpenFds' : \E d \in Nat : Pending(conns'[fd], d)
  <2>1. SUFFICES ASSUME NEW fd \in OpenFds' PROVE \E d \in Nat : Pending(conns'[fd], d)
    OBVIOUS
  <2>2. CASE UNCHANGED conns
    BY <2>1, <2>2 DEF ChainInv, OpenFds
  <2>3. CASE conns' = [conns EXCEPT ![Top.fd] = Closed]
    <3>1. fd \in Fds /\ conns'[fd].open /\ ~Closed.open
      BY <2>1 DEF OpenFds, Closed
    <3>2. conns'[fd] = IF fd = Top.fd THEN Closed ELSE conns[fd]
      BY <2>3, <3>1 DEF HttpInv, HttpType
    <3>3. conns'[fd] = conns[fd] /\ fd \in OpenFds
      BY <3>1, <3>2 DEF OpenFds
    <3>4. QED
      BY <3>3 DEF ChainInv
  <2>4. QED
    BY <2>2, <2>3 DEF Return
<1>4. CASE Depth = 1
  <2>1. calls' = <<>> /\ outcome' = Top
    BY <1>4 DEF Return
  <2>2. QED
    BY <1>1, <1>2, <1>3, <2>1 DEF ChainInv
<1>5. CASE Depth > 1
  <2> DEFINE f == CopiedBack(calls[Depth - 1], Top)
  <2>1. Depth - 1 \in 1 .. Depth - 1 /\ Depth - 1 \in 1 .. Len(calls)
    BY <1>2, <1>5 DEF Depth
  <2>2. calls[Depth - 1] \in Frames
    BY <1>2, <2>1, ElementOfSeq
  <2>3. f \in Frames /\ f.at = "return"
    BY <1>2, <2>2, CopiedBackType
  <2>4. f.ret = Top.ret /\ f.req.status = Top.req.status
    BY <1>2, <2>2 DEF CopiedBack, Returns, Frames, Requests
  <2>5. calls' = [SubSeq(calls, 1, Depth - 1) EXCEPT ![Depth - 1] = f] /\ UNCHANGED outcome
    BY <1>5 DEF Return
  <2> HIDE DEF f
  <2>6. /\ Len(calls') = Depth - 1
        /\ \A i \in 1 .. Depth - 1 : calls'[i] = IF i = Depth - 1 THEN f ELSE calls[i]
    BY <1>2, <1>5, <2>3, <2>5, CallEnds DEF Depth
  <2>7. Top' = f
    BY <2>1, <2>6 DEF Top, Depth
  <2>8. Waits(Top', Depth', conns') /\ StatusOf(Top', last')
    BY <1>1, <1>2, <2>3, <2>4, <2>7 DEF Waits, StatusOf
  <2>9. outcome = NoOutcome
    BY <1>1 DEF ChainInv
  <2>10. QED
    BY <1>3, <2>5, <2>8, <2>9 DEF ChainInv
<1>6. QED
  BY <1>2, <1>4, <1>5

(* A probe task starts when nothing is under way.                           *)
LEMMA ChainStarts ==
    ASSUME HttpInv, ChainInv, Start
    PROVE  ChainInv'
<1>1. PICK url \in Urls, kind \in {"http_get", "http_post_str"} :
          calls' = <<Frame(kind, NewRequest(url), 0, "connect")>>
  BY DEF Start
<1> DEFINE f == Frame(kind, NewRequest(url), 0, "connect")
<1>2. f.at = "connect" /\ f.req.status = 0
  BY DEF Frame, NewRequest
<1>3. outcome = NoOutcome /\ UNCHANGED <<conns, outcome, last>>
  BY DEF Start
<1>4. Len(calls') = 1 /\ calls'[1] = f
  BY <1>1
<1> HIDE DEF f
<1>5. Top' = f
  BY <1>4 DEF Top, Depth
<1>6. Waits(Top', Depth', conns') /\ StatusOf(Top', last')
  BY <1>2, <1>5 DEF Waits, StatusOf
<1>7. OpenFds' = OpenFds
  BY <1>3 DEF OpenFds
<1>8. QED
  BY <1>3, <1>6, <1>7 DEF ChainInv

(* A server answers only what was asked, so the call it was asked by.       *)
LEMMA ChainAnswers ==
    ASSUME HttpInv, ChainInv, ServerAnswers
    PROVE  ChainInv'
<1>1. PICK fd \in OpenFds, r \in Responses :
          /\ conns[fd].asked # <<>> /\ r.to = Head(conns[fd].asked)
          /\ conns' = [conns EXCEPT ![fd].wire = Append(@, r), ![fd].asked = Tail(@)]
  BY DEF ServerAnswers
<1> DEFINE c == [conns[fd] EXCEPT !.wire = Append(@, r), !.asked = Tail(@)]
<1>2. fd \in Fds /\ conns[fd] \in Conns
  BY DEF OpenFds, HttpInv, HttpType, Closed
<1>3. \A g \in Fds : conns'[g] = IF g = fd THEN c ELSE conns[g]
  BY <1>1, <1>2 DEF HttpInv, HttpType
<1>4. UNCHANGED <<calls, outcome, last>>
  BY DEF ServerAnswers
<1>5. ASSUME NEW d \in Nat, Pending(conns[fd], d)
      PROVE  Pending(c, d) /\ ~Quiet(conns[fd])
  <2>1. conns[fd].asked = <<d>> /\ conns[fd].wire \in {<<>>, <<Rest>>}
    BY <1>1, <1>5 DEF Pending, Quiet
  <2>2. r.to = d /\ Tail(conns[fd].asked) = <<>>
    <3>1. Head(<<d>>) = d /\ Tail(<<d>>) = <<>>
      OBVIOUS
    <3>2. QED
      BY <1>1, <2>1, <3>1
  <2>3. c.asked = <<>> /\ c.wire = Append(conns[fd].wire, r)
    BY <1>2, <2>1, <2>2 DEF Conns
  <2>4. Append(<<>>, r) = <<r>> /\ Append(<<Rest>>, r) = <<Rest, r>>
    <3>1. Append(<<>>, r) = <<r>>
      OBVIOUS
    <3> DEFINE S == Responses \cup {Rest}
               t == Append(<<Rest>>, r)
               u == <<Rest, r>>
    <3>2. <<Rest>> \in Seq(S) /\ Len(<<Rest>>) = 1 /\ <<Rest>>[1] = Rest /\ r \in S
      OBVIOUS
    <3>3. u \in Seq(S) /\ Len(u) = 2 /\ u[1] = Rest /\ u[2] = r
      OBVIOUS
    <3>4. /\ t \in Seq(S) /\ Len(t) = Len(<<Rest>>) + 1
          /\ \A i \in 1 .. Len(<<Rest>>) : t[i] = <<Rest>>[i]
          /\ t[Len(<<Rest>>) + 1] = r
      BY <3>2, AppendProperties
    <3> HIDE DEF t, u, S
    <3>5. Len(t) = 2 /\ t[1] = Rest /\ t[2] = r
      BY <3>2, <3>4
    <3>6. t = u
      BY <3>3, <3>4, <3>5, SeqEqual
    <3>7. QED
      BY <3>1, <3>6 DEF t, u
  <2>5. c.wire \in {<<r>>, <<Rest, r>>}
    BY <2>1, <2>3, <2>4
  <2>6. ~Quiet(conns[fd])
    BY <1>1 DEF Quiet
  <2>7. QED
    BY <2>2, <2>3, <2>5, <2>6 DEF Pending
<1> HIDE DEF c
<1>6. \A g \in OpenFds' : \E d \in Nat : Pending(conns'[g], d)
  <2>1. SUFFICES ASSUME NEW g \in OpenFds' PROVE \E d \in Nat : Pending(conns'[g], d)
    OBVIOUS
  <2>2. g \in Fds
    BY DEF OpenFds
  <2>3. CASE g = fd
    BY <1>3, <1>5, <2>2, <2>3 DEF ChainInv
  <2>4. CASE g # fd
    BY <1>3, <2>1, <2>2, <2>4 DEF ChainInv, OpenFds
  <2>5. QED
    BY <2>3, <2>4
<1>7. ASSUME calls # <<>>
      PROVE  Waits(Top, Depth, conns')
  <2>1. Waits(Top, Depth, conns) /\ Depth \in Nat /\ (Top.at \in HasSocket => Top.fd \in Fds)
    BY <1>7, Running DEF ChainInv
  <2>2. CASE Top.at \in HasSocket /\ Top.fd = fd
    <3>1. PICK d \in Nat : Pending(conns[fd], d)
      BY DEF ChainInv
    <3>2. ~Quiet(conns[fd])
      BY <1>5, <3>1
    <3>3. Top.at = "response" => Pending(conns'[fd], Depth)
      BY <1>2, <1>3, <1>5, <2>1, <2>2 DEF Waits
    <3>4. QED
      BY <2>1, <2>2, <3>2, <3>3 DEF Waits
  <2>3. CASE Top.at \in HasSocket /\ Top.fd # fd
    BY <1>3, <2>1, <2>3 DEF Waits
  <2>4. CASE Top.at \notin HasSocket
    BY <2>4 DEF Waits, HasSocket
  <2>5. QED
    BY <2>2, <2>3, <2>4
<1>8. Top' = Top /\ Depth' = Depth
  BY <1>4 DEF Top, Depth
<1>9. calls' # <<>> => Waits(Top', Depth', conns') /\ StatusOf(Top', last')
  BY <1>4, <1>7, <1>8 DEF ChainInv
<1>10. QED
  BY <1>4, <1>6, <1>9 DEF ChainInv

-----------------------------------------------------------------------------
(* At first there is no call and no connection.                             *)
LEMMA HttpInvInit == Init => HttpInv /\ ChainInv
<1> SUFFICES ASSUME Init PROVE HttpInv /\ ChainInv
  OBVIOUS
<1>1. calls = <<>> /\ Len(calls) = 0 /\ \A fd \in Fds : conns[fd] = Closed
  BY DEF Init
<1>2. ~Closed.open
  BY DEF Closed
<1>3. CountInv /\ FdInv
  BY <1>1, <1>2, HttpAssumption DEF CountInv, FdInv, Depth
<1>4. HttpType /\ HostInv
  BY <1>1 DEF HttpType, HostInv, Init
<1>5. ChainInv
  BY <1>1, <1>2 DEF ChainInv, OpenFds, Init
<1>6. QED
  BY <1>3, <1>4, <1>5 DEF HttpInv

(* Every step keeps the part of the invariant that is about sockets.        *)
LEMMA HttpInvNext == HttpInv /\ [Next]_vars => HttpInv'
<1> SUFFICES ASSUME HttpInv, [Next]_vars PROVE HttpInv'
  OBVIOUS
<1>1. CASE UNCHANGED vars
  BY <1>1 DEF vars, HttpInv, HttpType, CountInv, FdInv, HostInv, HostOf, Depth, Top
<1>2. CASE Next
  BY <1>2, Starts, Fails, OpensItsOwn, Sends, Reads, ReadsBody, Redirected,
     Returned, Answers DEF Next, ProbeStep
<1>3. QED
  BY <1>1, <1>2

(* The invariant holds of every call, whatever servers answer.              *)
THEOREM HttpInvariant == Spec => []HttpInv
  BY HttpInvInit, HttpInvNext, PTL DEF Spec

(* What is under way on the connections, and which codes are known.         *)
THEOREM HttpChainInvariant == Spec => [](HttpInv /\ ChainInv)
<1>1. HttpInv /\ ChainInv /\ [Next]_vars => ChainInv'
  <2> SUFFICES ASSUME HttpInv, ChainInv, [Next]_vars PROVE ChainInv'
    OBVIOUS
  <2>1. CASE UNCHANGED vars
    BY <2>1 DEF vars, ChainInv, OpenFds, Top, Depth, Waits, StatusOf
  <2>2. CASE Next
    BY <2>2, ChainStarts, ChainFails, ChainConnect, ChainSends, ChainReads,
       ChainReadsBody, ChainRedirects, ChainReturns, ChainAnswers DEF Next, ProbeStep
  <2>3. QED
    BY <2>1, <2>2
<1>2. QED
  BY <1>1, HttpInvInit, HttpInvNext, PTL DEF Spec

(* However absolute and relative redirects, new and reused connections mix,  *)
(* each request knows how many came before it, and there are no more than    *)
(* the limit (RedirectsCounted).                                             *)
THEOREM HttpRedirectsCounted == Spec => []RedirectsCounted
<1>1. HttpInv => RedirectsCounted
  BY DEF HttpInv, CountInv, RedirectsCounted
<1>2. QED
  BY <1>1, HttpInvariant, PTL

(* A request goes to its own host, on whichever connection it is sent, and   *)
(* the connection is open as long as it waits for its answer (GoesToItsHost). *)
THEOREM HttpGoesToItsHost == Spec => []GoesToItsHost
<1>1. HttpInv => GoesToItsHost
  <2> SUFFICES ASSUME HttpInv, NEW i \in 1 .. Depth,
                      calls[i].at \in {"send", "response", "body"}
               PROVE  /\ conns[calls[i].fd].open
                      /\ conns[calls[i].fd].host = calls[i].req.host
    BY DEF GoesToItsHost
  <2>1. calls # <<>>
    BY DEF Depth
  <2>2. Depth \in Nat /\ Top = calls[Depth]
    BY <2>1, Running
  <2>3. i = Depth
    BY <2>2 DEF HttpInv, CountInv
  <2>4. conns[Top.fd] \in Conns
    BY <2>1, <2>2, <2>3, Running DEF HasSocket
  <2>5. QED
    BY <2>1, <2>2, <2>3, <2>4 DEF HttpInv, HostInv, HostOf, Conns
<1>2. QED
  BY <1>1, HttpInvariant, PTL

(* No failed connect, bad answer or exceeded limit leaves a socket behind,   *)
(* and none that is in use is closed (NoSocketLeft).                         *)
THEOREM HttpNoSocketLeft == Spec => []NoSocketLeft
<1>1. HttpInv => NoSocketLeft
  <2> SUFFICES ASSUME HttpInv
               PROVE  OpenFds = {calls[i].fd : i \in {j \in 1 .. Depth : calls[j].fd # 0}}
    BY DEF NoSocketLeft
  <2>1. \A i \in 1 .. Depth : calls[i].fd \in Fds \cup {0}
    <3> SUFFICES ASSUME NEW i \in 1 .. Depth PROVE calls[i].fd \in Fds \cup {0}
      OBVIOUS
    <3>1. calls \in Seq(Frames) /\ i \in 1 .. Len(calls)
      BY DEF HttpInv, HttpType, Depth
    <3>2. calls[i] \in Frames
      BY <3>1, ElementOfSeq
    <3>3. QED
      BY <3>2 DEF Frames
  <2>2. 0 \notin Fds
    BY HttpAssumption
  <2>3. \A fd \in Fds : conns[fd].open <=> \E i \in 1 .. Depth : calls[i].fd = fd
    BY DEF HttpInv, FdInv
  <2>4. QED
    BY <2>1, <2>2, <2>3 DEF OpenFds
<1>2. QED
  BY <1>1, HttpInvariant, PTL

(* Each call takes the answer to its own request, and what is reported in   *)
(* the end is the status of the last answer of the chain, or of a redirect  *)
(* that failed (AnswersAreTheirs, with the types and the count).            *)
THEOREM HttpAnswersAreTheirs == Spec => []AnswersAreTheirs
<1>1. HttpInv /\ ChainInv => HttpTypeOK
  <2> SUFFICES ASSUME HttpInv, ChainInv PROVE HttpTypeOK
    OBVIOUS
  <2>1. \A f \in Frames : CallOK(f)
    BY DEF Frames, CallOK
  <2>2. \A i \in 1 .. Depth : CallOK(calls[i])
    <3> SUFFICES ASSUME NEW i \in 1 .. Depth PROVE CallOK(calls[i])
      OBVIOUS
    <3>1. calls[i] \in Frames
      BY ElementOfSeq DEF HttpInv, HttpType, Depth
    <3>2. QED
      BY <2>1, <3>1
  <2>3. outcome # NoOutcome => CallOK(outcome)
    BY <2>1 DEF ChainInv
  <2>4. ASSUME NEW fd \in OpenFds, NEW i \in 1 .. Len(conns[fd].wire)
        PROVE  IF i = 1 THEN conns[fd].wire[i] \in Responses \cup {Rest}
               ELSE conns[fd].wire[i] \in Responses
    <3> DEFINE w == conns[fd].wire
    <3>1. w \in {<<>>, <<Rest>>} \/ \E r \in Responses : w \in {<<r>>, <<Rest, r>>}
      BY DEF ChainInv, Pending, Quiet
    <3> HIDE DEF w
    <3>2. QED
      BY <2>4, <3>1 DEF w
  <2>5. QED
    BY <2>2, <2>3, <2>4 DEF HttpTypeOK
<1>2. HttpInv => RedirectsCounted
  BY DEF HttpInv, CountInv, RedirectsCounted
<1>3. HttpInv /\ ChainInv => OwnAnswer
  <2> SUFFICES ASSUME HttpInv, ChainInv, NEW i \in 1 .. Depth,
                      calls[i].at \in {"body", "redirect"}
               PROVE  calls[i].answer.to = i
    BY DEF OwnAnswer
  <2>1. calls # <<>>
    BY DEF Depth
  <2>2. Depth \in Nat /\ Top = calls[Depth]
    BY <2>1, Running
  <2>3. i = Depth
    BY <2>2 DEF HttpInv, CountInv
  <2>4. QED
    BY <2>1, <2>2, <2>3 DEF ChainInv, Waits
<1>4. ChainInv => StatusFromEndOfChain
  BY DEF ChainInv, StatusOf, StatusFromEndOfChain
<1>5. QED
  BY <1>1, <1>2, <1>3, <1>4, HttpChainInvariant, PTL DEF AnswersAreTheirs

-----------------------------------------------------------------------------
(* The parts of pages.                                                       *)

PagesType ==
    /\ web \in Web
    /\ stack \in Seq(PageFrame)
    /\ result \in Int
    /\ pc \in {"http_recurse", "regex_iterate", "sub", "done"}
    /\ asked \subseteq Url \X Url \X Nat
    /\ fetched \in Nat

(* What a page was answered with, and the matches in it that are looked at;  *)
(* w stands for the web.                                                     *)
AnswerOf(w, url) == w[w[url].moved]
MatchesOf(w, url) == Cut(AnswerOf(w, url).parts)
NoneBeginsWith(parts, j) == ~\E h \in 1 .. j - 1 : BeginsWith(parts[h], parts[j])

(* The matches whose URL is asked for, as in PartsOf.                        *)
Expected(w, url) ==
    {CompleteUrl(MatchesOf(w, url)[j], url) : j \in
        {k \in 1 .. Len(MatchesOf(w, url)) :
            /\ MatchesOf(w, url)[k].is # "other"
            /\ w[CompleteUrl(MatchesOf(w, url)[k], url)].resolved
            /\ NoneBeginsWith(MatchesOf(w, url), k)}}

IsOpen(w, f) ==
    /\ AnswerOf(w, f.url).ok /\ AnswerOf(w, f.url).html /\ AnswerOf(w, f.url).body
    /\ f.depth # 0

(* The list after the first total matches: it holds exactly those that no    *)
(* earlier match begins with, and every match is the beginning of one in it. *)
ListOf(parts, urls, total) ==
    /\ Len(urls) <= total
    /\ \A n \in 1 .. Len(urls) :
          \E j \in 1 .. total : parts[j] = urls[n] /\ NoneBeginsWith(parts, j)
    /\ \A j \in 1 .. total :
          /\ \E n \in 1 .. Len(urls) : BeginsWith(urls[n], parts[j])
          /\ NoneBeginsWith(parts, j) => \E n \in 1 .. Len(urls) : urls[n] = parts[j]

(* What the call at this level has gone past it has asked for.               *)
AskedBy(w, a, f, level) ==
    \A n \in 1 .. Len(f.urls) :
        n <= f.i /\ f.urls[n].is # "other" /\ w[CompleteUrl(f.urls[n], f.url)].resolved
            => <<f.url, CompleteUrl(f.urls[n], f.url), level>> \in a

CallOf(w, a, f, level) ==
    /\ f.depth = MaxRecursion - (level - 1)
    /\ level > 1 => AnswerOf(w, f.url).ok
    /\ f.i <= f.total /\ f.total <= Len(MatchesOf(w, f.url))
    /\ ListOf(MatchesOf(w, f.url), f.urls, f.total)
    /\ AskedBy(w, a, f, level)

(* A call that goes through its list has seen all matches.                   *)
ListIsMade(w, f) == IsOpen(w, f) /\ f.total = Len(MatchesOf(w, f.url))

CallInv ==
    /\ stack = <<>> <=> pc = "done"
    /\ Level > 0 => stack[1].url = FirstUrl
    /\ \A k \in 1 .. Level : CallOf(web, asked, stack[k], k)
    /\ \A k \in 1 .. Level : k < Level => ListIsMade(web, stack[k])
    /\ pc = "sub" => ListIsMade(web, Innermost)
    /\ pc = "regex_iterate" => IsOpen(web, Innermost)
    /\ pc \in {"http_recurse", "regex_iterate"} => Innermost.i = 0 /\ Innermost.components = 0
    /\ pc = "http_recurse" => Innermost.urls = <<>> /\ Innermost.total = 0

AskedInv == \A a \in asked : a[2] \in Expected(web, a[1])

(* Every body is there.                                                      *)
Bodies(w) == \A u \in Url : w[u].body

(* A call counts what was fetched since it was made, less the calls above it.*)
ComponentsInv ==
    Bodies(web) =>
        /\ Level > 0 => stack[1].before = 0 /\ fetched = Innermost.before + Innermost.components
        /\ \A k \in 1 .. Level : \A m \in 1 .. Level :
              m = k + 1 => stack[m].before = stack[k].before + stack[k].components + 1

PagesInv == PagesType /\ CallInv /\ AskedInv /\ ComponentsInv /\ ComponentsWereFetched

-----------------------------------------------------------------------------
(* A match that begins with another one that begins with a third begins with *)
(* the third.                                                                *)
LEMMA BeginsWithTransitive ==
    ASSUME NEW a \in Src, NEW b \in Src, NEW c \in Src,
           BeginsWith(a, b), BeginsWith(b, c)
    PROVE  BeginsWith(a, c)
  <1>1. a.is = b.is /\ b.is = c.is /\ (c.is # "relative" => a.host = b.host /\ b.host = c.host)
    BY DEF BeginsWith
  <1>2. a.file \in File /\ b.file \in File /\ c.file \in File
    BY DEF Src
  <1>3. a.file = b.file \/ <<a.file, b.file>> \in Prefix
    BY DEF BeginsWith
  <1>4. b.file = c.file \/ <<b.file, c.file>> \in Prefix
    BY DEF BeginsWith
  <1>5. a.file = c.file \/ <<a.file, c.file>> \in Prefix
    BY <1>2, <1>3, <1>4, PagePartsAssumption
  <1> QED BY <1>1, <1>5 DEF BeginsWith

(* What a URL is answered with, and the matches that are looked at.          *)
LEMMA WebAnswers ==
    ASSUME NEW w \in Web, NEW url \in Url
    PROVE  /\ AnswerOf(w, url).ok \in BOOLEAN /\ AnswerOf(w, url).html \in BOOLEAN
           /\ AnswerOf(w, url).body \in BOOLEAN
           /\ w[url].resolved \in BOOLEAN
           /\ Bodies(w) => AnswerOf(w, url).body
           /\ MatchesOf(w, url) \in Seq(Src)
           /\ Len(MatchesOf(w, url)) <= MaxTotalUrls
  <1>1. w[url].moved \in Url /\ w[url].resolved \in BOOLEAN
    BY DEF Web
  <1>2. /\ AnswerOf(w, url).ok \in BOOLEAN /\ AnswerOf(w, url).html \in BOOLEAN
        /\ AnswerOf(w, url).body \in BOOLEAN /\ AnswerOf(w, url).parts \in Seq(Src)
    BY <1>1 DEF Web, AnswerOf
  <1>3. Bodies(w) => AnswerOf(w, url).body
    BY <1>1 DEF Bodies, AnswerOf
  <1> DEFINE parts == AnswerOf(w, url).parts
  <1>4. /\ MatchesOf(w, url) \in Seq(Src)
        /\ Len(MatchesOf(w, url)) <= MaxTotalUrls
    <2>1. CASE Len(parts) <= MaxTotalUrls
      BY <1>2, <2>1 DEF MatchesOf, Cut
    <2>2. CASE ~(Len(parts) <= MaxTotalUrls)
      <3>1. MatchesOf(w, url) = SubSeq(parts, 1, MaxTotalUrls)
        BY <2>2 DEF MatchesOf, Cut
      <3>2. parts \in Seq(Src) /\ Len(parts) \in Nat
        BY <1>2, LenProperties
      <3>3. MaxTotalUrls \in 1 .. Len(parts)
        BY <2>2, <3>2, PagePartsAssumption
      <3> QED BY <3>1, <3>2, <3>3, SubSeqProperties
    <2> QED BY <2>1, <2>2
  <1> QED BY <1>1, <1>2, <1>3, <1>4

(* append_match: the next match comes into the list if no earlier one begins *)
(* with it.                                                                  *)
LEMMA AppendMatchKeepsList ==
    ASSUME NEW parts \in Seq(Src), NEW urls \in Seq(Src), NEW total \in Nat,
           ListOf(parts, urls, total), total < Len(parts)
    PROVE  /\ AppendMatch(urls, parts[total + 1]) \in Seq(Src)
           /\ ListOf(parts, AppendMatch(urls, parts[total + 1]), total + 1)
  <1> DEFINE src == parts[total + 1]
             list == AppendMatch(urls, src)
  <1>0. src \in Src /\ Len(urls) \in Nat /\ \A n \in 1 .. Len(urls) : urls[n] \in Src
    BY ElementOfSeq, LenProperties
  <1>1. /\ Len(urls) <= total
        /\ \A n \in 1 .. Len(urls) :
              \E j \in 1 .. total : parts[j] = urls[n] /\ NoneBeginsWith(parts, j)
        /\ \A j \in 1 .. total :
              /\ \E n \in 1 .. Len(urls) : BeginsWith(urls[n], parts[j])
              /\ NoneBeginsWith(parts, j) => \E n \in 1 .. Len(urls) : urls[n] = parts[j]
    BY DEF ListOf
  <1>2. CASE Known(urls, src)
    <2>1. list = urls
      BY <1>2 DEF AppendMatch
    <2>2. PICK n \in 1 .. Len(urls) : BeginsWith(urls[n], src)
      BY <1>2 DEF Known
    <2>3. ~NoneBeginsWith(parts, total + 1)
      <3>1. PICK j \in 1 .. total : parts[j] = urls[n]
        BY <1>1
      <3>2. j \in 1 .. (total + 1) - 1 /\ BeginsWith(parts[j], parts[total + 1])
        BY <2>2, <3>1
      <3> QED BY <3>2 DEF NoneBeginsWith
    <2>4. ListOf(parts, urls, total + 1)
      <3>1. ASSUME NEW m \in 1 .. Len(urls)
            PROVE  \E j \in 1 .. total + 1 : parts[j] = urls[m] /\ NoneBeginsWith(parts, j)
        <4>1. PICK j \in 1 .. total : parts[j] = urls[m] /\ NoneBeginsWith(parts, j)
          BY <1>1
        <4> QED BY <4>1
      <3>2. ASSUME NEW j \in 1 .. total + 1
            PROVE  /\ \E m \in 1 .. Len(urls) : BeginsWith(urls[m], parts[j])
                   /\ NoneBeginsWith(parts, j) => \E m \in 1 .. Len(urls) : urls[m] = parts[j]
        <4>1. CASE j = total + 1
          BY <2>2, <2>3, <4>1
        <4>2. CASE j # total + 1
          <5>1. j \in 1 .. total
            BY <4>2
          <5> QED BY <1>1, <5>1
        <4> QED BY <4>1, <4>2
      <3>3. Len(urls) <= total + 1
        BY <1>0, <1>1
      <3> QED BY <3>1, <3>2, <3>3 DEF ListOf
    <2> QED BY <2>1, <2>4
  <1>3. CASE ~Known(urls, src)
    <2>1. list = Append(urls, src)
      BY <1>3 DEF AppendMatch
    <2>2. /\ list \in Seq(Src) /\ Len(list) = Len(urls) + 1
          /\ \A n \in 1 .. Len(urls) : list[n] = urls[n]
          /\ list[Len(list)] = src
      BY <1>0, <2>1, AppendProperties
    <2>3. NoneBeginsWith(parts, total + 1)
      <3>1. ASSUME NEW j \in 1 .. (total + 1) - 1, BeginsWith(parts[j], src)
            PROVE  FALSE
        <4>1. j \in 1 .. total /\ parts[j] \in Src
          BY ElementOfSeq
        <4>2. PICK n \in 1 .. Len(urls) : BeginsWith(urls[n], parts[j])
          BY <1>1, <4>1
        <4>3. BeginsWith(urls[n], src)
          BY <1>0, <3>1, <4>1, <4>2, BeginsWithTransitive
        <4> QED BY <1>3, <4>3 DEF Known
      <3> QED BY <3>1 DEF NoneBeginsWith
    <2>4. BeginsWith(src, src)
      BY DEF BeginsWith
    <2>5. ASSUME NEW n \in 1 .. Len(list)
          PROVE  \E j \in 1 .. total + 1 : parts[j] = list[n] /\ NoneBeginsWith(parts, j)
      <3>1. CASE n = Len(list)
        BY <2>2, <2>3, <3>1
      <3>2. CASE n # Len(list)
        <4>1. n \in 1 .. Len(urls) /\ list[n] = urls[n]
          BY <1>0, <2>2, <3>2
        <4>2. PICK j \in 1 .. total : parts[j] = urls[n] /\ NoneBeginsWith(parts, j)
          BY <1>1, <4>1
        <4> QED BY <4>1, <4>2
      <3> QED BY <3>1, <3>2
    <2>6. ASSUME NEW j \in 1 .. total + 1
          PROVE  /\ \E n \in 1 .. Len(list) : BeginsWith(list[n], parts[j])
                 /\ NoneBeginsWith(parts, j) => \E n \in 1 .. Len(list) : list[n] = parts[j]
      <3>1. CASE j = total + 1
        BY <1>0, <2>2, <2>4, <3>1
      <3>2. CASE j # total + 1
        <4>1. j \in 1 .. total
          BY <3>2
        <4>2. PICK n \in 1 .. Len(urls) : BeginsWith(urls[n], parts[j])
          BY <1>1, <4>1
        <4>3. NoneBeginsWith(parts, j) => \E m \in 1 .. Len(urls) : urls[m] = parts[j]
          BY <1>1, <4>1
        <4>4. 1 .. Len(urls) \subseteq 1 .. Len(list)
          BY <1>0, <2>2
        <4> QED BY <2>2, <4>2, <4>3, <4>4
      <3> QED BY <3>1, <3>2
    <2> QED BY <1>0, <1>1, <2>2, <2>5, <2>6 DEF ListOf
  <1> QED BY <1>2, <1>3

-----------------------------------------------------------------------------
(* The innermost call is replaced by another state of itself.                *)
LEMMA InnermostSet ==
    ASSUME stack \in Seq(PageFrame), Level > 0, NEW f \in PageFrame, SetInnermost(f)
    PROVE  /\ stack' \in Seq(PageFrame) /\ Level' = Level /\ Level \in Nat
           /\ Innermost \in PageFrame /\ Innermost' = f
           /\ \A k \in 1 .. Level : k # Level => stack'[k] = stack[k]
  <1>1. Len(stack) \in Nat /\ Len(stack) \in 1 .. Len(stack)
    BY LenProperties DEF Level
  <1>2. stack[Len(stack)] \in PageFrame
    BY <1>1, ElementOfSeq
  <1>3. stack' = [stack EXCEPT ![Len(stack)] = f]
    BY DEF SetInnermost, Level
  <1>4. /\ stack' \in Seq(PageFrame) /\ Len(stack') = Len(stack) /\ stack'[Len(stack)] = f
        /\ \A k \in 1 .. Len(stack) : k # Len(stack) => stack'[k] = stack[k]
    BY <1>1, <1>3, ExceptSeq
  <1> QED BY <1>1, <1>2, <1>4 DEF Level, Innermost

(* A call has asked for no less after more was asked for.                    *)
LEMMA CallOfMore ==
    ASSUME NEW w, NEW a, NEW b, a \subseteq b, NEW f, NEW level, CallOf(w, a, f, level)
    PROVE  CallOf(w, b, f, level)
  BY DEF CallOf, AskedBy

(* A step of the innermost call that is no return keeps what holds of all.   *)
LEMMA StepKeepsCalls ==
    ASSUME PagesType, CallInv, ComponentsInv, Level > 0,
           NEW f \in PageFrame, SetInnermost(f),
           web' = web, asked \subseteq asked', fetched' = fetched,
           pc \in {"regex_iterate", "sub"}, pc' = pc,
           f.url = Innermost.url, f.before = Innermost.before,
           f.components = Innermost.components,
           CallOf(web, asked', f, Level),
           pc = "sub" => ListIsMade(web, f),
           pc = "regex_iterate" => IsOpen(web, f) /\ f.i = 0
    PROVE  stack' \in Seq(PageFrame) /\ CallInv' /\ ComponentsInv'
  <1>1. /\ stack' \in Seq(PageFrame) /\ Level' = Level /\ Level \in Nat
        /\ Innermost \in PageFrame /\ Innermost' = f
        /\ \A k \in 1 .. Level : k # Level => stack'[k] = stack[k]
    BY InnermostSet DEF PagesType
  <1>2. stack'[Level] = f /\ stack[Level] = Innermost
    BY <1>1 DEF Innermost
  <1>3. CallInv'
    <2>1. (stack = <<>> <=> pc = "done")'
      <3>1. Len(stack') # 0
        BY <1>1 DEF Level
      <3> QED BY <3>1
    <2>2. (Level > 0 => stack[1].url = FirstUrl)'
      <3>1. stack[1].url = FirstUrl
        BY DEF CallInv
      <3>2. stack'[1].url = stack[1].url
        <4>1. CASE Level = 1
          BY <1>2, <4>1
        <4>2. CASE Level # 1
          BY <1>1, <4>2
        <4> QED BY <4>1, <4>2
      <3> QED BY <3>1, <3>2
    <2>3. ASSUME NEW k \in 1 .. Level
          PROVE  CallOf(web', asked', stack'[k], k)
      <3>1. CASE k = Level
        BY <1>2, <3>1
      <3>2. CASE k # Level
        <4>1. CallOf(web, asked, stack[k], k)
          BY DEF CallInv
        <4>2. CallOf(web, asked', stack[k], k)
          BY <4>1, CallOfMore
        <4> QED BY <1>1, <3>2, <4>2
      <3> QED BY <3>1, <3>2
    <2>4. ASSUME NEW k \in 1 .. Level, k < Level
          PROVE  ListIsMade(web', stack'[k])
      <3>1. ListIsMade(web, stack[k])
        BY <2>4 DEF CallInv
      <3> QED BY <1>1, <2>4, <3>1
    <2>5. pc' = "sub" => ListIsMade(web', f)
      OBVIOUS
    <2>6. pc' = "regex_iterate" => IsOpen(web', f)
      OBVIOUS
    <2>7. (pc \in {"http_recurse", "regex_iterate"} =>
              Innermost.i = 0 /\ Innermost.components = 0)'
      BY <1>1 DEF CallInv
    <2>8. (pc = "http_recurse" => Innermost.urls = <<>> /\ Innermost.total = 0)'
      OBVIOUS
    <2> QED BY <1>1, <2>1, <2>2, <2>3, <2>4, <2>5, <2>6, <2>7, <2>8 DEF CallInv
  <1>4. ComponentsInv'
    <2> SUFFICES ASSUME Bodies(web)
                 PROVE  /\ (Level > 0 => /\ stack[1].before = 0
                                         /\ fetched = Innermost.before + Innermost.components)'
                        /\ \A k \in 1 .. Level : \A m \in 1 .. Level : m = k + 1 =>
                              stack'[m].before = stack'[k].before + stack'[k].components + 1
      BY <1>1 DEF ComponentsInv
    <2>1. /\ stack[1].before = 0 /\ fetched = Innermost.before + Innermost.components
          /\ \A k \in 1 .. Level : \A m \in 1 .. Level : m = k + 1 =>
                stack[m].before = stack[k].before + stack[k].components + 1
      BY DEF ComponentsInv
    <2>2. ASSUME NEW k \in 1 .. Level
          PROVE  /\ stack'[k].before = stack[k].before
                 /\ stack'[k].components = stack[k].components
      <3>1. CASE k = Level
        BY <1>2, <3>1
      <3>2. CASE k # Level
        BY <1>1, <3>2
      <3> QED BY <3>1, <3>2
    <2>3. stack'[1].before = 0
      BY <1>1, <2>1, <2>2
    <2>4. ASSUME NEW k \in 1 .. Level, NEW m \in 1 .. Level, m = k + 1
          PROVE  stack'[m].before = stack'[k].before + stack'[k].components + 1
      BY <2>1, <2>2, <2>4
    <2> QED BY <1>1, <2>1, <2>3, <2>4
  <1> QED BY <1>1, <1>3, <1>4

(* A call returns and its caller adds what it returned.                      *)
LEMMA ReturnKeepsCalls ==
    ASSUME PagesType, CallInv, ComponentsInv, Level > 0,
           NEW n \in Nat, ReturnComponents(n), web' = web, asked' = asked, fetched' = fetched,
           Bodies(web) => n = IF AnswerOf(web, Innermost.url).ok
                              THEN 1 + Innermost.components ELSE 0
    PROVE  PagesType' /\ CallInv' /\ ComponentsInv' /\ ComponentsWereFetched'
  <1>1. /\ stack \in Seq(PageFrame) /\ Level \in Nat /\ Len(stack) = Level
        /\ \A k \in 1 .. Level : stack[k] \in PageFrame
    BY LenProperties, ElementOfSeq DEF PagesType, Level
  <1>2. CASE Level = 1
    <2>1. stack' = <<>> /\ result' = n /\ pc' = "done"
      BY <1>2 DEF ReturnComponents
    <2>2. Level' = 0
      BY <2>1 DEF Level
    <2>3. PagesType'
      BY <2>1 DEF PagesType
    <2>4. CallInv'
      BY <2>1, <2>2 DEF CallInv
    <2>5. ComponentsInv'
      BY <2>2 DEF ComponentsInv
    <2>6. ComponentsWereFetched'
      <3> DEFINE start == web[web[FirstUrl].moved]
                 opened == start.ok /\ (start.html /\ MaxRecursion # 0 => start.body)
      <3> SUFFICES ASSUME \A u \in Url : web[u].body
                   PROVE  n = IF opened THEN 1 + fetched ELSE 0
        BY <2>1 DEF ComponentsWereFetched
      <3>1. Bodies(web)
        BY DEF Bodies
      <3>2. Innermost = stack[1] /\ stack[1].url = FirstUrl
        BY <1>2 DEF Innermost, CallInv
      <3>3. AnswerOf(web, Innermost.url) = start
        BY <3>2 DEF AnswerOf
      <3>4. start.body
        <4>1. FirstUrl \in Url /\ web \in Web
          BY PagePartsAssumption DEF PagesType
        <4> QED BY <3>1, <3>2, <3>3, <4>1, WebAnswers
      <3>5. fetched = stack[1].before + stack[1].components /\ stack[1].before = 0
        BY <1>2, <3>1, <3>2 DEF ComponentsInv
      <3>6. stack[1].components \in Nat
        BY <1>1, <1>2 DEF PageFrame
      <3>7. fetched = Innermost.components
        BY <3>2, <3>5, <3>6
      <3>8. n = IF start.ok THEN 1 + fetched ELSE 0
        BY <3>1, <3>3, <3>7
      <3> QED BY <3>4, <3>8
    <2> QED BY <2>3, <2>4, <2>5, <2>6
  <1>3. CASE Level > 1
    <2> DEFINE q == SubSeq(stack, 1, Level - 1)
               g == [stack[Level - 1] EXCEPT !.components = @ + n]
    <2>1. stack' = [q EXCEPT ![Level - 1].components = @ + n] /\ pc' = "sub" /\ result' = result
      BY <1>3 DEF ReturnComponents
    <2>2. /\ q \in Seq(PageFrame) /\ Len(q) = Level - 1
          /\ \A k \in 1 .. Level - 1 : q[k] = stack[k]
      BY <1>1, <1>3, SubSeqProperties
    <2>3. /\ g \in PageFrame /\ g.components = stack[Level - 1].components + n
          /\ g.url = stack[Level - 1].url /\ g.depth = stack[Level - 1].depth
          /\ g.urls = stack[Level - 1].urls /\ g.total = stack[Level - 1].total
          /\ g.i = stack[Level - 1].i /\ g.before = stack[Level - 1].before
      <3>1. stack[Level - 1] \in PageFrame
        BY <1>1, <1>3
      <3> QED BY <3>1 DEF PageFrame
    <2>4. stack' = [q EXCEPT ![Level - 1] = g]
      <3>1. q[Level - 1] = stack[Level - 1]
        BY <1>1, <1>3, <2>2
      <3> HIDE DEF q
      <3> QED BY <2>1, <3>1
    <2> HIDE DEF q, g
    <2>5. /\ stack' \in Seq(PageFrame) /\ Len(stack') = Level - 1 /\ stack'[Level - 1] = g
          /\ \A k \in 1 .. Level - 1 : k # Level - 1 => stack'[k] = stack[k]
      BY <1>1, <1>3, <2>2, <2>3, <2>4, ExceptSeq
    <2>6. Level' = Level - 1 /\ Innermost' = g
      BY <2>5 DEF Level, Innermost
    <2>7. ListIsMade(web, stack[Level - 1])
      BY <1>1, <1>3 DEF CallInv
    <2>8. ListIsMade(web', g)
      BY <2>3, <2>7 DEF ListIsMade, IsOpen
    <2>9. CallInv'
      <3>1. (stack = <<>> <=> pc = "done")'
        <4>1. Len(stack') # 0
          BY <1>1, <1>3, <2>5
        <4> QED BY <2>1, <4>1
      <3>2. (Level > 0 => stack[1].url = FirstUrl)'
        <4>1. stack[1].url = FirstUrl
          BY DEF CallInv
        <4>2. stack'[1].url = stack[1].url
          <5>1. CASE Level = 2
            BY <2>3, <2>5, <5>1
          <5>2. CASE Level # 2
            BY <1>1, <1>3, <2>5, <5>2
          <5> QED BY <5>1, <5>2
        <4> QED BY <4>1, <4>2
      <3>3. ASSUME NEW k \in 1 .. Level - 1
            PROVE  CallOf(web', asked', stack'[k], k)
        <4>1. CallOf(web, asked, stack[k], k)
          BY <1>1 DEF CallInv
        <4>2. CASE k = Level - 1
          <5>1. CallOf(web, asked, g, k)
            BY <2>3, <4>1, <4>2 DEF CallOf, AskedBy
          <5> QED BY <2>5, <4>2, <5>1
        <4>3. CASE k # Level - 1
          BY <2>5, <4>1, <4>3
        <4> QED BY <4>2, <4>3
      <3>4. ASSUME NEW k \in 1 .. Level - 1, k < Level - 1
            PROVE  ListIsMade(web', stack'[k])
        <4>1. ListIsMade(web, stack[k])
          BY <1>1, <3>4 DEF CallInv
        <4> QED BY <2>5, <3>4, <4>1
      <3> QED BY <2>1, <2>6, <2>8, <3>1, <3>2, <3>3, <3>4 DEF CallInv
    <2>10. ComponentsInv'
      <3> SUFFICES ASSUME Bodies(web)
                   PROVE  /\ stack'[1].before = 0
                          /\ fetched = g.before + g.components
                          /\ \A k \in 1 .. Level - 1 : \A m \in 1 .. Level - 1 : m = k + 1 =>
                                stack'[m].before = stack'[k].before + stack'[k].components + 1
        BY <2>6 DEF ComponentsInv
      <3>1. /\ stack[1].before = 0 /\ fetched = Innermost.before + Innermost.components
            /\ \A k \in 1 .. Level : \A m \in 1 .. Level : m = k + 1 =>
                  stack[m].before = stack[k].before + stack[k].components + 1
        BY DEF ComponentsInv
      <3>2. ASSUME NEW k \in 1 .. Level - 1
            PROVE  stack'[k].before = stack[k].before
        BY <2>3, <2>5
      <3>3. stack'[1].before = 0
        BY <1>1, <1>3, <3>1, <3>2
      <3>4. fetched = g.before + g.components
        <4>1. Innermost = stack[Level]
          BY DEF Innermost
        <4>2. Innermost.before = stack[Level - 1].before + stack[Level - 1].components + 1
          BY <1>1, <1>3, <3>1, <4>1
        <4>3. AnswerOf(web, Innermost.url).ok
          BY <1>1, <1>3, <4>1 DEF CallInv, CallOf
        <4>4. n = 1 + Innermost.components
          BY <4>3
        <4>5. /\ Innermost.components \in Nat /\ stack[Level - 1].before \in Nat
              /\ stack[Level - 1].components \in Nat
          <5>1. Innermost \in PageFrame /\ stack[Level - 1] \in PageFrame
            BY <1>1, <1>3, <4>1
          <5> QED BY <5>1 DEF PageFrame
        <4>6. g.before = stack[Level - 1].before /\ g.components = stack[Level - 1].components + n
          BY <2>3
        <4>7. fetched = Innermost.before + Innermost.components
          BY <3>1
        <4> QED BY <4>2, <4>4, <4>5, <4>6, <4>7
      <3>5. ASSUME NEW k \in 1 .. Level - 1, NEW m \in 1 .. Level - 1, m = k + 1
            PROVE  stack'[m].before = stack'[k].before + stack'[k].components + 1
        <4>1. stack[m].before = stack[k].before + stack[k].components + 1
          BY <1>1, <3>1, <3>5
        <4>2. stack'[k] = stack[k]
          BY <1>1, <2>5, <3>5
        <4> QED BY <3>2, <4>1, <4>2
      <3> QED BY <3>3, <3>4, <3>5
    <2>11. PagesType'
      BY <2>1, <2>5 DEF PagesType
    <2>12. ComponentsWereFetched'
      BY <2>1 DEF ComponentsWereFetched
    <2> QED BY <2>9, <2>10, <2>11, <2>12
  <1> QED BY <1>1, <1>2, <1>3

-----------------------------------------------------------------------------
(* The next URL of the list is a match no earlier one begins with.           *)
LEMMA ThisIsExpected ==
    ASSUME PagesType, CallInv, Level > 0, HasRequest
    PROVE  /\ Innermost \in PageFrame /\ ThisSrc \in Src /\ ThisUrl \in Url
           /\ web[ThisUrl].resolved => ThisUrl \in Expected(web, Innermost.url)
  <1>1. Level \in Nat /\ Innermost \in PageFrame
    BY LenProperties, ElementOfSeq DEF PagesType, Level, Innermost
  <1>2. /\ Innermost.urls \in Seq(Src) /\ Innermost.url \in Url
        /\ Innermost.i \in Nat /\ Innermost.total \in Nat
    BY <1>1 DEF PageFrame
  <1>3. Innermost.i + 1 \in 1 .. Len(Innermost.urls)
    BY <1>2, LenProperties DEF HasRequest
  <1>4. ThisSrc \in Src
    BY <1>2, <1>3, ElementOfSeq DEF ThisSrc
  <1>5. ThisUrl \in Url
    BY <1>2, <1>4 DEF ThisUrl, CompleteUrl, Src, Url
  <1>6. CallOf(web, asked, Innermost, Level)
    BY <1>1 DEF CallInv, Innermost
  <1>7. PICK j \in 1 .. Innermost.total :
          /\ MatchesOf(web, Innermost.url)[j] = ThisSrc
          /\ NoneBeginsWith(MatchesOf(web, Innermost.url), j)
    BY <1>3, <1>6 DEF CallOf, ListOf, ThisSrc
  <1>8. j \in 1 .. Len(MatchesOf(web, Innermost.url))
    <2>1. /\ Innermost.total <= Len(MatchesOf(web, Innermost.url))
          /\ Len(MatchesOf(web, Innermost.url)) \in Nat
      BY <1>2, <1>6, WebAnswers, LenProperties DEF CallOf, PagesType
    <2> QED BY <1>2, <2>1
  <1>9. web[ThisUrl].resolved => ThisUrl \in Expected(web, Innermost.url)
    BY <1>7, <1>8 DEF Expected, HasRequest, ThisUrl
  <1> QED BY <1>1, <1>4, <1>5, <1>9

(* The call goes on to the next URL, having asked for this one if need be.   *)
LEMMA Advances ==
    ASSUME PagesType, CallInv, Level > 0, More, NEW b, asked \subseteq b,
           Innermost.i < Len(Innermost.urls) /\ ThisSrc.is # "other" /\ web[ThisUrl].resolved
               => <<Innermost.url, ThisUrl, Level>> \in b
    PROVE  /\ Advanced(Innermost) \in PageFrame
           /\ Advanced(Innermost).url = Innermost.url
           /\ Advanced(Innermost).before = Innermost.before
           /\ Advanced(Innermost).components = Innermost.components
           /\ CallOf(web, b, Advanced(Innermost), Level)
           /\ ListIsMade(web, Advanced(Innermost))
  <1> DEFINE f == Advanced(Innermost)
  <1>1. Level \in Nat /\ Innermost \in PageFrame
    BY LenProperties, ElementOfSeq DEF PagesType, Level, Innermost
  <1>2. /\ f \in PageFrame /\ f.url = Innermost.url /\ f.depth = Innermost.depth
        /\ f.urls = Innermost.urls /\ f.total = Innermost.total
        /\ f.i = Innermost.i + 1 /\ f.components = Innermost.components
        /\ f.before = Innermost.before
    BY <1>1 DEF PageFrame, Advanced
  <1>3. Innermost.i \in Nat /\ Innermost.total \in Nat /\ Innermost.i < Innermost.total
    BY <1>1 DEF PageFrame, More
  <1>4. CallOf(web, asked, Innermost, Level)
    BY <1>1 DEF CallInv, Innermost
  <1>5. ListIsMade(web, Innermost)
    BY DEF CallInv, More
  <1> HIDE DEF f
  <1>6. ASSUME NEW n \in 1 .. Len(f.urls), n <= f.i, f.urls[n].is # "other",
               web[CompleteUrl(f.urls[n], f.url)].resolved
        PROVE  <<f.url, CompleteUrl(f.urls[n], f.url), Level>> \in b
    <2>1. CASE n <= Innermost.i
      BY <1>2, <1>4, <1>6, <2>1 DEF CallOf, AskedBy
    <2>2. CASE ~(n <= Innermost.i)
      <3>1. n = Innermost.i + 1
        BY <1>2, <1>3, <1>6, <2>2
      <3>2. f.urls[n] = ThisSrc /\ CompleteUrl(f.urls[n], f.url) = ThisUrl
        BY <1>2, <3>1 DEF ThisSrc, ThisUrl
      <3>3. Innermost.i < Len(Innermost.urls)
        BY <1>2, <1>3, <3>1
      <3> QED BY <1>2, <1>6, <3>2, <3>3
    <2> QED BY <2>1, <2>2
  <1>7. CallOf(web, b, f, Level)
    <2>1. f.i <= f.total
      BY <1>2, <1>3
    <2> QED BY <1>2, <1>4, <1>6, <2>1 DEF CallOf, AskedBy
  <1>8. ListIsMade(web, f)
    BY <1>2, <1>5 DEF ListIsMade, IsOpen
  <1> QED BY <1>2, <1>7, <1>8 DEF f

(* http_recurse calls itself for a part that was fetched.                    *)
LEMMA RecurseKeepsCalls ==
    ASSUME PagesType, CallInv, ComponentsInv, Level > 0, Recurse
    PROVE  stack' \in Seq(PageFrame) /\ CallInv' /\ ComponentsInv'
  <1> DEFINE f == Advanced(Innermost)
             q == [stack EXCEPT ![Level] = f]
             new == [url |-> ThisUrl, depth |-> Innermost.depth - 1, urls |-> <<>>,
                     total |-> 0, i |-> 0, components |-> 0, before |-> fetched + 1]
  <1>1. /\ stack \in Seq(PageFrame) /\ Level \in Nat /\ Len(stack) = Level
        /\ \A k \in 1 .. Level : stack[k] \in PageFrame
        /\ stack[Level] = Innermost
    BY LenProperties, ElementOfSeq DEF PagesType, Level, Innermost
  <1>2. /\ pc = "sub" /\ pc' = "http_recurse" /\ web' = web /\ fetched' = fetched + 1
        /\ HasRequest /\ More /\ asked \subseteq asked'
        /\ <<Innermost.url, ThisUrl, Level>> \in asked'
        /\ AnswerOf(web, ThisUrl).ok
    BY DEF Recurse, Request, HasRequest, More, AnswerOf
  <1>3. /\ f \in PageFrame /\ f.url = Innermost.url /\ f.before = Innermost.before
        /\ f.components = Innermost.components
        /\ CallOf(web, asked', f, Level) /\ ListIsMade(web, f)
    BY <1>2, Advances
  <1>4. Innermost.depth = MaxRecursion - (Level - 1) /\ Innermost.depth \in 1 .. MaxRecursion
    <2>1. CallOf(web, asked, Innermost, Level) /\ ListIsMade(web, Innermost)
      BY <1>1, <1>2 DEF CallInv
    <2>2. Innermost.depth # 0 /\ Innermost.depth \in 0 .. MaxRecursion
      BY <1>1, <2>1 DEF ListIsMade, IsOpen, PageFrame
    <2> QED BY <2>1, <2>2, PagePartsAssumption DEF CallOf
  <1>5. /\ new \in PageFrame /\ new.url = ThisUrl /\ new.depth = MaxRecursion - Level
        /\ new.urls = <<>> /\ new.total = 0 /\ new.i = 0 /\ new.components = 0
        /\ new.before = fetched + 1
    <2>1. ThisUrl \in Url /\ fetched + 1 \in Nat /\ <<>> \in Seq(Src)
      BY <1>2, ThisIsExpected, EmptySeq DEF PagesType
    <2>2. Innermost.depth - 1 \in 0 .. MaxRecursion /\ Innermost.depth - 1 = MaxRecursion - Level
      BY <1>1, <1>4, PagePartsAssumption
    <2> QED BY <2>1, <2>2 DEF PageFrame
  <1>6. stack' = Append(q, new)
    <2>1. [stack EXCEPT ![Level] = Advanced(@)] = q
      BY <1>1
    <2> QED BY <2>1 DEF Recurse
  <1> HIDE DEF f, new
  <1>7. /\ q \in Seq(PageFrame) /\ Len(q) = Level /\ q[Level] = f
        /\ \A k \in 1 .. Level : k # Level => q[k] = stack[k]
    <2>1. Level \in 1 .. Len(stack)
      BY <1>1
    <2> QED BY <1>1, <1>3, <2>1, ExceptSeq
  <1> HIDE DEF q
  <1>8. /\ stack' \in Seq(PageFrame) /\ Len(stack') = Level + 1 /\ stack'[Level + 1] = new
        /\ stack'[Level] = f
        /\ \A k \in 1 .. Level : k # Level => stack'[k] = stack[k]
    <2>1. /\ stack' \in Seq(PageFrame) /\ Len(stack') = Len(q) + 1
          /\ \A k \in 1 .. Len(q) : stack'[k] = q[k]
          /\ stack'[Len(q) + 1] = new
      BY <1>5, <1>6, <1>7, AppendProperties
    <2> QED BY <1>1, <1>7, <2>1
  <1>9. Level' = Level + 1 /\ Innermost' = new
    BY <1>8 DEF Level, Innermost
  <1>10. CallInv'
    <2>1. (stack = <<>> <=> pc = "done")'
      <3>1. Len(stack') # 0
        BY <1>1, <1>8
      <3> QED BY <1>2, <3>1
    <2>2. stack'[1].url = FirstUrl
      <3>1. stack[1].url = FirstUrl
        BY DEF CallInv
      <3>2. stack'[1].url = stack[1].url
        <4>1. CASE Level = 1
          BY <1>1, <1>3, <1>8, <4>1
        <4>2. CASE Level # 1
          BY <1>1, <1>8, <4>2
        <4> QED BY <4>1, <4>2
      <3> QED BY <3>1, <3>2
    <2>3. ASSUME NEW k \in 1 .. Level + 1
          PROVE  CallOf(web', asked', stack'[k], k)
      <3>1. CASE k = Level + 1
        <4>1. Len(MatchesOf(web, ThisUrl)) \in Nat
          BY <1>2, ThisIsExpected, WebAnswers, LenProperties DEF PagesType
        <4>2. Len(<<>>) = 0
          OBVIOUS
        <4>3. ListOf(MatchesOf(web, ThisUrl), <<>>, 0)
          BY <4>2 DEF ListOf
        <4>4. AskedBy(web, asked', new, k)
          BY <1>5, <4>2 DEF AskedBy
        <4>5. new.depth = MaxRecursion - (k - 1)
          BY <1>1, <1>5, <3>1
        <4>6. CallOf(web, asked', new, k)
          BY <1>2, <1>5, <4>1, <4>3, <4>4, <4>5 DEF CallOf
        <4> QED BY <1>2, <1>8, <3>1, <4>6
      <3>2. CASE k = Level
        BY <1>2, <1>3, <1>8, <3>2
      <3>3. CASE k # Level /\ k # Level + 1
        <4>1. k \in 1 .. Level
          BY <1>1, <3>3
        <4>2. CallOf(web, asked', stack[k], k)
          BY <1>2, <4>1, CallOfMore DEF CallInv
        <4> QED BY <1>2, <1>8, <3>3, <4>1, <4>2
      <3> QED BY <3>1, <3>2, <3>3
    <2>4. ASSUME NEW k \in 1 .. Level + 1, k < Level + 1
          PROVE  ListIsMade(web', stack'[k])
      <3>1. CASE k = Level
        BY <1>2, <1>3, <1>8, <3>1
      <3>2. CASE k # Level
        <4>1. k \in 1 .. Level /\ k < Level
          BY <1>1, <2>4, <3>2
        <4>2. ListIsMade(web, stack[k])
          BY <4>1 DEF CallInv
        <4> QED BY <1>2, <1>8, <3>2, <4>1, <4>2
      <3> QED BY <3>1, <3>2
    <2> QED BY <1>2, <1>5, <1>9, <2>1, <2>2, <2>3, <2>4 DEF CallInv
  <1>11. ComponentsInv'
    <2> SUFFICES ASSUME Bodies(web)
                 PROVE  /\ stack'[1].before = 0
                        /\ fetched + 1 = new.before + new.components
                        /\ \A k \in 1 .. Level + 1 : \A m \in 1 .. Level + 1 : m = k + 1 =>
                              stack'[m].before = stack'[k].before + stack'[k].components + 1
      BY <1>2, <1>9 DEF ComponentsInv
    <2>1. /\ stack[1].before = 0 /\ fetched = Innermost.before + Innermost.components
          /\ \A k \in 1 .. Level : \A m \in 1 .. Level : m = k + 1 =>
                stack[m].before = stack[k].before + stack[k].components + 1
      BY DEF ComponentsInv
    <2>2. ASSUME NEW k \in 1 .. Level
          PROVE  /\ stack'[k].before = stack[k].before
                 /\ stack'[k].components = stack[k].components
      <3>1. CASE k = Level
        BY <1>1, <1>3, <1>8, <3>1
      <3>2. CASE k # Level
        BY <1>8, <3>2
      <3> QED BY <3>1, <3>2
    <2>3. stack'[1].before = 0
      BY <1>1, <2>1, <2>2
    <2>4. fetched + 1 = new.before + new.components
      BY <1>5 DEF PagesType
    <2>5. ASSUME NEW k \in 1 .. Level + 1, NEW m \in 1 .. Level + 1, m = k + 1
          PROVE  stack'[m].before = stack'[k].before + stack'[k].components + 1
      <3>1. k \in 1 .. Level
        BY <1>1, <2>5
      <3>2. CASE k = Level
        <4>1. stack'[m] = new
          BY <1>8, <2>5, <3>2
        <4>2. stack'[k].before = Innermost.before /\ stack'[k].components = Innermost.components
          BY <1>1, <2>2, <3>1, <3>2
        <4>3. fetched = Innermost.before + Innermost.components
          BY <2>1
        <4> QED BY <1>5, <4>1, <4>2, <4>3
      <3>3. CASE k # Level
        <4>1. m \in 1 .. Level
          BY <1>1, <2>5, <3>1, <3>3
        <4>2. stack[m].before = stack[k].before + stack[k].components + 1
          BY <2>1, <2>5, <3>1, <4>1
        <4> QED BY <2>2, <3>1, <4>1, <4>2
      <3> QED BY <3>2, <3>3
    <2> QED BY <2>3, <2>4, <2>5
  <1> QED BY <1>8, <1>10, <1>11

-----------------------------------------------------------------------------
(* The task's own request is the outermost call.                            *)
LEMMA PagesInitHolds == PagesInit => PagesInv
  <1> SUFFICES ASSUME PagesInit PROVE PagesInv
    OBVIOUS
  <1> DEFINE f == [url |-> FirstUrl, depth |-> MaxRecursion, urls |-> <<>>, total |-> 0,
                   i |-> 0, components |-> 0, before |-> 0]
  <1>1. web \in Web /\ stack = <<f>> /\ pc = "http_recurse" /\ asked = {} /\ fetched = 0
        /\ result = -1
    BY PagePartsAssumption DEF PagesInit
  <1>2. f \in PageFrame
    BY PagePartsAssumption, EmptySeq DEF PageFrame
  <1>3. Len(stack) = 1 /\ stack[1] = f /\ stack # <<>> /\ stack \in Seq(PageFrame)
    BY <1>1, <1>2
  <1>4. Level = 1 /\ Innermost = f
    BY <1>3 DEF Level, Innermost
  <1>5. PagesType
    BY <1>1, <1>3 DEF PagesType
  <1>6. CallInv
    <2>1. Len(MatchesOf(web, FirstUrl)) \in Nat
      BY <1>1, WebAnswers, LenProperties, PagePartsAssumption
    <2>2. Len(<<>>) = 0
      OBVIOUS
    <2>3. ListOf(MatchesOf(web, FirstUrl), <<>>, 0) /\ AskedBy(web, asked, f, 1)
      BY <2>2 DEF ListOf, AskedBy
    <2>4. CallOf(web, asked, f, 1)
      BY <2>1, <2>3, PagePartsAssumption DEF CallOf
    <2> HIDE DEF f
    <2>5. \A k \in 1 .. Level : CallOf(web, asked, stack[k], k)
      BY <1>3, <1>4, <2>4
    <2> QED BY <1>1, <1>3, <1>4, <2>5 DEF CallInv, f
  <1>7. ComponentsInv
    BY <1>1, <1>3, <1>4 DEF ComponentsInv
  <1> QED BY <1>1, <1>5, <1>6, <1>7 DEF PagesInv, AskedInv, ComponentsWereFetched

(* The two actions that ask for something ask for what is expected.          *)
LEMMA RequestKeepsAsked ==
    ASSUME PagesType, CallInv, AskedInv, Level > 0, HasRequest, Request,
           web[ThisUrl].resolved, web' = web
    PROVE  asked' \subseteq Url \X Url \X Nat /\ AskedInv'
  <1>1. asked' = asked \cup {<<Innermost.url, ThisUrl, Level>>}
    BY DEF Request
  <1>2. ThisUrl \in Url /\ ThisUrl \in Expected(web, Innermost.url) /\ Innermost \in PageFrame
    BY ThisIsExpected
  <1>3. Innermost.url \in Url /\ Level \in Nat
    BY <1>2, LenProperties DEF PageFrame, PagesType, Level
  <1>4. asked' \subseteq Url \X Url \X Nat
    BY <1>1, <1>2, <1>3 DEF PagesType
  <1>5. ASSUME NEW a \in asked'
        PROVE  a[2] \in Expected(web, a[1])
    BY <1>1, <1>2 DEF AskedInv
  <1> QED BY <1>4, <1>5 DEF AskedInv

(* Every action keeps the invariant: the four that return, the three that    *)
(* make the list, the four that go through it.                               *)
LEMMA PagesNextKeeps == PagesInv /\ [PagesNext]_pagesVars => PagesInv'
  <1> SUFFICES ASSUME PagesInv, [PagesNext]_pagesVars PROVE PagesInv'
    OBVIOUS
  <1>1. PagesType /\ CallInv /\ AskedInv /\ ComponentsInv /\ ComponentsWereFetched
    BY DEF PagesInv
  <1>2. pc # "done" => /\ Level > 0 /\ Level \in Nat /\ Innermost \in PageFrame
                       /\ CallOf(web, asked, Innermost, Level) /\ Innermost.url \in Url
    <2> SUFFICES ASSUME pc # "done"
                 PROVE  /\ Level > 0 /\ Level \in Nat /\ Innermost \in PageFrame
                        /\ CallOf(web, asked, Innermost, Level) /\ Innermost.url \in Url
      OBVIOUS
    <2>1. stack \in Seq(PageFrame) /\ stack # <<>>
      BY <1>1 DEF PagesType, CallInv
    <2>2. Level \in Nat /\ Level > 0
      BY <2>1, EmptySeq, LenProperties DEF Level
    <2>3. Innermost \in PageFrame
      BY <2>1, <2>2, ElementOfSeq DEF Level, Innermost
    <2>4. CallOf(web, asked, Innermost, Level)
      BY <1>1, <2>2 DEF CallInv, Innermost
    <2> QED BY <2>2, <2>3, <2>4 DEF PageFrame
  <1>3. Page = AnswerOf(web, Innermost.url) /\ Matches = MatchesOf(web, Innermost.url)
    BY DEF Page, AnswerOf, Matches, MatchesOf
  (* The returns *)
  <1>4. ASSUME NEW n \in Nat, pc # "done", ReturnComponents(n), UNCHANGED <<web, history>>,
               Bodies(web) => n = IF Page.ok THEN 1 + Innermost.components ELSE 0
        PROVE  PagesInv'
    <2>1. web' = web /\ asked' = asked /\ fetched' = fetched
      BY <1>4 DEF history
    <2>2. PagesType' /\ CallInv' /\ ComponentsInv' /\ ComponentsWereFetched'
      BY <1>1, <1>2, <1>3, <1>4, <2>1, ReturnKeepsCalls
    <2>3. AskedInv'
      BY <1>1, <2>1 DEF AskedInv
    <2> QED BY <2>2, <2>3 DEF PagesInv
  <1>5. ASSUME NotFound PROVE PagesInv'
    BY <1>4, <1>5 DEF NotFound
  <1>6. ASSUME Leaf PROVE PagesInv'
    <2>1. pc = "http_recurse" /\ Page.ok /\ ReturnComponents(1) /\ UNCHANGED <<web, history>>
      BY <1>6 DEF Leaf
    <2>2. Innermost.components = 0
      BY <1>1, <2>1 DEF CallInv
    <2> QED BY <1>4, <2>1, <2>2
  <1>7. ASSUME NullBody PROVE PagesInv'
    <2>1. /\ pc = "http_recurse" /\ Page.ok /\ ~Page.body
          /\ ReturnComponents(0) /\ UNCHANGED <<web, history>>
      BY <1>7 DEF NullBody
    <2>2. ~Bodies(web)
      BY <1>1, <1>2, <1>3, <2>1, WebAnswers DEF PagesType
    <2> QED BY <1>4, <2>1, <2>2
  <1>8. ASSUME AllSeen PROVE PagesInv'
    <2>1. /\ pc = "sub" /\ ReturnComponents(1 + Innermost.components)
          /\ UNCHANGED <<web, history>>
      BY <1>8 DEF AllSeen
    <2>2. Page.ok
      BY <1>1, <1>3, <2>1 DEF CallInv, ListIsMade, IsOpen
    <2>3. 1 + Innermost.components \in Nat
      BY <1>2, <2>1 DEF PageFrame
    <2> QED BY <1>4, <2>1, <2>2, <2>3
  (* The list is made *)
  <1>9. ASSUME Extract PROVE PagesInv'
    <2>1. /\ pc = "http_recurse" /\ Page.ok /\ Page.html /\ Page.body /\ Innermost.depth # 0
          /\ pc' = "regex_iterate" /\ web' = web /\ stack' = stack /\ result' = result
          /\ asked' = asked /\ fetched' = fetched
      BY <1>9 DEF Extract, IsLeaf, history
    <2>2. IsOpen(web, Innermost)
      BY <1>3, <2>1 DEF IsOpen
    <2>3. CallInv'
      BY <1>1, <2>1, <2>2 DEF CallInv, Level, Innermost
    <2> QED BY <1>1, <2>1, <2>3 DEF PagesInv, PagesType, AskedInv, ComponentsInv, Level, Innermost,
                 ComponentsWereFetched
  <1>10. ASSUME NoMoreMatches PROVE PagesInv'
    <2>1. /\ pc = "regex_iterate" /\ Innermost.total = Len(MatchesOf(web, Innermost.url))
          /\ pc' = "sub" /\ web' = web /\ stack' = stack /\ result' = result
          /\ asked' = asked /\ fetched' = fetched
      BY <1>3, <1>10 DEF NoMoreMatches, history
    <2>2. ListIsMade(web, Innermost)
      BY <1>1, <2>1 DEF CallInv, ListIsMade
    <2>3. CallInv'
      BY <1>1, <2>1, <2>2 DEF CallInv, Level, Innermost
    <2> QED BY <1>1, <2>1, <2>3 DEF PagesInv, PagesType, AskedInv, ComponentsInv, Level, Innermost,
                 ComponentsWereFetched
  <1>11. ASSUME EachMatch PROVE PagesInv'
    <2> DEFINE parts == MatchesOf(web, Innermost.url)
               urls == AppendMatch(Innermost.urls, parts[Innermost.total + 1])
               f == [Innermost EXCEPT !.urls = urls, !.total = @ + 1]
    <2>1. /\ pc = "regex_iterate" /\ Innermost.total < Len(parts) /\ SetInnermost(f)
          /\ web' = web /\ result' = result /\ pc' = pc /\ asked' = asked /\ fetched' = fetched
      BY <1>2, <1>3, <1>11 DEF EachMatch, history
    <2>2. parts \in Seq(Src) /\ Innermost.urls \in Seq(Src) /\ Innermost.total \in Nat
      BY <1>1, <1>2, <2>1, WebAnswers DEF PagesType, PageFrame
    <2>3. urls \in Seq(Src) /\ ListOf(parts, urls, Innermost.total + 1)
      BY <1>2, <2>1, <2>2, AppendMatchKeepsList DEF CallOf
    <2>4. Innermost.i = 0
      BY <1>1, <2>1 DEF CallInv
    <2> HIDE DEF urls
    <2>5. /\ f \in PageFrame /\ f.url = Innermost.url /\ f.depth = Innermost.depth
          /\ f.urls = urls /\ f.total = Innermost.total + 1 /\ f.i = 0
          /\ f.components = Innermost.components /\ f.before = Innermost.before
      <3>1. Innermost \in PageFrame
        BY <1>2, <2>1
      <3>2. urls \in Seq(Src) /\ Innermost.total + 1 \in Nat
        BY <2>2, <2>3
      <3>3. f \in PageFrame
        BY <3>1, <3>2 DEF PageFrame
      <3> QED BY <2>4, <3>1, <3>2, <3>3 DEF PageFrame
    <2> HIDE DEF f
    <2>6. CallOf(web, asked, f, Level)
      <3>1. AskedBy(web, asked, f, Level)
        BY <2>5 DEF AskedBy
      <3>2. f.total <= Len(parts) /\ f.i <= f.total
        BY <2>1, <2>2, <2>5, LenProperties
      <3> QED BY <1>2, <2>1, <2>3, <2>5, <3>1, <3>2 DEF CallOf
    <2>7. IsOpen(web, f)
      BY <1>1, <2>1, <2>5 DEF CallInv, IsOpen
    <2>8. stack' \in Seq(PageFrame) /\ CallInv' /\ ComponentsInv'
      BY <1>1, <1>2, <2>1, <2>5, <2>6, <2>7, StepKeepsCalls
    <2> QED BY <1>1, <2>1, <2>8 DEF PagesInv, PagesType, AskedInv, ComponentsWereFetched
  (* Its URLs are fetched *)
  <1>12. ASSUME More, SetInnermost(Advanced(Innermost)), web' = web, result' = result, pc' = pc,
                asked \subseteq asked', fetched' = fetched,
                Innermost.i < Len(Innermost.urls) /\ ThisSrc.is # "other"
                    /\ web[ThisUrl].resolved => <<Innermost.url, ThisUrl, Level>> \in asked',
                asked' \subseteq Url \X Url \X Nat, AskedInv'
         PROVE  PagesInv'
    <2>1. pc = "sub" /\ Level > 0
      BY <1>2, <1>12 DEF More
    <2>2. /\ Advanced(Innermost) \in PageFrame
          /\ Advanced(Innermost).url = Innermost.url
          /\ Advanced(Innermost).before = Innermost.before
          /\ Advanced(Innermost).components = Innermost.components
          /\ CallOf(web, asked', Advanced(Innermost), Level)
          /\ ListIsMade(web, Advanced(Innermost))
      BY <1>1, <1>12, <2>1, Advances
    <2>3. stack' \in Seq(PageFrame) /\ CallInv' /\ ComponentsInv'
      BY <1>1, <1>12, <2>1, <2>2, StepKeepsCalls
    <2> QED BY <1>1, <1>12, <2>1, <2>3 DEF PagesInv, PagesType, ComponentsWereFetched
  <1>13. ASSUME Skip PROVE PagesInv'
    <2>1. /\ More /\ SetInnermost(Advanced(Innermost)) /\ web' = web /\ result' = result
          /\ pc' = pc /\ asked' = asked /\ fetched' = fetched
          /\ Innermost.i < Len(Innermost.urls) => ThisSrc.is = "other"
      BY <1>13 DEF Skip, history
    <2>2. AskedInv' /\ asked' \subseteq Url \X Url \X Nat
      BY <1>1, <2>1 DEF AskedInv, PagesType
    <2> QED BY <1>12, <2>1, <2>2
  <1>14. ASSUME Unresolved PROVE PagesInv'
    <2>1. /\ More /\ SetInnermost(Advanced(Innermost)) /\ web' = web /\ result' = result
          /\ pc' = pc /\ asked' = asked /\ fetched' = fetched
          /\ ~web[ThisUrl].resolved
      BY <1>14 DEF Unresolved, HasRequest, history
    <2>2. AskedInv' /\ asked' \subseteq Url \X Url \X Nat
      BY <1>1, <2>1 DEF AskedInv, PagesType
    <2> QED BY <1>12, <2>1, <2>2
  <1>15. ASSUME GetFails PROVE PagesInv'
    <2>1. /\ More /\ HasRequest /\ SetInnermost(Advanced(Innermost)) /\ web' = web
          /\ result' = result /\ pc' = pc /\ Request /\ fetched' = fetched
          /\ web[ThisUrl].resolved
      BY <1>15 DEF GetFails, HasRequest, history
    <2>2. AskedInv' /\ asked' \subseteq Url \X Url \X Nat
      BY <1>1, <1>2, <2>1, RequestKeepsAsked DEF More
    <2>3. asked \subseteq asked' /\ <<Innermost.url, ThisUrl, Level>> \in asked'
      BY <2>1 DEF Request
    <2> QED BY <1>12, <2>1, <2>2, <2>3
  <1>16. ASSUME Recurse PROVE PagesInv'
    <2>1. /\ pc = "sub" /\ HasRequest /\ web' = web /\ result' = result /\ Request
          /\ pc' = "http_recurse" /\ fetched' = fetched + 1 /\ web[ThisUrl].resolved
      BY <1>16 DEF Recurse, HasRequest, More
    <2>2. AskedInv' /\ asked' \subseteq Url \X Url \X Nat
      BY <1>1, <1>2, <2>1, RequestKeepsAsked
    <2>3. stack' \in Seq(PageFrame) /\ CallInv' /\ ComponentsInv'
      BY <1>1, <1>2, <1>16, <2>1, RecurseKeepsCalls
    <2>4. fetched' \in Nat
      BY <1>1, <2>1 DEF PagesType
    <2> QED BY <1>1, <2>1, <2>2, <2>3, <2>4 DEF PagesInv, PagesType, ComponentsWereFetched
  <1>17. ASSUME UNCHANGED pagesVars PROVE PagesInv'
    BY <1>1, <1>17 DEF pagesVars, PagesInv, PagesType, CallInv, AskedInv, ComponentsInv, Level,
         Innermost, ComponentsWereFetched
  <1> QED BY <1>5, <1>6, <1>7, <1>8, <1>9, <1>10, <1>11, <1>13, <1>14, <1>15, <1>16, <1>17
         DEF PagesNext

(* When a call is through with its list, what is asked for is what is        *)
(* expected.                                                                 *)
LEMMA PagesInvGivesProperty == PagesInv => PartsAreAskedFor
  <1> SUFFICES ASSUME PagesInv PROVE PartsAreAskedFor
    OBVIOUS
  <1>1. PagesType /\ CallInv /\ AskedInv /\ ComponentsInv /\ ComponentsWereFetched
    BY DEF PagesInv
  <1>2. /\ Level \in Nat /\ DOMAIN stack = 1 .. Level
        /\ \A k \in 1 .. Level : stack[k] \in PageFrame /\ CallOf(web, asked, stack[k], k)
    BY <1>1, LenProperties, ElementOfSeq DEF PagesType, CallInv, Level
  <1>3. PagePartsTypeOK
    <2>1. ASSUME NEW k \in DOMAIN stack
          PROVE  /\ stack[k].url \in Url /\ stack[k].depth \in 0 .. MaxRecursion
                 /\ \A n \in DOMAIN stack[k].urls : stack[k].urls[n] \in Src
                 /\ Len(stack[k].urls) <= stack[k].total /\ stack[k].total <= MaxTotalUrls
                 /\ stack[k].i \in 0 .. stack[k].total
      <3>1. stack[k] \in PageFrame /\ CallOf(web, asked, stack[k], k)
        BY <1>2
      <3>2. /\ stack[k].url \in Url /\ stack[k].depth \in 0 .. MaxRecursion
            /\ stack[k].urls \in Seq(Src) /\ stack[k].total \in Nat /\ stack[k].i \in Nat
        BY <3>1 DEF PageFrame
      <3>3. \A n \in DOMAIN stack[k].urls : stack[k].urls[n] \in Src
        BY <3>2, LenProperties, ElementOfSeq
      <3>4. /\ Len(MatchesOf(web, stack[k].url)) <= MaxTotalUrls
            /\ Len(MatchesOf(web, stack[k].url)) \in Nat
        BY <1>1, <3>2, WebAnswers, LenProperties DEF PagesType
      <3>5. /\ Len(stack[k].urls) <= stack[k].total /\ stack[k].i <= stack[k].total
            /\ stack[k].total <= Len(MatchesOf(web, stack[k].url))
        BY <3>1 DEF CallOf, ListOf
      <3>6. stack[k].total <= MaxTotalUrls
        BY <3>2, <3>4, <3>5, PagePartsAssumption
      <3> QED BY <3>2, <3>3, <3>5, <3>6
    <2>2. Level <= MaxRecursion + 1
      <3>1. CASE Level = 0
        BY <3>1, PagePartsAssumption
      <3>2. CASE Level > 0
        <4>1. stack[Level].depth = MaxRecursion - (Level - 1)
          BY <1>2, <3>2 DEF CallOf
        <4>2. stack[Level].depth \in 0 .. MaxRecursion
          BY <1>2, <3>2 DEF PageFrame
        <4> QED BY <1>2, <4>1, <4>2, PagePartsAssumption
      <3> QED BY <1>2, <3>1, <3>2
    <2>3. result \in Int /\ pc \in {"http_recurse", "regex_iterate", "sub", "done"}
      BY <1>1 DEF PagesType
    <2> QED BY <2>1, <2>2, <2>3 DEF PagePartsTypeOK
  <1>4. EveryPartAskedFor
    <2> DEFINE url == Innermost.url
               parts == MatchesOf(web, url)
               all == web[web[url].moved].parts
    <2> SUFFICES ASSUME pc = "sub", Innermost.i = Innermost.total
                 PROVE  {a[2] : a \in {b \in asked : b[1] = url /\ b[3] = Level}} =
                          {[host |-> IF all[k].is = "url" THEN all[k].host ELSE url.host,
                            file |-> all[k].file] : k \in PartsOf(url)}
      BY DEF EveryPartAskedFor
    <2>1. Level > 0
      <3>1. stack # <<>> /\ stack \in Seq(PageFrame)
        BY <1>1 DEF CallInv, PagesType
      <3> QED BY <3>1, EmptySeq, LenProperties DEF Level
    <2>2. Innermost \in PageFrame /\ CallOf(web, asked, Innermost, Level)
      BY <1>2, <2>1 DEF Innermost
    <2>3. Innermost.total = Len(parts) /\ Len(Innermost.urls) <= Innermost.total
      BY <1>1, <2>2 DEF CallInv, ListIsMade, CallOf, ListOf
    <2>4. url \in Url /\ web \in Web
      BY <1>1, <2>2 DEF PageFrame, PagesType
    <2>5. parts \in Seq(Src) /\ Len(parts) \in Nat /\ DOMAIN parts = 1 .. Len(parts)
      BY <2>4, WebAnswers, LenProperties
    <2>6. all \in Seq(Src) /\ parts = Cut(all)
      BY <2>4 DEF Web, MatchesOf, AnswerOf
    <2>7. \A k \in 1 .. Len(parts) : all[k] = parts[k]
      <3>1. CASE Len(all) <= MaxTotalUrls
        BY <2>6, <3>1 DEF Cut
      <3>2. CASE ~(Len(all) <= MaxTotalUrls)
        <4>1. parts = SubSeq(all, 1, MaxTotalUrls)
          BY <2>6, <3>2 DEF Cut
        <4>2. MaxTotalUrls \in 1 .. Len(all)
          BY <2>6, <3>2, LenProperties, PagePartsAssumption
        <4> QED BY <2>6, <4>1, <4>2, SubSeqProperties
      <3> QED BY <3>1, <3>2
    <2> HIDE DEF parts, all
    <2>8. PartsOf(url) = {k \in 1 .. Len(parts) :
                            /\ parts[k].is # "other"
                            /\ web[CompleteUrl(parts[k], url)].resolved
                            /\ NoneBeginsWith(parts, k)}
      BY <2>5, <2>6 DEF PartsOf, NoneBeginsWith, all
    <2>9. ASSUME NEW k \in PartsOf(url)
          PROVE  [host |-> IF all[k].is = "url" THEN all[k].host ELSE url.host,
                  file |-> all[k].file] = CompleteUrl(parts[k], url)
      <3>1. k \in 1 .. Len(parts) /\ parts[k].is # "other" /\ all[k] = parts[k]
        BY <2>7, <2>8
      <3>2. parts[k] \in Src
        BY <2>5, <3>1, ElementOfSeq
      <3>3. parts[k].is \in {"url", "relative", "other"}
        BY <3>2 DEF Src
      <3> QED BY <3>1, <3>3 DEF CompleteUrl
    <2>10. Expected(web, url) = {CompleteUrl(parts[k], url) : k \in PartsOf(url)}
      BY <2>8 DEF Expected, parts
    <2>11. ASSUME NEW a \in asked, a[1] = url
           PROVE  \E k \in PartsOf(url) : a[2] = CompleteUrl(parts[k], url)
      BY <1>1, <2>10, <2>11 DEF AskedInv
    <2>12. ASSUME NEW k \in PartsOf(url)
           PROVE  <<url, CompleteUrl(parts[k], url), Level>> \in asked
      <3>1. /\ k \in 1 .. Len(parts) /\ parts[k].is # "other" /\ NoneBeginsWith(parts, k)
            /\ web[CompleteUrl(parts[k], url)].resolved
        BY <2>8
      <3>2. PICK n \in 1 .. Len(Innermost.urls) : Innermost.urls[n] = parts[k]
        BY <2>2, <2>3, <3>1 DEF CallOf, ListOf, parts
      <3>3. n <= Innermost.i
        BY <2>2, <2>3, LenProperties DEF PageFrame
      <3> QED BY <2>2, <3>1, <3>2, <3>3 DEF CallOf, AskedBy
    <2>13. {a[2] : a \in {b \in asked : b[1] = url /\ b[3] = Level}} =
             {CompleteUrl(parts[k], url) : k \in PartsOf(url)}
      <3>1. ASSUME NEW k \in PartsOf(url)
            PROVE  \E a \in asked : a[1] = url /\ a[3] = Level /\ a[2] = CompleteUrl(parts[k], url)
        BY <2>12
      <3> QED BY <2>11, <3>1
    <2> QED BY <2>9, <2>13
  <1> QED BY <1>1, <1>3, <1>4 DEF PartsAreAskedFor

(* Every call of http_recurse has the list url-extract.c makes of its page,   *)
(* has asked for what it went past and counts what was fetched since it was   *)
(* made.                                                                      *)
THEOREM PagesInvariant == PagesSpec => []PagesInv
  <1> QED BY PagesInitHolds, PagesNextKeeps, PTL DEF PagesSpec

(* http_recurse asks for every part of a page where it is, for nothing else,  *)
(* and counts what was fetched, whatever web, limit of URLs and depth.        *)
THEOREM PagesPartsAreAskedFor == PagesSpec => []PartsAreAskedFor
  <1> QED BY PagesInvariant, PagesInvGivesProperty, PTL
=============================================================================
