----------------------------- MODULE PageParts -----------------------------
(***************************************************************************)
(* http_recurse (net-modules/http-recurse.c) fetches the parts of a page,  *)
(* and the parts of those that are pages, to a depth; the parts are found  *)
(* by url-extract.c.                                                       *)
(*                                                                         *)
(* A URL is a record of its host and the rest.  A web is a record of       *)
(* functions: what every URL is answered with.                             *)
(***************************************************************************)
EXTENDS Integers, Sequences

CONSTANTS
    Host, File,     \* hosts, and what comes after them in a URL
    Prefix,         \* pairs of files of which the first begins with the second
    Webs,           \* the webs that are visited
    FirstUrl,          \* the URL of the task
    MaxTotalUrls,   \* MAX_TOTAL_URLS, and MAX_URLS_PER_LINE
    MaxRecursion    \* the option max-page-recursion

Url == [host : Host, file : File]

\* A src attribute: a whole URL, or a file of the same host; or a whole URL that
\* does not begin with http.
Src == [is : {"url", "relative", "other"}, host : Host, file : File]

\* What is answered to a request of a URL: whether its host is resolved, where
\* redirects lead, the last answer's status and type, and its body's parts.
Web == [Url -> [resolved : BOOLEAN, moved : Url, ok : BOOLEAN, html : BOOLEAN,
                body : BOOLEAN, parts : Seq(Src)]]

ASSUME PagePartsAssumption ==
    /\ Prefix \subseteq File \X File
    /\ \A f, g, h \in File : <<f, g>> \in Prefix /\ <<g, h>> \in Prefix => <<f, h>> \in Prefix
    /\ Webs \subseteq Web /\ FirstUrl \in Url
    /\ MaxTotalUrls \in Nat \ {0} /\ MaxRecursion \in Nat

VARIABLES
    web,        \* what is out there
    stack,      \* the calls of http_recurse, the innermost last
    result,     \* what the last call returned, or -1
    pc,         \* what is being done
    asked,      \* history: the requests, with the depth they are made at
    fetched     \* history: how many of them were answered with 200

pagesVars == <<web, stack, result, pc, asked, fetched>>
history == <<asked, fetched>>

\* What a call has: its page's URL, how deep it may still go, the list of URLs
\* with the number of matches, where in it the call is and what it has counted;
\* and, history, the value of fetched when it was made.
PageFrame == [url : Url, depth : 0 .. MaxRecursion, urls : Seq(Src), total : Nat, i : Nat,
          components : Nat, before : Nat]

\* do_http_task has made its request of the URL.
PagesInit ==
    /\ web \in Webs
    /\ stack = <<[url |-> FirstUrl, depth |-> MaxRecursion, urls |-> <<>>, total |-> 0, i |-> 0,
                  components |-> 0, before |-> 0]>>
    /\ result = -1 /\ pc = "http_recurse"
    /\ asked = {} /\ fetched = 0

-----------------------------------------------------------------------------
(* url-extract.c                                                           *)

\* url_cut: the first matches.
Cut(parts) == IF Len(parts) <= MaxTotalUrls THEN parts ELSE SubSeq(parts, 1, MaxTotalUrls)

\* append_match compares as many characters as the new match has: one that an
\* earlier match begins with is not added.
BeginsWith(long, short) ==
    /\ long.is = short.is /\ (long.is # "relative" => long.host = short.host)
    /\ long.file = short.file \/ <<long.file, short.file>> \in Prefix

Known(list, src) == \E k \in DOMAIN list : BeginsWith(list[k], src)

AppendMatch(list, src) == IF Known(list, src) THEN list ELSE Append(list, src)

\* Mutant: a relative URL is one of the page's host by name only.
CompleteUrlOfFirst(src, base) ==
    [host |-> IF src.is = "relative" THEN FirstUrl.host ELSE src.host, file |-> src.file]

\* complete_url, with get_domain and get_path of the page's URL.
CompleteUrl(src, base) ==
    [host |-> IF src.is = "relative" THEN base.host ELSE src.host, file |-> src.file]

-----------------------------------------------------------------------------
(* http_recurse.                                                           *)

Level == Len(stack)
Innermost == stack[Level]
Page == web[web[Innermost.url].moved]     \* req, after its redirects
SetInnermost(frame) == stack' = [stack EXCEPT ![Level] = frame]

\* The caller adds what is returned.
ReturnComponents(n) ==
    \/ /\ Level = 1
       /\ stack' = <<>> /\ result' = n /\ pc' = "done"
    \/ /\ Level > 1
       /\ stack' = [SubSeq(stack, 1, Level - 1) EXCEPT ![Level - 1].components = @ + n]
       /\ pc' = "sub" /\ UNCHANGED result

\* Only the task's own request comes here with another status than 200.
NotFound ==
    /\ pc = "http_recurse" /\ ~Page.ok
    /\ ReturnComponents(0) /\ UNCHANGED <<web, history>>

IsLeaf == ~(Page.html /\ Innermost.depth # 0)

Leaf ==
    /\ pc = "http_recurse" /\ Page.ok /\ IsLeaf
    /\ ReturnComponents(1) /\ UNCHANGED <<web, history>>

NullBody ==
    /\ pc = "http_recurse" /\ Page.ok /\ ~IsLeaf /\ ~Page.body
    /\ ReturnComponents(0) /\ UNCHANGED <<web, history>>

\* extract_urls, until url_cut has found the matches.
Extract ==
    /\ pc = "http_recurse" /\ Page.ok /\ ~IsLeaf /\ Page.body
    /\ pc' = "regex_iterate"
    /\ UNCHANGED <<web, stack, result, history>>

Matches == Cut(Page.parts)

\* regex_iterate counts every match, whether append_match adds it or not; the
\* entries behind the last that was added are NULL.
EachMatch ==
    /\ pc = "regex_iterate" /\ Innermost.total < Len(Matches)
    /\ SetInnermost([Innermost EXCEPT
            !.urls = AppendMatch(@, Matches[Innermost.total + 1]), !.total = @ + 1])
    /\ UNCHANGED <<web, result, pc, history>>

NoMoreMatches ==
    /\ pc = "regex_iterate" /\ Innermost.total = Len(Matches)
    /\ pc' = "sub"
    /\ UNCHANGED <<web, stack, result, history>>

\* The next of the URLs.
ThisSrc == Innermost.urls[Innermost.i + 1]
ThisUrl == CompleteUrl(ThisSrc, Innermost.url)
Advanced(frame) == [frame EXCEPT !.i = @ + 1]

More == pc = "sub" /\ Innermost.i < Innermost.total

\* Mutant: the same one again.
SkipAgain ==
    /\ More
    /\ IF Innermost.i < Len(Innermost.urls) THEN ThisSrc.is = "other" ELSE TRUE
    /\ UNCHANGED pagesVars

\* url2http returns NULL for what is NULL and for what is no http.
Skip ==
    /\ More
    /\ IF Innermost.i < Len(Innermost.urls) THEN ThisSrc.is = "other" ELSE TRUE
    /\ SetInnermost(Advanced(Innermost))
    /\ UNCHANGED <<web, result, pc, history>>

HasRequest == More /\ Innermost.i < Len(Innermost.urls) /\ ThisSrc.is # "other"

Unresolved ==
    /\ HasRequest /\ ~web[ThisUrl].resolved
    /\ SetInnermost(Advanced(Innermost))
    /\ UNCHANGED <<web, result, pc, history>>

Request == asked' = asked \cup {<<Innermost.url, ThisUrl, Level>>}

GetFails ==
    /\ HasRequest /\ web[ThisUrl].resolved /\ ~web[web[ThisUrl].moved].ok
    /\ SetInnermost(Advanced(Innermost)) /\ Request
    /\ UNCHANGED <<web, result, pc, fetched>>

\* http_get returned 0.
Recurse ==
    /\ HasRequest /\ web[ThisUrl].resolved /\ web[web[ThisUrl].moved].ok
    /\ stack' = Append([stack EXCEPT ![Level] = Advanced(@)],
                       [url |-> ThisUrl, depth |-> Innermost.depth - 1, urls |-> <<>>,
                        total |-> 0, i |-> 0, components |-> 0, before |-> fetched + 1])
    /\ Request /\ fetched' = fetched + 1
    /\ pc' = "http_recurse"
    /\ UNCHANGED <<web, result>>

AllSeen ==
    /\ pc = "sub" /\ Innermost.i >= Innermost.total
    /\ ReturnComponents(1 + Innermost.components) /\ UNCHANGED <<web, history>>

PagesNext ==
    \/ NotFound \/ Leaf \/ NullBody \/ Extract \/ EachMatch \/ NoMoreMatches
    \/ Skip \/ Unresolved \/ GetFails \/ Recurse \/ AllSeen

PagesSpec == PagesInit /\ [][PagesNext]_pagesVars
FairPagesSpec == PagesSpec /\ WF_pagesVars(PagesNext)

-----------------------------------------------------------------------------
(* Properties.                                                             *)

\* Every variable is in its domain; below the depth no page is opened, and the
\* list of URLs is not longer than its array.
PagePartsTypeOK ==
    /\ \A k \in DOMAIN stack :
         /\ stack[k].url \in Url /\ stack[k].depth \in 0 .. MaxRecursion
         /\ \A n \in DOMAIN stack[k].urls : stack[k].urls[n] \in Src
         /\ Len(stack[k].urls) <= stack[k].total /\ stack[k].total <= MaxTotalUrls
         /\ stack[k].i \in 0 .. stack[k].total
    /\ Level <= MaxRecursion + 1
    /\ result \in Int /\ pc \in {"http_recurse", "regex_iterate", "sub", "done"}

\* Pages that are parts of each other or of themselves do not keep http_recurse
\* busy for ever.
RecursionEnds == <>(pc = "done")

\* The components are what was fetched: the page, and every request of a part
\* that was answered with 200, unless the answer was a page without a body.
ComponentsWereFetched ==
    pc = "done" =>
        LET start == web[web[FirstUrl].moved]
            opened == start.ok /\ (start.html /\ MaxRecursion # 0 => start.body)
        IN  (\A u \in Url : web[u].body) => result = (IF opened THEN 1 + fetched ELSE 0)

\* Every part of a page is asked for, on its own host or on the one it names, and
\* nothing else is: what is left out is not resolved, no http, beyond the limit,
\* or the beginning of another one's URL.
PartsOf(url) ==
    LET parts == Cut(web[web[url].moved].parts)
    IN  {k \in DOMAIN parts :
            /\ parts[k].is # "other"
            /\ web[CompleteUrl(parts[k], url)].resolved
            /\ ~\E j \in 1 .. k - 1 : BeginsWith(parts[j], parts[k])}

EveryPartAskedFor ==
    pc = "sub" /\ Innermost.i = Innermost.total =>
        {a[2] : a \in {b \in asked : b[1] = Innermost.url /\ b[3] = Level}} =
            {LET src == web[web[Innermost.url].moved].parts[k]
             IN  [host |-> IF src.is = "url" THEN src.host ELSE Innermost.url.host,
                  file |-> src.file] : k \in PartsOf(Innermost.url)}

\* The three: every part of a page is asked for where it is, nothing else is, and
\* what was fetched is counted, page in page to the depth (http_recurse).
PartsAreAskedFor == PagePartsTypeOK /\ EveryPartAskedFor /\ ComponentsWereFetched

-----------------------------------------------------------------------------
(* What the documents say, and the code does not do.                       *)

\* "add no duplicates" (url-extract.c:190): a URL that is no duplicate is added.
OnlyDuplicatesLeftOut ==
    pc = "sub" =>
        \A k \in DOMAIN Matches :
            \E n \in DOMAIN Innermost.urls : Innermost.urls[n] = Matches[k]

\* "base_url = the base url, used to generate complete urls for lines like
\* '<img src="../top.jpg">'" (url-extract.c:33): a page that was fetched from
\* another URL than the one asked for has its parts there.
PartsOfTheRedirectedPage ==
    \A a \in asked : \E k \in DOMAIN web[web[a[1]].moved].parts :
        CompleteUrl(web[web[a[1]].moved].parts[k], web[a[1]].moved) = a[2]

=============================================================================
