------------------------------- MODULE MCHttp -------------------------------
(* Constants for model-checking Http, two hosts, one of them on two ports;   *)
(* and PageParts, two hosts with a page and an image each, pages with up to  *)
(* three parts of which two are looked at, that may redirect to the other    *)
(* host.  They share no state: a behaviour is one of the two, the other's    *)
(* variables keep their values.                                              *)
EXTENDS Http, PageParts

CONSTANTS
    h1, h2,
    Parts       \* which of "http" and "pages" are checked

-----------------------------------------------------------------------------
Ports == {[host |-> h1, port |-> 80], [host |-> h1, port |-> 8080]}
Servers == Ports \cup {[host |-> h2, port |-> 80]}
ThreeCodes == {200, 302, 404}
FourCodes == {200, 301, 302, 404}
ThreeFds == 1 .. 3

-----------------------------------------------------------------------------
VARIABLE part

TwoHosts == {h1, h2}
Files == {"page", "pict", "pic"}
PictBeginsWithPic == {<<"pict", "pic">>}
Index == [host |-> h1, file |-> "page"]

Part(is, h, f) == [is |-> is, host |-> h, file |-> f]
SomeSrc ==
    {Part("relative", h1, "pic"), Part("relative", h1, "pict"), Part("url", h2, "page"),
     Part("relative", h1, "page"), Part("other", h1, "pic")}
SomeParts == UNION {[1 .. n -> SomeSrc] : n \in 0 .. 3}

Answered(resolved, moved, ok, html, body, parts) ==
    [resolved |-> resolved, moved |-> moved, ok |-> ok, html |-> html, body |-> body,
     parts |-> parts]

Elsewhere == [host |-> h2, file |-> "page"]

\* h1's page: with any parts, not there, without a body, or moved to h2's.
IndexAnswers ==
    {Answered(TRUE, Index, TRUE, TRUE, TRUE, p) : p \in SomeParts}
        \cup {Answered(TRUE, Index, ok, TRUE, ~ok, <<>>) : ok \in BOOLEAN}
        \cup {Answered(TRUE, Elsewhere, TRUE, TRUE, TRUE, <<>>)}

\* h2's page: with some parts, a picture, not there, not resolved, without a
\* body, or moved to h1's.
ElsewhereAnswers ==
    {Answered(r, Elsewhere, ok, html, TRUE, p) :
        r \in BOOLEAN, ok \in BOOLEAN, html \in BOOLEAN,
        p \in {<<>>, <<Part("url", h1, "page")>>,
               <<Part("relative", h1, "pic"), Part("url", h2, "page")>>,
               <<Part("relative", h1, "page"), Part("relative", h1, "page")>>}}
        \cup {Answered(TRUE, Elsewhere, TRUE, TRUE, FALSE, <<>>),
              Answered(TRUE, Index, TRUE, TRUE, TRUE, <<>>)}

\* The pictures are there or not.  No redirect leads to another one.
SomeWebs ==
    {w \in {[u \in [host : TwoHosts, file : Files] |->
                IF u = Index THEN a ELSE IF u.file = "page" THEN b
                ELSE Answered(TRUE, u, ok, FALSE, TRUE, <<>>)] :
              a \in IndexAnswers, b \in ElsewhereAnswers, ok \in BOOLEAN} :
        \A u \in DOMAIN w : w[w[u].moved].moved = w[u].moved}
OneWeb == CHOOSE w \in SomeWebs : TRUE

-----------------------------------------------------------------------------
OneInit ==
    /\ part \in Parts
    /\ Init /\ PagesInit
    /\ part = "http" => web = OneWeb

\* The call has returned, the page is done with.
Over ==
    /\ \/ part = "http" /\ outcome # NoOutcome /\ calls = <<>>
       \/ part = "pages" /\ pc = "done"
    /\ UNCHANGED <<part, vars, pagesVars>>

OneNext ==
    \/ part = "http" /\ Next /\ UNCHANGED <<part, pagesVars>>
    \/ part = "pages" /\ PagesNext /\ UNCHANGED <<part, vars>>
    \/ Over

OneSpec == OneInit /\ [][OneNext]_<<part, vars, pagesVars>>

FairOneSpec ==
    /\ OneSpec
    /\ WF_vars(part = "http" /\ ProbeStep)
    /\ WF_pagesVars(part = "pages" /\ PagesNext)

-----------------------------------------------------------------------------
(* A property of both; the others hold whatever is checked.                  *)

\* A call returns, however it is redirected and whatever fails; pages that are
\* parts of each other do not keep http_recurse for ever.
CallsEnd ==
    ((part = "http" /\ calls # <<>>) \/ (part = "pages" /\ pc # "done"))
        ~> (part = "http" => calls = <<>>) /\ (part = "pages" => pc = "done")
=============================================================================
