------------------------------ MODULE KcnGoogle -------------------------------
(***************************************************************************)
(* The search of lib/kcn_google.c: the URIs it asks for, and what it takes *)
(* of the pages it is given.  The service is external: it returns the      *)
(* locators from "start" on, as many as "rsz" says, to the URI it gets.    *)
(***************************************************************************)
EXTENDS KcnUri, KcnInfo

CONSTANTS
    RCOUNTMAX, \* KCN_GOOGLE_API_RCOUNTMAX
    NLOCMAX    \* the locators one may ask for

(* Mutant of the next: the limit itself is allowed.                        *)
rcountmaxAtLimit(ki) ==
    IF ki.maxnlocs <= RCOUNTMAX THEN ki.maxnlocs ELSE RCOUNTMAX - 1

(* As many locators to a page as are wanted, below the limit.              *)
rcountmax(ki) ==
    IF ki.maxnlocs < RCOUNTMAX THEN ki.maxnlocs ELSE RCOUNTMAX - 1

(* A number is one cell of a URI.                                          *)
Digits(n) == ToString(n)
Number(n) == <<Digits(n)>>

(* Digits are not encoded, and those of different numbers differ.          *)
ASSUME DigitsAssumption ==
    /\ NLOCMAX \in Nat
    /\ \A k \in 0..NLOCMAX :
          /\ Digits(k) \in Char /\ kcn_uri_str_isnormal(Digits(k))
          /\ Number(k) # NULL
          /\ \A other \in 0..NLOCMAX : Digits(other) = Digits(k) => other = k

(* The part of the URI that all pages share.                               *)
kcn_google_uri(ki, keys) ==
    LET rsz == kcn_uri_param_puts(kcn_uri_new(<<"base">>), "rsz",
                                  Number(rcountmax(ki)))
        gl == kcn_uri_param_puts(rsz, "gl", ki.country)
        userip == kcn_uri_param_puts(gl, "userip", ki.userip)
    IN  kcn_uri_param_puts(userip, "q", keys)

(* The URI of the page from the locator n on.                              *)
kcn_google_page_uri(ku, n) ==
    IF n = 0 THEN ku ELSE kcn_uri_param_puts(ku, "start", Number(n))

-----------------------------------------------------------------------------
(* The service: the parameters of a URI.                                   *)

Params(uri) ==
    LET at == {k \in DOMAIN uri : uri[k] = "&"}
        end(k) == CHOOSE e \in k..Len(uri) :
                     /\ e = Len(uri) \/ uri[e + 1] = "&"
                     /\ \A j \in k + 1..e : uri[j] # "&"
    IN  {[at |-> k, name |-> SubSeq(uri, k + 1, k + 1),
          val |-> SubSeq(uri, k + 3, end(k))] : k \in at}

Given(uri, name) == {p \in Params(uri) : p.name = <<name>>}

(* The value of a number that is given, the first time.                    *)
ValueOr(uri, name, other) ==
    LET given == Given(uri, name)
        first == CHOOSE p \in given : \A q \in given : p.at <= q.at
    IN  IF given = {} THEN other
        ELSE CHOOSE n \in 0..NLOCMAX : Number(n) = first.val

Page(uri, found) ==
    LET start == ValueOr(uri, "start", 0)
    IN  FirstOf(SubSeq(found, start + 1, Len(found)), ValueOr(uri, "rsz", RCOUNTMAX))

(* kcn_http_response_get and what kcn_google_search_one makes of it: a     *)
(* page, or how it failed - in libcurl, by the status in the response, or  *)
(* because it cannot be parsed - after some locators had been taken.       *)
PageError == {"ENOMEM", "ETIMEDOUT", "ENETDOWN", "EAGAIN", "EINVAL"}

(* Mutant of the next: all of a page is taken.                             *)
TakenAll(ki, page) == page

(* The locators of a page that are added, up to the maximum.               *)
Taken(ki, page) == FirstOf(page, ki.maxnlocs - kcn_info_nlocs(ki))
=============================================================================
