----------------------------- MODULE HttpScan ------------------------------
(***************************************************************************)
(* How the built-in example notices the end of a page: http_on_recv of     *)
(* src/src/http_task.cpp, called by read_cb for each chunk read.           *)
(*                                                                         *)
(* Of the bytes the peer sends only three things matter, and page says at  *)
(* which offsets they begin: "</html>", "</HTML>" and the blank line       *)
(* "\r\n\r\n".  strHtml is then the first total_len bytes of the page.     *)
(*                                                                         *)
(* The search is not a complete one ("This is an error, but we just do it,  *)
(* because it is only a test example"): it goes back over the last Window  *)
(* bytes only, and which ends it misses depends on how the page is cut.    *)
(*                                                                         *)
(* PageLen stays below 2^31, so that (int)offset keeps its sign.           *)
(***************************************************************************)
EXTENDS Integers

CONSTANTS
    PageLen,        \* bound: bytes the peer sends
    MaxChunk,       \* most bytes one read brings; read_buf admits 1024
    Window,         \* 40: how far back http_on_recv looks
    TagLen,         \* 7: length of "</html>"
    BlankLen        \* 4: length of "\r\n\r\n"

ASSUME ScanAssumption ==
    /\ PageLen \in Nat /\ MaxChunk \in Nat \ {0}
    /\ Window \in Nat /\ TagLen \in Nat \ {0} /\ BlankLen \in Nat \ {0}

VARIABLES
    page,           \* what the peer will send
    total_len,      \* bytes received so far
    task            \* "reading", "closed" by http_on_recv, or "dropped" by the peer

vars == <<page, total_len, task>>

Offset == 0 .. PageLen

\* A tag does not overlap another tag or a blank line.
Apart(p, plen, q, qlen) == p + plen <= q \/ q + qlen <= p

IsPage(pg) ==
    /\ \A p \in pg.lower, q \in pg.upper : Apart(p, TagLen, q, TagLen)
    /\ \A p \in pg.lower \cup pg.upper, q \in pg.blank : Apart(p, TagLen, q, BlankLen)

Page == {pg \in [lower : SUBSET Offset, upper : SUBSET Offset, blank : SUBSET Offset] :
             IsPage(pg)}

TypeOK ==
    /\ page \in Page
    /\ total_len \in 0 .. PageLen
    /\ task \in {"reading", "closed", "dropped"}

\* http_data() and the first do_read.
Init ==
    /\ page \in Page
    /\ total_len = 0
    /\ task = "reading"
----------------------------------------------------------------------------
\* offset is taken from the bytes before this chunk.
SlipFrom(n) == IF n < Window THEN 0 ELSE n - Window + 1

\* The offset the search starts at once n bytes are in.
From(n) == IF n - Window < 0 THEN 0 ELSE n - Window

\* What find may return: the places of a pattern that lie in from .. n.
In(places, len, from, n) == {p \in places : from <= p /\ p + len <= n}

\* The blank line is looked for from the start of the window.
SlipEndFound(n) ==
    /\ In(page.lower \cup page.upper, TagLen, From(n), n) # {}
    /\ In(page.blank, BlankLen, From(n), n) # {}

\* "</html>" is looked for first, "</HTML>" only if there is none, and the
\* blank line from the tag on.  find returns the first tag; a blank line after
\* any other tag is after the first one too.
EndFound(n) ==
    LET lower == In(page.lower, TagLen, From(n), n)
        tags  == IF lower # {} THEN lower ELSE In(page.upper, TagLen, From(n), n)
    IN  \E p \in tags : In(page.blank, BlankLen, p, n) # {}

\* The chunk is appended only after the search.
SlipOnRecv(n) ==
    /\ task = "reading"
    /\ total_len + n <= PageLen
    /\ total_len' = total_len + n
    /\ task' = IF EndFound(total_len) THEN "closed" ELSE "reading"
    /\ UNCHANGED page

\* read_cb with n bytes, then http_on_recv: do_close when the end is found.
on_recv(n) ==
    /\ task = "reading"
    /\ total_len + n <= PageLen
    /\ total_len' = total_len + n
    /\ task' = IF EndFound(total_len + n) THEN "closed" ELSE "reading"
    /\ UNCHANGED page

\* read_cb with an error or the end of the stream.
Dropped ==
    /\ task = "reading"
    /\ task' = "dropped"
    /\ UNCHANGED <<page, total_len>>

Next == (\E n \in 1 .. MaxChunk : on_recv(n)) \/ Dropped

Spec == Init /\ [][Next]_vars
----------------------------------------------------------------------------
\* The task is closed only when a tag and then a blank line have arrived, in
\* whatever chunks: http_on_recv never cuts a page off before its end.
NotCutShort ==
    task = "closed" =>
        \E p \in page.lower \cup page.upper, q \in page.blank :
            p + TagLen <= q /\ q + BlankLen <= total_len

\* A tag at p and a blank line at q end the page.  A "</html>" after the blank
\* line hides an end that a "</HTML>" makes.
EndsPage(p, q) ==
    /\ p \in page.lower \cup page.upper
    /\ q \in page.blank
    /\ p <= q
    /\ p \in page.lower \/ \A l \in page.lower : l <= q

\* The only ends a reading task has let pass are those whose tag was already
\* more than Window bytes back when the call that brought their last byte
\* searched: an end within the window is noticed however the page is cut into
\* chunks, even inside a tag or a blank line.  (A read brings up to 1024 bytes
\* and the window is 40, so an end is missed when it is searched for with more
\* than 29 bytes between its parts and after it: "This is an error".)
EndNoticed ==
    task = "reading" =>
        \A p, q \in Offset :
            EndsPage(p, q) /\ q + BlankLen <= total_len => p + Window < total_len

\* An end is noticed by the call that brings its last byte or by none: what
\* closes the task is a tag still in the window and a blank line that this
\* chunk completed.  A page whose only end was missed is read until the peer
\* ends the connection.
AtOnceOrNever ==
    [][task = "reading" /\ task' = "closed" =>
           \E p \in page.lower \cup page.upper, q \in page.blank :
               /\ p <= q /\ total_len' <= p + Window
               /\ total_len < q + BlankLen /\ q + BlankLen <= total_len']_vars
=============================================================================
