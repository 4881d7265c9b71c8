--------------------------- MODULE ChangelogPage ---------------------------
(***************************************************************************)
(* The changelog page: one page of entries, and a button for the next.     *)
(***************************************************************************)
EXTENDS ConsoleShell, FiniteSetsExt

\* A mutant of LoadMore: it goes on from the latest number.
LoadMore_Latest ==
    LET data == cache[changelogKey(tenant, view.sinceSeq)]
    IN  /\ page = "changelog" /\ data # NoData
        /\ Cardinality(data.entries) >= PageSize
        /\ Step
        /\ Show(page, tenant, [view EXCEPT !.sinceSeq = data.latest])

\* A full page has a button that goes on after its last entry.
LoadMore ==
    LET data == cache[changelogKey(tenant, view.sinceSeq)]
    IN  /\ page = "changelog" /\ data # NoData
        /\ Cardinality(data.entries) >= PageSize
        /\ Step
        /\ Show(page, tenant, [view EXCEPT !.sinceSeq = Max(data.entries)])

\* Since the tenant was selected, no entry was passed over: whatever pages
\* were cached, refetched or failed in between, everything between the
\* position at that time and the position now was on the screen.
ReadsOn ==
    page = "changelog" => \A n \in (view.base + 1)..view.sinceSeq : n \in view.seen
=============================================================================
