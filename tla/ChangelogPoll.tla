---------------------------- MODULE ChangelogPoll ----------------------------
(***************************************************************************)
(* A reader that follows the changelog of one tenant of the PostgreSQL     *)
(* store through GET .../changelog (handleReadChangelog) while calls       *)
(* write.  A request is two statements: the page of entries after the      *)
(* reader's position, then the highest number of the tenant.  The reader   *)
(* goes on from the last entry it got ("entry", the loop of the docs'      *)
(* changelog page) or from the highest number ("latest", the advice of the *)
(* docs' API reference).                                                   *)
(***************************************************************************)
EXTENDS PostgresStore, FiniteSetsExt

CONSTANTS
    Followed,       \* the tenant whose changelog is read
    Position,       \* "entry" or "latest"
    PageSize,       \* the limit of a request
    MaxPolls        \* bound on the requests

ASSUME PollAssumption ==
    /\ Followed \in Tenants
    /\ Position \in {"entry", "latest"}
    /\ PageSize \in Nat \ {0}
    /\ MaxPolls \in Nat

VARIABLES
    cursor,         \* since_seq of the reader's next request
    polling,        \* a request is between its two statements
    page,           \* numbers of the entries its first statement read
    delivered,      \* numbers of the entries the reader got
    overtaken,      \* numbers that were not committed when a page passed them
    polls           \* requests begun

pollVars == <<cursor, polling, page, delivered, overtaken, polls>>
allVars  == <<vars, pollVars>>

\* The shape of the state, the store's included.
PollTypeOK ==
    /\ TypeOK
    /\ cursor \in Nat
    /\ polling \in BOOLEAN
    /\ page \in SUBSET Nat
    /\ delivered \in SUBSET Nat
    /\ overtaken \in SUBSET Nat
    /\ polls \in 0..MaxPolls

-----------------------------------------------------------------------------
Numbers == {e.seq : e \in changelog[Followed]}

\* A mutant of ReadChangelog: the page is not read in the order of numbers.
ReadChangelog_Unordered(since) ==
    LET after == {n \in Numbers : n > since}
    IN  {p \in SUBSET after : Cardinality(p) = Min({PageSize, Cardinality(after)})}

\* The pages ReadChangelog may return: the first entries after a number.
ReadChangelog(since) ==
    LET after == {n \in Numbers : n > since}
    IN  {p \in SUBSET after :
            /\ Cardinality(p) = Min({PageSize, Cardinality(after)})
            /\ \A n \in p, m \in after \ p : n < m}

LatestSequence == IF Numbers = {} THEN 0 ELSE Max(Numbers)

\* Numbers taken by transactions on the tenant that are still open.
OpenNumbers ==
    UNION {{e.seq : e \in call[s].entries} :
              s \in {r \in Sessions : Busy(r) /\ call[r].tenant = Followed}}

\* The first statement of a request.  A tenant that is deleted is refused.
ReadPage ==
    /\ ~polling
    /\ polling' = TRUE
    /\ polls < MaxPolls
    /\ ensureTenantReadable(Followed)
    /\ \E p \in ReadChangelog(cursor) :
          /\ page' = p
          /\ overtaken' = overtaken \cup
                {n \in OpenNumbers : \E m \in p : n < m}
    /\ polls' = polls + 1
    /\ UNCHANGED <<cursor, delivered>>

\* The second statement and the response.  The handler ignores an error of
\* LatestSequence, which leaves latest_sequence at zero.
Respond ==
    /\ polling
    /\ polling' = FALSE
    /\ delivered' = delivered \cup page
    /\ cursor' = CASE Position = "latest" ->
                        IF ensureTenantReadable(Followed) THEN LatestSequence ELSE 0
                   [] Position = "entry"  ->
                        IF page = {} THEN cursor ELSE Max(page)
    /\ page' = {}
    /\ UNCHANGED <<overtaken, polls>>

PollInit ==
    /\ Init
    /\ cursor = 0 /\ polling = FALSE /\ page = {} /\ delivered = {} /\ overtaken = {} /\ polls = 0

PollNext ==
    \/ Next /\ UNCHANGED pollVars
    \/ (ReadPage \/ Respond) /\ UNCHANGED vars

PollSpec ==
    /\ PollInit
    /\ [][PollNext]_allVars
    /\ \A s \in Sessions : WF_allVars(Proceed(s) /\ UNCHANGED pollVars)

-----------------------------------------------------------------------------
(* Properties.                                                             *)

Passed == {n \in Numbers : n <= cursor}

\* A reader that goes on from its last entry misses an entry only if its
\* transaction was open, with its number taken, when a page went past it:
\* numbers are taken in one order and committed in another.
MissesOnlyOvertaken == Passed \subseteq delivered \cup overtaken

\* The API reference on latest_sequence: use it as the position of the next
\* request.  A reader that does has got every entry it goes past.
MissesNothing == Passed \subseteq delivered
=============================================================================
