----------------------------- MODULE QueryCache -----------------------------
(***************************************************************************)
(* The query cache of the console (TanStack Query), as lib/hooks and       *)
(* components/providers.tsx use it.  A key has data or none and at most    *)
(* one request; an answer travels before it is taken in.  Times are        *)
(* nondeterministic: data that are looked at again may or may not be older *)
(* than staleTime.                                                         *)
(***************************************************************************)
EXTENDS Integers

CONSTANT NoData         \* no data for a key; as an answer, an error

VARIABLES
    cache,      \* the data of every key
    request,    \* the request of every key and its answer
    stale,      \* keys that were invalidated and not loaded since
    failed,     \* keys whose last request ended with an error
    overtaken   \* keys whose data, or answer, may be older than the last change

queries == <<cache, request, stale, failed, overtaken>>

Idle == [at |-> "idle", data |-> NoData]
Sent == [at |-> "sent", data |-> NoData]

\* A mutant of isLoading: pages have no loading state.
isLoading_Never(data, req) == FALSE

\* No data yet, and a request is under way.
isLoading(data, req) == data = NoData /\ req # Idle

\* The requests after the keys in fetched were asked for.
Ask(fetched) == [k \in DOMAIN request |-> IF k \in fetched THEN Sent ELSE request[k]]

\* What is fetched when the keys of the set new come on screen: what has no
\* data or was invalidated, and what is older than staleTime; a request
\* under way is shared.
Fetched(new, old) ==
    {k \in new : request[k] = Idle /\ (cache[k] = NoData \/ k \in stale \/ k \in old)}

Observe(new) ==
    \E old \in SUBSET {k \in new : cache[k] # NoData} :
        LET fetched == Fetched(new, old)
        IN  /\ request' = Ask(fetched)
            /\ overtaken' = overtaken \ fetched
            /\ failed' = failed \ {k \in fetched : cache[k] = NoData}
            /\ UNCHANGED <<cache, stale>>

\* The service answers; an error is answered with NoData.
Answer(k, data) ==
    /\ request[k].at = "sent"
    /\ request' = [request EXCEPT ![k] = [at |-> "answered", data |-> data]]
    /\ UNCHANGED <<cache, stale, failed, overtaken>>

\* A mutant of Receive: an error is retried without end.
Receive_Retries(k, new) ==
    /\ request[k].at = "answered"
    /\ IF request[k].data = NoData
       THEN request' = [request EXCEPT ![k] = Sent] /\ UNCHANGED <<cache, stale, failed>>
       ELSE /\ request' = [request EXCEPT ![k] = Idle]
            /\ cache' = [cache EXCEPT ![k] = request[k].data]
            /\ stale' = stale \ {k}
            /\ failed' = failed \ {k}
    /\ UNCHANGED overtaken

\* The answer arrives, and the keys of the set new come on screen with it.
\* An error leaves the data as they are.
Receive(k, new) ==
    \E old \in SUBSET {x \in new : cache[x] # NoData} :
        LET fetched == Fetched(new, old)
            ok == request[k].data # NoData
        IN  /\ request[k].at = "answered"
            /\ request' = [Ask(fetched) EXCEPT ![k] = Idle]
            /\ cache' = IF ok THEN [cache EXCEPT ![k] = request[k].data] ELSE cache
            /\ stale' = IF ok THEN stale \ {k} ELSE stale
            /\ failed' = (IF ok THEN failed \ {k} ELSE failed \cup {k})
                             \ {x \in fetched : cache[x] = NoData}
            /\ overtaken' = overtaken \ fetched

\* The request fails for good, after the retries that the client makes.
Fail(k) ==
    /\ request[k] # Idle
    /\ request' = [request EXCEPT ![k] = Idle]
    /\ failed' = failed \cup {k}
    /\ UNCHANGED <<cache, stale, overtaken>>

\* The browser is online again: keys on screen are fetched anew.
Reconnect(k) ==
    /\ request[k] = Idle
    /\ request' = [request EXCEPT ![k] = Sent]
    /\ overtaken' = overtaken \ {k}
    /\ failed' = IF cache[k] = NoData THEN failed \ {k} ELSE failed
    /\ UNCHANGED <<cache, stale>>

\* invalidateQueries: keys on screen are fetched again, and the answer of an
\* earlier request is not waited for, unless the key has no data yet: then
\* the request under way goes on.  Keys elsewhere become stale until the
\* next answer, also one that is on its way.  The keys in missed changed on
\* the service and are not told.
Invalidate(keys, missed, onScreen) ==
    LET again == {k \in keys \cap onScreen : request[k] = Idle \/ cache[k] # NoData}
    IN  /\ request' = [k \in DOMAIN request |-> IF k \in again THEN Sent ELSE request[k]]
        /\ overtaken' = (overtaken \cup missed \cup {k \in keys : request[k] # Idle}) \ again
        /\ stale' = stale \cup {k \in keys : cache[k] # NoData}
        /\ failed' = failed \ {k \in again : cache[k] = NoData}
        /\ UNCHANGED cache

\* Data that are not on screen are dropped after a while.
Evict(k) ==
    /\ request[k] = Idle /\ cache[k] # NoData
    /\ cache' = [cache EXCEPT ![k] = NoData]
    /\ stale' = stale \ {k}
    /\ failed' = failed \ {k}
    /\ UNCHANGED <<request, overtaken>>

\* The data known at the beginning; the other keys on the screen are being
\* fetched.
InitQueries(keys, known, onScreen) ==
    /\ cache = [k \in keys |-> IF k \in DOMAIN known THEN known[k] ELSE NoData]
    /\ request = [k \in keys |-> IF k \in onScreen \ DOMAIN known THEN Sent ELSE Idle]
    /\ stale = {} /\ failed = {} /\ overtaken = {}
=============================================================================
