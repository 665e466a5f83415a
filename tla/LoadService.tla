---------------------------- MODULE LoadService ----------------------------
(***************************************************************************)
(* What an image loader promises its callers, independent of caching,      *)
(* preloading and threads: requests are numbered; a new request drops the  *)
(* one that is waiting; only a waiting request can be answered; answers    *)
(* are delivered once each, in the order in which they were given.         *)
(* ImagePreloader implements it.                                           *)
(***************************************************************************)
EXTENDS Naturals, Sequences

CONSTANT MaxRequests    \* bound: requests in a behaviour, a natural number

VARIABLES
    latest,     \* the number of requests so far
    waiting,    \* the request that may still be answered, 0 if none
    queue,      \* answered, not yet delivered
    delivered   \* delivered, in order

svars == <<latest, waiting, queue, delivered>>

ServiceInit ==
    /\ latest = 0
    /\ waiting = 0
    /\ queue = <<>>
    /\ delivered = <<>>

\* A request displaces the waiting one.  It may be answered at once, or refused.
Ask ==
    /\ latest < MaxRequests
    /\ latest' = latest + 1
    /\ \/ /\ waiting' = latest + 1
          /\ UNCHANGED queue
       \/ /\ waiting' = 0
          /\ queue' \in {queue, Append(queue, latest + 1)}
    /\ UNCHANGED delivered

Answer ==
    /\ waiting # 0
    /\ queue' = Append(queue, waiting)
    /\ waiting' = 0
    /\ UNCHANGED <<latest, delivered>>

\* The waiting request fails or is cancelled, without an answer.
Refuse ==
    /\ waiting # 0
    /\ waiting' = 0
    /\ UNCHANGED <<latest, queue, delivered>>

DeliverNext ==
    /\ queue # <<>>
    /\ delivered' = Append(delivered, Head(queue))
    /\ queue' = Tail(queue)
    /\ UNCHANGED <<latest, waiting>>

ServiceNext == Ask \/ Answer \/ Refuse \/ DeliverNext

\* The order of the answers, whatever happens when.
ServiceSafety == ServiceInit /\ [][ServiceNext]_svars

\* An answer that was given is delivered, and a waiting request does not wait for
\* ever: it is answered, refused or displaced.
ServiceSpec ==
    /\ ServiceSafety
    /\ WF_svars(DeliverNext)
    /\ WF_svars(Answer \/ Refuse)
=============================================================================
