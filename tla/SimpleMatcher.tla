------------------------------ MODULE SimpleMatcher ------------------------------
(***************************************************************************)
(* Matching of posted receives with received headers                       *)
(* (src/matchers/simplematcher.cc). Envelopes carry an epoch, a context, a *)
(* source and a tag; every message that arrives is addressed to this       *)
(* process, so that destinations agree.                                    *)
(***************************************************************************)
EXTENDS Naturals, Sequences, SequencesExt

CONSTANTS
    AnySource,      \* MPI_ANY_SOURCE
    AnyTag          \* MPI_ANY_TAG

AnySender(envelope, header) ==         \* does not compare the sources
    /\ envelope.epoch = header.epoch
    /\ envelope.context = header.context
    /\ envelope.tag \in {header.tag, AnyTag}

\* The condition under which a receive's envelope takes a header.
Matches(envelope, header) ==
    /\ envelope.epoch = header.epoch
    /\ envelope.context = header.context
    /\ envelope.source \in {header.source, AnySource}
    /\ envelope.tag \in {header.tag, AnyTag}

\* The positions <<receive, header>> at which a receive can take a header.
OnlyFirstReceive(envelopes, headers) ==    \* gives up with the first receive
    {pair \in {1} \X (DOMAIN headers) :
        envelopes # <<>> /\ Matches(envelopes[pair[1]], headers[pair[2]])}
MatchingPairs(envelopes, headers) ==
    {pair \in (DOMAIN envelopes) \X (DOMAIN headers) :
        Matches(envelopes[pair[1]], headers[pair[2]])}

\* progress() tries the receives in the order of posting, each with the headers in
\* the order of arrival.
NewestFirst(p, q) == p[1] < q[1] \/ (p[1] = q[1] /\ p[2] >= q[2])
Before(p, q) == p[1] < q[1] \/ (p[1] = q[1] /\ p[2] <= q[2])
FirstMatch(envelopes, headers) ==
    LET pairs == MatchingPairs(envelopes, headers)
    IN  CHOOSE p \in pairs : \A q \in pairs : Before(p, q)
================================================================================
