------------------------------ MODULE MCServices ------------------------------
(***************************************************************************)
(* Small instances, for TLC, of the services of the MCP server: the SQL    *)
(* sessions that its tools share, and the transport that hands requests    *)
(* over and answers back.  One of the two is followed in each behaviour,   *)
(* "which"; the other one stays as it is at first.                         *)
(***************************************************************************)
EXTENDS MCSqlSessions

CONSTANTS
    Ids, FrameKinds, Lengths, MessageSizes, MaxFrames,  \* what clients and the SDK send
    MaxRequests, MaxPayload,                            \* limits of the server
    ResponseBytes, ReserveBytes, ErrorBytes             \* the budget of one request

VARIABLES
    which,
    frames, eof, chunk, offset, pending, reader, writer, lock, registry, working, used, terminal, answer, up

ofTransport == <<frames, eof, chunk, offset, pending, reader, writer, lock, registry, working, used, terminal, answer, up>>
all == <<which, vars, ofTransport>>

Transport == INSTANCE McpTransport WITH
    Id <- Ids, Kinds <- FrameKinds, Sizes <- MessageSizes, MaxActive <- MaxRequests,
    Limit <- ResponseBytes, Reserve <- ReserveBytes, ErrorSize <- ErrorBytes

ASSUME TransportAssumption == Transport!TransportBounds /\ Transport!KindAssumption

ServicesInit == which \in {"sessions", "transport"} /\ Init /\ Transport!Init

\* A server that was shut down may stop.
Over == closed /\ at = "free"

ServicesNext ==
    \/ which = "sessions" /\ Next /\ UNCHANGED <<which, ofTransport>>
    \/ which = "transport" /\ Transport!Next /\ UNCHANGED <<which, vars>>
    \/ Over /\ UNCHANGED all

\* Fairness of both, each where it is followed.
ServicesFairness ==
    /\ WF_vars(which = "sessions" /\ Holder) /\ WF_vars(which = "sessions" /\ Tick)
    /\ \A h \in Handle : /\ WF_vars(which = "sessions" /\ Fire(h))
                         /\ SF_vars(which = "sessions" /\ Expire(h))
    /\ WF_ofTransport(which = "transport" /\ Transport!ReaderStep)
    /\ WF_ofTransport(which = "transport" /\ Transport!WriterStep)
    /\ WF_ofTransport(which = "transport" /\ Transport!Down)
    /\ \A n \in Transport!Frame :
        WF_ofTransport(which = "transport" /\ \E k \in MessageSizes : Transport!Respond(n, k))

ServicesSpec == ServicesInit /\ [][ServicesNext]_all /\ ServicesFairness

-----------------------------------------------------------------------------
(* The properties of the transport, as its module states them.             *)

\* McpTransport.RegistryIsFaithful
\* A request that the SDK works on, or whose message is being written, is found
\* under its id, whatever other requests used that id; and a registered id
\* belongs to such a request, so that no slot is lost.
RegistryIsFaithful == Transport!RegistryIsFaithful

\* McpTransport.ErrorFits, AnswersAreCharged, FrameLimitIsExact
\* Whatever was charged to a request that is still to be answered, the error
\* that may have to replace its response fits; what was written for a frame was
\* charged to its own budget, once, and the SDK works on no frame that the
\* transport has answered; and a frame is refused for its size exactly when it
\* is above the limit, in whatever pieces its bytes arrive.
AnswersAreWithinLimits == Transport!ErrorFits /\ Transport!AnswersAreCharged /\ Transport!FrameLimitIsExact

\* McpTransport.RequestsAreAnswered
\* Every request is answered once the SDK has answered it, and every refused
\* one by the transport, unless the connection ends; only one that reuses an
\* id which is active is not.
RequestsAreAnswered == Transport!RequestsAreAnswered
===============================================================================
