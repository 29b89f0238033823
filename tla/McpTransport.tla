---------------------------- MODULE McpTransport ----------------------------
(***************************************************************************)
(* bounded_stdio_server: a task that reads newline-framed JSON-RPC from    *)
(* stdin, a task that writes to stdout, and between them the MCP SDK,      *)
(* which is external.  Requests are numbered in the order they arrive; a   *)
(* number stands for the request and for its work budget, while messages   *)
(* carry only the JSON-RPC id that the client chose.                       *)
(***************************************************************************)
EXTENDS Naturals, Sequences, FiniteSets, FiniteSetsExt

CONSTANTS
    Id,             \* JSON-RPC ids
    Kinds,          \* of frames: see Kind below
    Lengths,        \* of frames, the newline included
    Sizes,          \* of the messages the SDK hands over
    MaxFrames,      \* bound: frames a client sends
    MaxActive,      \* max_active_requests
    MaxPayload,     \* max_payload_bytes
    Limit,          \* transport_response_bytes
    Reserve,        \* MIN_TRANSPORT_RESPONSE_BYTES
    ErrorSize       \* of the fixed errors the transport writes itself

TransportBounds ==
    /\ MaxFrames \in Nat /\ MaxActive \in Nat \ {0} /\ MaxPayload \in Nat \ {0}
    /\ Lengths \subseteq Nat \ {0} /\ Sizes \subseteq Nat
    /\ Reserve \in Nat /\ Limit \in Nat /\ Reserve <= Limit
    /\ ErrorSize \in 1..Reserve

\* A request or notification the SDK's types accept; a frame they do not accept
\* and that is answered, with its id or null; a notification they do not accept;
\* anything else: broken JSON, too deep, too large a scalar, an unusable id.
Kind == {"request", "notification", "malformed", "unfit", "garbage"}
KindAssumption == Kinds \subseteq Kind

Frame == 1..MaxFrames

VARIABLES
    frames,     \* what the client has written to stdin
    eof,        \* it has closed it
    chunk,      \* bytes read and not yet looked at
    offset,     \* bytes of the frame under way that were looked at
    pending,    \* bytes of it that are kept
    reader,     \* stdin_reader: its step, its frame and the reply it makes
    writer,     \* stdout_writer: its step, its request and its message
    lock,       \* output_lock
    registry,   \* _budgets: the active request with each id, or 0
    working,    \* requests in the hands of the SDK
    used,       \* bytes charged to each request: _transport_response_bytes
    terminal,   \* of these, _terminal_error_bytes
    answer,     \* how each frame was dealt with
    up          \* FALSE once the server has gone down

input == <<frames, eof, chunk, offset, pending>>
budgets == <<used, terminal>>
vars == <<input, reader, writer, lock, registry, working, budgets, answer, up>>

Answers == {"none", "dropped", "invalid", "capacity", "overflow", "result"}
IdleReader == [step |-> "read", n |-> 1, reply |-> "none"]
IdleWriter == [step |-> "idle", n |-> 0, what |-> "none", size |-> 0]
Active == {i \in Id : registry[i] # 0}
Length(n) == frames[n].length

\* What the client has written so far, and where a frame starts, in bytes.
Written == IF frames = <<>> THEN 0 ELSE frames[Len(frames)].start + Length(Len(frames))
Start(n) == IF n \in DOMAIN frames THEN frames[n].start ELSE Written

TypeOK ==
    /\ frames \in Seq([id : Id, kind : Kinds, length : Lengths, start : Nat]) /\ Len(frames) <= MaxFrames
    /\ eof \in BOOLEAN /\ up \in BOOLEAN
    /\ chunk \in 0..(MaxPayload + 1)
    /\ offset \in Nat /\ pending \in 0..MaxPayload
    /\ reader \in [step : {"read", "parse", "send", "reply", "write", "ended"},
                   n : 1..(MaxFrames + 1), reply : Answers]
    /\ writer \in [step : {"idle", "lock", "write", "complete"}, n : Frame \cup {0},
                   what : {"none", "response", "notification", "overflow"}, size : Nat]
    /\ lock \in {"free", "reader", "writer"}
    /\ registry \in [Id -> Frame \cup {0}] /\ working \subseteq Frame
    /\ used \in [Frame -> 0..Limit] /\ terminal \in [Frame -> 0..Reserve]
    /\ answer \in [Frame -> Answers]

Init ==
    /\ frames = <<>> /\ eof = FALSE /\ chunk = 0 /\ offset = 0 /\ pending = 0
    /\ reader = IdleReader /\ writer = IdleWriter /\ lock = "free"
    /\ registry = [i \in Id |-> 0] /\ working = {}
    /\ used = [n \in Frame |-> 0] /\ terminal = [n \in Frame |-> 0]
    /\ answer = [n \in Frame |-> "none"]
    /\ up = TRUE

-----------------------------------------------------------------------------
(* The client.                                                             *)

Send(i, k, len) ==
    /\ up /\ ~eof /\ Len(frames) < MaxFrames
    /\ frames' = Append(frames, [id |-> i, kind |-> k, length |-> len, start |-> Written])
    /\ UNCHANGED <<eof, chunk, offset, pending, reader, writer, lock, registry,
                   working, budgets, answer, up>>

Close ==
    /\ up /\ ~eof
    /\ eof' = TRUE
    /\ UNCHANGED <<frames, chunk, offset, pending, reader, writer, lock, registry,
                   working, budgets, answer, up>>

-----------------------------------------------------------------------------
(* stdin_reader and _bounded_raw_payloads.  The reader asks for one byte   *)
(* more than a payload may have and gets what there is.                    *)

Unread == Written - (Start(reader.n) + offset)

Reading == up /\ reader.step = "read"

ReadChunk ==
    /\ Reading /\ chunk = 0
    /\ \E n \in 1..Min({Unread, MaxPayload + 1}) : chunk' = n
    /\ UNCHANGED <<frames, eof, offset, pending, reader, writer, lock, registry,
                   working, budgets, answer, up>>

EndOfInput ==
    /\ Reading /\ chunk = 0 /\ eof /\ Unread = 0
    /\ reader' = [reader EXCEPT !.step = "ended"]
    /\ UNCHANGED <<input, writer, lock, registry, working, budgets, answer, up>>

\* The part of the chunk up to the newline, or all of it.
Piece == Min({chunk, Length(reader.n) - offset})
Newline == Piece = Length(reader.n) - offset

\* Mutant: the bytes kept from earlier chunks are not counted.
TooLongPiece == Piece > MaxPayload

TooLong == pending + Piece > MaxPayload

Keep ==
    /\ Reading /\ chunk # 0 /\ ~Newline /\ ~TooLong
    /\ chunk' = chunk - Piece /\ offset' = offset + Piece /\ pending' = pending + Piece
    /\ UNCHANGED <<frames, eof, reader, writer, lock, registry, working, budgets, answer, up>>

\* An oversized payload is reported to the SDK, and nothing is read after it.
Oversized ==
    /\ Reading /\ chunk # 0 /\ TooLong
    /\ pending' = 0
    /\ reader' = [reader EXCEPT !.step = "ended"]
    /\ answer' = [answer EXCEPT ![reader.n] = "dropped"]
    /\ UNCHANGED <<frames, eof, chunk, offset, writer, lock, registry, working, budgets, up>>

Yield ==
    /\ Reading /\ chunk # 0 /\ Newline /\ ~TooLong
    /\ chunk' = chunk - Piece /\ offset' = 0 /\ pending' = 0
    /\ reader' = [reader EXCEPT !.step = "parse"]
    /\ UNCHANGED <<frames, eof, writer, lock, registry, working, budgets, answer, up>>

-----------------------------------------------------------------------------
(* _bounded_session_message and register_incoming_request.                 *)

Parsing(kind) == up /\ reader.step = "parse" /\ frames[reader.n].kind = kind
NextFrame == [step |-> "read", n |-> reader.n + 1, reply |-> "none"]
Own == frames[reader.n].id

\* The id is in use: the SDK is told, the client is not.
Duplicate == registry[Own] # 0
Full == Cardinality(Active) >= MaxActive

\* Mutant: the later request takes the id over.
RegisterAnyway ==
    /\ Parsing("request") /\ (Duplicate \/ ~Full)
    /\ registry' = [registry EXCEPT ![Own] = reader.n]
    /\ reader' = [reader EXCEPT !.step = "send"]
    /\ UNCHANGED <<input, writer, lock, working, budgets, answer, up>>

Register ==
    /\ Parsing("request") /\ ~Duplicate /\ ~Full
    /\ registry' = [registry EXCEPT ![Own] = reader.n]
    /\ reader' = [reader EXCEPT !.step = "send"]
    /\ UNCHANGED <<input, writer, lock, working, budgets, answer, up>>

Pass ==
    /\ Parsing("notification")
    /\ reader' = [reader EXCEPT !.step = "send"]
    /\ UNCHANGED <<input, writer, lock, registry, working, budgets, answer, up>>

\* An exception goes to the SDK instead of a message, or nothing does.
Discard ==
    /\ Parsing("garbage") \/ Parsing("unfit") \/ (Parsing("request") /\ Duplicate)
    /\ answer' = [answer EXCEPT ![reader.n] = "dropped"]
    /\ reader' = IF Parsing("unfit") THEN NextFrame
                 ELSE [reader EXCEPT !.step = "send", !.reply = "dropped"]
    /\ UNCHANGED <<input, writer, lock, registry, working, budgets, up>>

\* Mutant: the transport's own errors are not charged.
RefuseFree ==
    /\ Parsing("malformed") \/ (Parsing("request") /\ ~Duplicate /\ Full)
    /\ reader' = [reader EXCEPT !.step = "reply",
                                !.reply = IF Parsing("request") THEN "capacity" ELSE "invalid"]
    /\ UNCHANGED <<input, writer, lock, registry, working, budgets, answer, up>>

\* Mutant: malformed requests are dropped as malformed notifications are.
RefuseQuietly ==
    /\ Parsing("malformed") \/ (Parsing("request") /\ ~Duplicate /\ Full)
    /\ reader' = IF Parsing("malformed") THEN NextFrame
                 ELSE [reader EXCEPT !.step = "reply", !.reply = "capacity"]
    /\ used' = [used EXCEPT ![reader.n] = @ + ErrorSize]
    /\ terminal' = [terminal EXCEPT ![reader.n] = @ + ErrorSize]
    /\ UNCHANGED <<input, writer, lock, registry, working, answer, up>>

\* The transport answers itself.
Refuse ==
    /\ Parsing("malformed") \/ (Parsing("request") /\ ~Duplicate /\ Full)
    /\ reader' = [reader EXCEPT !.step = "reply",
                                !.reply = IF Parsing("request") THEN "capacity" ELSE "invalid"]
    /\ used' = [used EXCEPT ![reader.n] = @ + ErrorSize]
    /\ terminal' = [terminal EXCEPT ![reader.n] = @ + ErrorSize]
    /\ UNCHANGED <<input, writer, lock, registry, working, answer, up>>

ReplyLock ==
    /\ up /\ reader.step = "reply" /\ lock = "free"
    /\ lock' = "reader"
    /\ reader' = [reader EXCEPT !.step = "write"]
    /\ UNCHANGED <<input, writer, registry, working, budgets, answer, up>>

ReplyWrite ==
    /\ up /\ reader.step = "write"
    /\ answer' = [answer EXCEPT ![reader.n] = reader.reply]
    /\ lock' = "free" /\ reader' = NextFrame
    /\ UNCHANGED <<input, writer, registry, working, budgets, up>>

\* stdout is broken: the reader's handler passes the error on and goes on; the
\* capacity error is written inside that handler and ends the reader (Down).
ReplyFails ==
    /\ up /\ reader.step = "write" /\ reader.reply = "invalid"
    /\ answer' = [answer EXCEPT ![reader.n] = "dropped"]
    /\ lock' = "free" /\ reader' = [reader EXCEPT !.step = "send", !.reply = "dropped"]
    /\ UNCHANGED <<input, writer, registry, working, budgets, up>>

\* The stream to the SDK has no buffer: sending is the SDK's receiving.
HandOver ==
    /\ up /\ reader.step = "send"
    /\ working' = IF reader.reply = "none" /\ frames[reader.n].kind = "request"
                  THEN working \cup {reader.n} ELSE working
    /\ answer' = IF frames[reader.n].kind = "notification"
                 THEN [answer EXCEPT ![reader.n] = "dropped"] ELSE answer
    /\ reader' = NextFrame
    /\ UNCHANGED <<input, writer, lock, registry, budgets, up>>

-----------------------------------------------------------------------------
(* The SDK and stdout_writer.                                              *)

Respond(n, size) ==
    /\ up /\ n \in working /\ writer.step = "idle"
    /\ working' = working \ {n}
    /\ writer' = [step |-> "lock", n |-> n, what |-> "response", size |-> size]
    /\ UNCHANGED <<input, reader, lock, registry, budgets, answer, up>>

Notify(n, size) ==
    /\ up /\ n \in working /\ writer.step = "idle"
    /\ writer' = [step |-> "lock", n |-> n, what |-> "notification", size |-> size]
    /\ UNCHANGED <<input, reader, lock, registry, working, budgets, answer, up>>

\* resolve_outgoing: by the id alone.
Budget == registry[frames[writer.n].id]

\* Mutant: nothing is kept back for the transport's own error.
FitsWhole == used[Budget] - terminal[Budget] + writer.size <= Limit

Fits == used[Budget] - terminal[Budget] + writer.size <= Limit - Reserve

Charge ==
    /\ up /\ writer.step = "lock" /\ lock = "free"
    /\ Fits
    /\ lock' = "writer"
    /\ used' = [used EXCEPT ![Budget] = @ + writer.size]
    /\ writer' = [writer EXCEPT !.step = "write"]
    /\ UNCHANGED <<input, reader, registry, working, terminal, answer, up>>

\* Mutant: the message that does not fit stays charged.
OverflowBoth ==
    /\ up /\ writer.step = "lock" /\ lock = "free"
    /\ ~Fits /\ writer.what = "response"
    /\ lock' = "writer"
    /\ used' = [used EXCEPT ![Budget] = @ + writer.size + ErrorSize]
    /\ terminal' = [terminal EXCEPT ![Budget] = @ + ErrorSize]
    /\ writer' = [writer EXCEPT !.step = "write", !.what = "overflow"]
    /\ UNCHANGED <<input, reader, registry, working, answer, up>>

\* A response that does not fit is replaced by an error from the reserve.
Overflow ==
    /\ up /\ writer.step = "lock" /\ lock = "free"
    /\ ~Fits /\ writer.what = "response"
    /\ lock' = "writer"
    /\ used' = [used EXCEPT ![Budget] = @ + ErrorSize]
    /\ terminal' = [terminal EXCEPT ![Budget] = @ + ErrorSize]
    /\ writer' = [writer EXCEPT !.step = "write", !.what = "overflow"]
    /\ UNCHANGED <<input, reader, registry, working, answer, up>>

Write ==
    /\ up /\ writer.step = "write"
    /\ writer' = [writer EXCEPT !.step = "complete"]
    /\ answer' = [answer EXCEPT ![writer.n] =
                      CASE writer.what = "response" -> "result"
                        [] writer.what = "overflow" -> "overflow"
                        [] OTHER -> @]
    /\ UNCHANGED <<input, reader, lock, registry, working, budgets, up>>

\* complete_outgoing, after the client may have seen the response.
Complete ==
    /\ up /\ writer.step = "complete"
    /\ lock' = "free" /\ writer' = IdleWriter
    /\ registry' = IF writer.what = "notification" THEN registry
                   ELSE [registry EXCEPT ![frames[writer.n].id] = 0]
    /\ UNCHANGED <<input, reader, working, budgets, answer, up>>

\* The writer's task raises: stdout is broken, or a notification does not fit.
\* The SDK's loop ends after the reader's.  Either way all tasks end.
Down ==
    /\ up
    /\ \/ reader.step = "ended" \/ writer.step = "write"
       \/ reader.step = "write" /\ reader.reply = "capacity"
       \/ writer.step = "lock" /\ lock = "free" /\ writer.what = "notification" /\ ~Fits
    /\ up' = FALSE
    /\ registry' = [i \in Id |-> 0]
    /\ UNCHANGED <<input, reader, writer, lock, working, budgets, answer>>

Ended == ~up /\ UNCHANGED vars

ReaderStep ==
    \/ ReadChunk \/ EndOfInput \/ Keep \/ Oversized \/ Yield
    \/ Register \/ Pass \/ Discard \/ Refuse \/ ReplyLock \/ ReplyWrite \/ ReplyFails \/ HandOver

WriterStep == Charge \/ Overflow \/ Write \/ Complete

Next ==
    \/ \E i \in Id, k \in Kinds, len \in Lengths : Send(i, k, len)
    \/ Close
    \/ ReaderStep
    \/ \E n \in Frame, size \in Sizes : Respond(n, size) \/ Notify(n, size)
    \/ WriterStep
    \/ Down \/ Ended

\* Each task goes on when it can, the SDK answers what it was given, and the
\* loop ends after its input has.
Fairness ==
    /\ WF_vars(ReaderStep) /\ WF_vars(WriterStep) /\ WF_vars(Down)
    /\ \A n \in Frame : WF_vars(\E size \in Sizes : Respond(n, size))

Spec == Init /\ [][Next]_vars /\ Fairness

-----------------------------------------------------------------------------
(* Properties.                                                             *)

\* _RequestBudgetRegistry: a request that the SDK works on, or whose message is
\* being written, is found under its id, whatever other requests used that id;
\* and a registered id belongs to such a request, so that no slot is lost.
RegistryIsFaithful ==
    up => LET held == working \cup (IF writer.what = "none" THEN {} ELSE {writer.n})
                      \cup (IF reader.step = "send" /\ frames[reader.n].kind = "request"
                               /\ reader.reply = "none" THEN {reader.n} ELSE {})
          IN /\ \A n \in held : registry[frames[n].id] = n
             /\ \A i \in Active : registry[i] \in held

\* Whatever was charged to a request that is still to be answered, the error
\* that may have to replace its response fits.
ErrorFits ==
    \A n \in Frame : terminal[n] = 0 => used[n] + ErrorSize <= Limit

\* What was written for a frame was charged to its own budget, once, and the
\* SDK works on no frame that the transport has answered.
AnswersAreCharged ==
    \A n \in Frame :
        /\ n \in working => answer[n] = "none"
        /\ answer[n] \in {"invalid", "capacity", "overflow"} => terminal[n] = ErrorSize
        /\ answer[n] = "result" => terminal[n] = 0

\* A frame is refused for its size exactly when it is above the limit, and the
\* same for every way in which the bytes arrive.
FrameLimitIsExact ==
    \A n \in DOMAIN frames :
        /\ n < reader.n \/ reader.step \notin {"read", "ended"} => n > reader.n \/ Length(n) <= MaxPayload
        /\ n = reader.n /\ answer[n] = "dropped" /\ reader.step = "ended" => Length(n) > MaxPayload

\* Every request is answered once the SDK has answered it, and every refused
\* one by the transport, unless the connection ends; only one that reuses an
\* id which is active is not.
RequestsAreAnswered ==
    \A n \in Frame :
        n \in DOMAIN frames /\ frames[n].kind \in {"request", "malformed"} ~> ~up \/ answer[n] # "none"
=============================================================================
