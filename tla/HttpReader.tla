------------------------------ MODULE HttpReader ------------------------------
(***************************************************************************)
(* How one side of a connection reads HTTP messages (net/client.cpp):      *)
(* AsyncHttpClient::asyncResponse and the chain of handlers behind it, on  *)
(* top of BasicTcpClient::asyncRead, read and read_until.                  *)
(*                                                                         *)
(* The peer's bytes arrive in pieces of any size.  A start line, a header  *)
(* line and a chunk size are one token each; the "\r\n" that ends them is  *)
(* two, so that a piece may end inside a delimiter, and a body is made of  *)
(* bytes that may themselves be "\r" and "\n".                             *)
(*                                                                         *)
(* The handlers run on the only thread of their io_service.  Each consumes *)
(* from m_Streambuf with the blocking read or read_until: when the bytes   *)
(* are not in the buffer yet, these wait for a completion that only the    *)
(* waiting thread could run.                                               *)
(***************************************************************************)
EXTENDS Integers, Sequences, SequencesExt

CONSTANTS
    Messages,       \* messages peers send, a set of [lines, chunks]
    Lengths,        \* the Content-Length lines that are numbers, and their values
    Sizes,          \* the chunk sizes that are numbers, and their values
    MaxMessages,    \* bound on the messages of a connection
    MaxPiece        \* bound on the bytes one read of the socket returns

CRLF == <<"r", "n">>

ASSUME ReaderAssumption == MaxMessages \in Nat /\ MaxPiece \in Nat \ {0}
ASSUME MessagesAssumption ==
    Messages \subseteq [lines : Seq(STRING), chunks : Seq([size : STRING, data : Seq(STRING)])]
ASSUME NumbersAssumption ==
    /\ \A l \in DOMAIN Lengths : Lengths[l] \in Nat
    /\ \A s \in DOMAIN Sizes : Sizes[s] \in Nat

VARIABLES
    sent,       \* the whole messages the peer sends
    closes,     \* the peer closes after its last byte
    wire,       \* bytes the socket has not returned yet
    buf,        \* m_Streambuf
    op,         \* the pending asyncRead
    reply,      \* the HttpReply the handlers carry along
    thread,     \* "blocked": a handler waits inside read or read_until
    delivered   \* history: what the handler given to asyncResponse was called with

vars == <<sent, closes, wire, buf, op, reply, thread, delivered>>

NoOp == [kind |-> "none", need |-> 0, from |-> 0]
NoReply == [lines |-> {}, body |-> <<>>]
--------------------------------------------------------------------------------
(* What peers send *)

\* A line "" is an empty one.
HeadOf(m) ==
    FlattenSeq([i \in DOMAIN m.lines |->
                  (IF m.lines[i] = "" THEN <<>> ELSE <<m.lines[i]>>) \o CRLF]) \o CRLF

DataOf(m) == FlattenSeq([i \in DOMAIN m.chunks |-> m.chunks[i].data])

IsChunked(m) == "chunked" \in Range(m.lines)

Wire(m) ==
    HeadOf(m) \o
    (IF IsChunked(m)
     THEN FlattenSeq([i \in DOMAIN m.chunks |->
                    <<m.chunks[i].size>> \o CRLF \o m.chunks[i].data \o CRLF])
     ELSE DataOf(m))

\* The messages that processing refuses with protocol_error.
Malformed(m) ==
    \/ m.lines[1] # "line"
    \/ "len?" \in Range(m.lines)
    \/ IsChunked(m) /\ \E i \in DOMAIN m.chunks : m.chunks[i].size \notin DOMAIN Sizes

\* A message whose framing tells the truth about it, as far as the reader needs it:
\* its lines are lines, the length it announces is that of its body, and the chunk
\* of size 0 is the last one.  Nothing is asked of what follows an error.
LengthsOf(m) == Range(m.lines) \cap DOMAIN Lengths

ProperLines(m) == Range(m.lines) \cap {"", "r", "n"} = {}

LengthFits(m) ==
    /\ \A l \in LengthsOf(m) : Lengths[l] = Len(DataOf(m))
    /\ LengthsOf(m) = {} => DataOf(m) = <<>>

ChunksFit(m) ==
    /\ LengthsOf(m) = {} /\ m.chunks # <<>>
    /\ \A i \in DOMAIN m.chunks :
          /\ m.chunks[i].size # "r"
          /\ m.chunks[i].size \in DOMAIN Sizes =>
                /\ Sizes[m.chunks[i].size] = Len(m.chunks[i].data)
                /\ m.chunks[i].data = <<>> <=> i = Len(m.chunks)

Framed(m) ==
    /\ m.lines # <<>>
    /\ m.lines[1] = "line" => ProperLines(m)
    /\ m.lines[1] = "line" /\ "len?" \notin Range(m.lines) =>
          IF IsChunked(m) THEN ChunksFit(m) ELSE LengthFits(m)

FramedMessages == \A m \in Messages : Framed(m)

\* zlib: a token "z" inflates to "x".  What follows the first byte that is not
\* part of a gzip stream is lost without an error: inflateEnd returns Z_OK, so
\* that gzipInflate returns true whatever status the loop ended with.
gzipInflate(b) ==
    LET good == {n \in 0..Len(b) : \A i \in 1..n : b[i] = "z"}
    IN  [i \in 1..(CHOOSE n \in good : \A k \in good : k <= n) |-> "x"]

Answer(error, body) == [error |-> error, body |-> body]

\* What the reader owes its caller for a message.
Outcome(m) ==
    IF Malformed(m) THEN Answer("protocol_error", <<>>)
    ELSE Answer("none", IF "gzip" \in Range(m.lines) THEN gzipInflate(DataOf(m)) ELSE DataOf(m))

\* ... and for a connection: an answer per message until the first error.
Expected ==
    LET bad == {i \in DOMAIN sent : Malformed(sent[i])}
        all == [i \in DOMAIN sent |-> Outcome(sent[i])]
    IN  IF bad # {}
        THEN SubSeq(all, 1, CHOOSE i \in bad : \A j \in bad : i <= j)
        ELSE all \o (IF closes THEN <<Answer("eof", <<>>)>> ELSE <<>>)

\* The beginnings of a message that a peer may leave off at.
Beginnings ==
    UNION {{SubSeq(Wire(m), 1, n) : n \in 1..(Len(Wire(m)) - 1)} :
              m \in {mm \in Messages : ~Malformed(mm)}}
    \ {Wire(m) : m \in Messages}

Init ==
    /\ \E ms \in SeqOf(Messages, MaxMessages) :
          /\ sent = ms
          /\ \/ /\ wire = FlattenSeq([i \in DOMAIN ms |-> Wire(ms[i])])
                /\ closes \in BOOLEAN
             \/ /\ Len(ms) < MaxMessages
                /\ \E b \in Beginnings : wire = FlattenSeq([i \in DOMAIN ms |-> Wire(ms[i])]) \o b
                /\ closes = TRUE
    /\ buf = <<>>
    /\ op = NoOp
    /\ reply = NoReply
    /\ thread = "free"
    /\ delivered = <<>>
--------------------------------------------------------------------------------
(* BasicTcpClient *)

\* std::search: the first position of d in s, 0 when there is none.
Search(s, d) ==
    LET at == {i \in 1..(Len(s) - Len(d) + 1) : SubSeq(s, i, i + Len(d) - 1) = d}
    IN  IF at = {} THEN 0 ELSE CHOOSE i \in at : \A j \in at : i <= j

\* The match conditions of async_read_until: an offset into the buffer and
\* whether it matches.  Without a match the next search starts at the offset.
contains_t_Mutant(from, delimiter) ==
    LET p == Search(SubSeq(buf, from + 1, Len(buf)), delimiter)
    IN  [pos |-> IF p # 0 THEN from + p - 1 ELSE Len(buf), found |-> p # 0]

contains_t_MutantBack(from, delimiter) ==
    LET p == Search(SubSeq(buf, from + 1, Len(buf)), delimiter)
    IN  [pos |-> IF p # 0 THEN from + p - 1 ELSE Len(buf) - Len(delimiter) + 1, found |-> p # 0]

contains_t(from, delimiter) ==
    LET p == Search(SubSeq(buf, from + 1, Len(buf)), delimiter)
    IN  [pos |-> IF p # 0 THEN from + p - 1 ELSE from, found |-> p # 0]

at_least(from, need) ==
    LET size == Len(buf) - from
    IN  [pos |-> IF size >= need THEN from + need ELSE from, found |-> size >= need]

match_Mutant ==
    CASE op.kind = "headers" -> contains_t(op.from, CRLF \o CRLF)
      [] op.kind = "size"    -> contains_t(op.from, CRLF)
      [] op.kind = "body"    -> at_least(op.from, op.need)
      [] op.kind = "chunk"   -> at_least(op.from, op.need)

match ==
    CASE op.kind = "headers" -> contains_t(op.from, CRLF \o CRLF)
      [] op.kind = "size"    -> contains_t(op.from, CRLF)
      [] op.kind = "body"    -> at_least(op.from, op.need)
      [] op.kind = "chunk"   -> at_least(op.from, op.need + 2)

pending == op.kind # "none"

\* asyncRead; need is the length of the body or of the chunk.
asyncRead(kind, need) == op' = [kind |-> kind, need |-> need, from |-> 0]

\* The socket returns bytes to the pending async_read_until.
readSome ==
    /\ pending /\ ~match.found
    /\ \E n \in 1..MaxPiece :
          /\ n <= Len(wire)
          /\ buf' = buf \o SubSeq(wire, 1, n)
          /\ wire' = SubSeq(wire, n + 1, Len(wire))
    /\ op' = [op EXCEPT !.from = match.pos]
    /\ UNCHANGED <<sent, closes, reply, thread, delivered>>

completes(kind) == op.kind = kind /\ match.found

\* read_until and read, up to the point where they go to the socket.
read_until(delimiter) ==
    LET p == Search(buf, delimiter)
    IN  [ready |-> p # 0, bytes |-> SubSeq(buf, 1, p - 1),
         rest |-> IF p = 0 THEN buf ELSE SubSeq(buf, p + Len(delimiter), Len(buf))]

read(need) ==
    LET already_in_stream == IF need < Len(buf) THEN need ELSE Len(buf)
    IN  [ready |-> already_in_stream = need, bytes |-> SubSeq(buf, 1, already_in_stream),
         rest |-> SubSeq(buf, already_in_stream + 1, Len(buf))]

\* ... and the rest of the handler, which the thread does not reach when read
\* (having taken what there was) or read_until has to wait for the socket.
then(r, rest_of_handler) ==
    /\ buf' = r.rest
    /\ IF r.ready
       THEN rest_of_handler /\ UNCHANGED <<sent, closes, wire, thread>>
       ELSE thread' = "blocked" /\ op' = NoOp /\ UNCHANGED <<sent, closes, wire, reply, delivered>>
--------------------------------------------------------------------------------
(* AsyncHttpClient *)

\* The handler given to asyncResponse is called.
deliver(error, body) ==
    /\ delivered' = Append(delivered, Answer(error, body))
    /\ op' = NoOp
    /\ reply' = NoReply

\* The owner of the connection reads the next message unless a read failed.
asyncResponse_Mutant ==
    /\ thread = "free" /\ ~pending
    /\ buf = <<>>
    /\ \A i \in DOMAIN delivered : delivered[i].error = "none"
    /\ asyncRead("headers", 0)
    /\ UNCHANGED <<sent, closes, wire, buf, reply, thread, delivered>>

asyncResponse ==
    /\ thread = "free" /\ ~pending
    /\ \A i \in DOMAIN delivered : delivered[i].error = "none"
    /\ asyncRead("headers", 0)
    /\ UNCHANGED <<sent, closes, wire, buf, reply, thread, delivered>>

\* Every handler of the chain hands the error of its read on.
readFails ==
    /\ pending /\ ~match.found
    /\ wire = <<>> /\ closes
    /\ deliver("eof", <<>>)
    /\ UNCHANGED <<sent, closes, wire, buf, thread>>

\* The header lines; std::map keeps one value per header.
lines(headers) == {headers[i] : i \in DOMAIN headers} \ {"r", "n"}

\* The start line: split keeps an empty first line.
startLine(headers) == IF headers = <<>> THEN "r" ELSE headers[1]

refused(headers) ==
    \/ startLine(headers) # "line"
    \/ "len?" \in lines(headers)

withLength(headers) == lines(headers) \cap DOMAIN Lengths # {}

handleHeaders ==
    /\ completes("headers")
    /\ LET r == read_until(CRLF \o CRLF)
           h == r.bytes
       IN  then(r, \/ refused(h) /\ deliver("protocol_error", <<>>)
                   \/ /\ ~refused(h) /\ withLength(h)
                      /\ \E l \in lines(h) \cap DOMAIN Lengths : asyncRead("body", Lengths[l])
                      /\ reply' = [NoReply EXCEPT !.lines = lines(h)]
                      /\ UNCHANGED delivered
                   \/ /\ ~refused(h) /\ ~withLength(h) /\ "chunked" \in lines(h)
                      /\ asyncRead("size", 0)
                      /\ reply' = [NoReply EXCEPT !.lines = lines(h)]
                      /\ UNCHANGED delivered
                   \/ /\ ~refused(h) /\ ~withLength(h) /\ "chunked" \notin lines(h)
                      /\ deliver("none", <<>>))

\* An empty body is not inflated, and gzipInflate of it would be empty as well.
processReply(body) ==
    deliver("none", IF "gzip" \in reply.lines THEN gzipInflate(body) ELSE body)

\* The handler of the read of a body.
bodyCompleted ==
    /\ completes("body")
    /\ LET r == read(op.need) IN then(r, processReply(r.bytes))

startProcessChunk ==
    /\ completes("size")
    /\ LET r == read_until(CRLF)
           valid == Len(r.bytes) = 1 /\ r.bytes[1] \in DOMAIN Sizes
       IN  then(r, \/ /\ valid
                      /\ asyncRead("chunk", Sizes[r.bytes[1]])
                      /\ UNCHANGED <<reply, delivered>>
                   \/ ~valid /\ deliver("protocol_error", <<>>))

processChunk ==
    /\ completes("chunk")
    /\ LET r == read(op.need + 2)
           taken == IF op.need < Len(r.bytes) THEN op.need ELSE Len(r.bytes)   \* substr
           body == reply.body \o SubSeq(r.bytes, 1, taken)
       IN  then(r, \/ op.need = 0 /\ processReply(body)
                   \/ /\ op.need # 0
                      /\ asyncRead("size", 0)
                      /\ reply' = [reply EXCEPT !.body = body]
                      /\ UNCHANGED delivered)

handlers == handleHeaders \/ bodyCompleted \/ startProcessChunk \/ processChunk \/ readFails

Next == asyncResponse \/ readSome \/ handlers

Spec == Init /\ [][Next]_vars

\* TCP delivers what was sent, the io_service runs the handlers of completed
\* reads, and the owner reads again after every message.
FairSpec == Spec /\ WF_vars(asyncResponse) /\ WF_vars(readSome) /\ WF_vars(handlers)
--------------------------------------------------------------------------------
(* Properties *)

\* Types; a search never starts outside of the buffer.
TypeOK ==
    /\ sent \in Seq(Messages) /\ closes \in BOOLEAN
    /\ op.kind \in {"none", "headers", "body", "size", "chunk"}
    /\ op.need \in Nat /\ op.from \in 0..Len(buf)
    /\ thread \in {"free", "blocked"}
    /\ \A i \in DOMAIN delivered :
          delivered[i].error \in {"none", "protocol_error", "eof"}

\* A handler finds in the buffer all it takes from it: read and read_until
\* never go on to wait on the io_service whose only thread they run on.
NeverBlocks == thread = "free"

\* However the bytes are cut into pieces, the handler is called once for each
\* message, in the order sent and with the body sent, and a message that is
\* malformed or cut off yields one error and nothing after it.
WholeAndInOrder == IsPrefix(delivered, Expected)

\* ... and it is called for every message that has arrived, also when the
\* next message or a delimiter came with the previous piece.
EveryMessageDelivered == <>(delivered = Expected)
================================================================================
