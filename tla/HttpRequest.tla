------------------------------ MODULE HttpRequest ------------------------------
(***************************************************************************)
(* One connection of the server: the bytes of pipelined requests as they   *)
(* arrive, the parser HttpRequest that takes them from the socket, the loop *)
(* HttpConnectionHandler::read() around it, and the HttpResponse a request  *)
(* handler writes.                                                         *)
(*                                                                         *)
(* A request on the wire has the text sizes of its head lines, each of     *)
(* which is followed by a line break of two bytes, then an empty line and a*)
(* body.  The last head line says how long the body is and of what type.   *)
(* Bytes are counted, not spelled: `line` and `off` tell which byte of the  *)
(* stream the reader takes next.                                           *)
(***************************************************************************)
EXTENDS Integers, Sequences, SequencesExt

CONSTANTS
    Streams,            \* what clients send: sequences of requests
    Names,              \* the names of fields and files
    maxSize,            \* maxRequestSize of the settings
    maxMultiPartSize,
    Block               \* bytes of an upload taken at a time

ASSUME RequestAssumption ==
    /\ {maxSize, maxMultiPartSize, Block} \subseteq Nat \ {0}
    /\ "" \notin Names

(* A request line, head lines if a body follows, and no empty line in the  *)
(* head; the body of an upload ends with a line break, fields have names,  *)
(* and there is a line for their data, if only its break.                  *)
Requests ==
    {r \in [head : Seq(Nat \ {0}), body : Nat, close : BOOLEAN,
            parts : Seq([field : Names, file : Names \cup {""}, size : Nat \ {0}])] :
        Len(r.head) >= (IF r.body = 0 THEN 1 ELSE 2) /\ (r.parts # <<>> => r.body > 1)}

ASSUME StreamsAssumption == Streams \subseteq Seq(Requests)

VARIABLES
    stream,     \* the requests this client sends
    unsent,     \* bytes it has not sent yet
    avail,      \* bytes in the socket
    next,       \* the request, its line and the byte of the line ...
    line,
    off,        \* ... before which the reader stands
    torn,       \* was a line break cut where that does harm?
    request,    \* currentRequest, or NoRequest
    response,   \* the response of the running request handler, or NoResponse
    answers,    \* how a client tells the end of each response sent
    conn,       \* "open" or "closed"
    readTimer   \* is the timer running?

wire == <<stream, unsent, next, line, off, torn>>
requestVars == <<wire, avail, request, response, answers, conn, readTimer>>

NoRequest == [status |-> "none"]
NoResponse == [headers |-> "none"]
None == -1

NewRequest ==
    [status |-> "waitForRequest", lineBuffer |-> 0, currentSize |-> 0,
     described |-> FALSE, expectedBodySize |-> 0, boundary |-> FALSE,
     bodyData |-> 0, parameters |-> {}, taken |-> 0]

(***************************************************************************)
(* The requests on the wire.                                               *)
(***************************************************************************)
LastLine(r) == Len(r.head) + 1
TextSize(r, l) == IF l = LastLine(r) THEN 0 ELSE r.head[l]
LineSize(r, l) == IF l > LastLine(r) THEN r.body ELSE TextSize(r, l) + 2

Total(s) ==
    LET sum[k \in 0 .. Len(s)] == IF k = 0 THEN 0 ELSE sum[k - 1] + s[k]
    IN  sum[Len(s)]

(* How many bytes of r come before its line l, and in the stream before    *)
(* line l of its request k.                                                *)
Offset(r, l) == Total([i \in 1 .. l - 1 |-> LineSize(r, i)])
SizeOf(r) == Offset(r, LastLine(r) + 2)
Ahead(k) == Total([i \in 1 .. k - 1 |-> SizeOf(stream[i])])
StreamSize == Ahead(Len(stream) + 1)

HasMore == next <= Len(stream)
Wire == stream[next]
InBody == line > LastLine(Wire)

(* A read that ends between the two bytes of a line break, with more head  *)
(* lines behind it, or a body that is no upload.                           *)
Tears(n) ==
    /\ ~ InBody /\ off + n = TextSize(Wire, line) + 1
    /\ line < Len(Wire.head) \/ (Wire.body > 0 /\ Wire.parts = <<>>)

Advance(n) ==
    LET full == off + n = LineSize(Wire, line)
        done == full /\ (InBody \/ (line = LastLine(Wire) /\ Wire.body = 0))
    IN  /\ off' = IF full THEN 0 ELSE off + n
        /\ line' = IF done THEN 1 ELSE IF full THEN line + 1 ELSE line
        /\ next' = IF done THEN next + 1 ELSE next
        /\ torn' = (torn \/ Tears(n))
        /\ avail' = avail - n
        /\ UNCHANGED <<stream, unsent>>

Least(a, b) == IF a < b THEN a ELSE b
Readable(n) == Least(n, Least(avail, LineSize(Wire, line) - off))

(***************************************************************************)
(* The body of an upload: its parts, the lines they are sent as, and the   *)
(* parameters that parseMultiPartFile makes of those lines.                *)
(***************************************************************************)
LinesOf(part) ==
    <<[kind |-> "boundary"],
      [kind |-> "disposition", field |-> part.field, file |-> part.file],
      [kind |-> "empty"]>>
    \o [i \in 1 .. part.size |-> [kind |-> "data"]]

(* `before` is what of the empty line was taken for a part of the body.    *)
LinesOfParts(before, parts) ==
    Append(FlattenSeq([i \in DOMAIN parts |->
                        (IF i = 1 THEN before ELSE <<>>) \o LinesOf(parts[i])]),
           [kind |-> "last"])

NewPart == [in |-> "headers", field |-> "", file |-> "", size |-> 0]

(* The parameter that a part leaves: none if it is a file without data.    *)
Parameter(p) ==
    IF p.field = "" \/ (p.file # "" /\ p.size = 0) THEN {}
    ELSE {[field |-> p.field, file |-> p.file, size |-> p.size]}

(* One line of the file: in the headers of a part, or in its data.  The    *)
(* data of a form field adds to the size of the request.                   *)
ParseLine(s, l) ==
    LET p == s.part IN
    CASE p.in = "headers" /\ l.kind = "disposition" ->
            [s EXCEPT !.part.field = l.field, !.part.file = l.file]
      [] p.in = "headers" /\ l.kind = "empty" -> [s EXCEPT !.part.in = "data"]
      [] p.in = "data" /\ l.kind \in {"boundary", "last"} ->
            [s EXCEPT !.part = NewPart, !.parameters = @ \cup Parameter(p)]
      [] p.in = "data" /\ l.kind \notin {"boundary", "last"} ->
            [s EXCEPT !.part.size = @ + 1,
                      !.bytes = IF p.file = "" /\ p.field # "" THEN @ + 1 ELSE @]
      [] OTHER -> s

parseMultiPartFile(lines) ==
    LET after[k \in 0 .. Len(lines)] ==
            IF k = 0 THEN [part |-> NewPart, parameters |-> {}, bytes |-> 0]
            ELSE ParseLine(after[k - 1], lines[k])
    IN  after[Len(lines)]

(***************************************************************************)
(* HttpRequest::readFromSocket.                                            *)
(***************************************************************************)
\* faulty variant: a line is read to its end
toReadAll == StreamSize

toRead == maxSize - request.currentSize + 1

(* Is there a line break in the buffer once n more bytes are in it, and is *)
(* there anything else?  What is left of a body and read as a line is the  *)
(* line break at the end of an upload, or bytes that come before the next  *)
(* request line.  Either byte of a break is one, so that the other is an   *)
(* empty line when it comes in late.                                       *)
HasBreak(n) ==
    IF InBody THEN Wire.parts # <<>> ELSE off + n > TextSize(Wire, line)
IsBlank == InBody \/ off >= request.lineBuffer + TextSize(Wire, line)
IsWhole == ~ InBody /\ off <= request.lineBuffer

(* Buffered(n) takes n bytes of a line; the size of what is buffered is    *)
(* added every time.                                                       *)
Buffered(n) ==
    LET size == request.lineBuffer + n IN
    [request EXCEPT !.currentSize = @ + size,
                    !.lineBuffer = IF HasBreak(n) THEN 0 ELSE size]

readRequest(n) ==
    IF ~ HasBreak(n) \/ IsBlank THEN Buffered(n)
    ELSE [Buffered(n) EXCEPT
            !.status = IF IsWhole /\ line = 1 THEN "waitForHeader" ELSE "abort"]

EndOfHeaders(q) ==
    LET multi == q.described /\ Wire.parts # <<>>
        size  == IF q.described THEN Wire.body ELSE 0
        large == IF multi THEN size > maxMultiPartSize
                          ELSE size + q.currentSize > maxSize
    IN  [q EXCEPT !.boundary = multi, !.expectedBodySize = size,
                  !.status = IF size = 0 THEN "complete"
                             ELSE IF large THEN "abort" ELSE "waitForBody"]

readHeader(n) ==
    IF ~ HasBreak(n) THEN Buffered(n)
    ELSE IF IsBlank THEN EndOfHeaders(Buffered(n))
    ELSE [Buffered(n) EXCEPT
            !.described = @ \/ (IsWhole /\ line = Len(Wire.head))]

\* faulty variant: the body is complete a byte too early
HasBodyAlmost(q) == q.bodyData + 1 >= q.expectedBodySize

HasBody(q) == q.bodyData >= q.expectedBodySize

readBody(n) ==
    LET size == request.bodyData + n
        q    == [request EXCEPT !.bodyData = size]
    IN  IF ~ request.boundary
        THEN [q EXCEPT !.currentSize = @ + n,
                       !.status = IF HasBody(q) THEN "complete" ELSE @]
        ELSE IF size >= maxMultiPartSize THEN [q EXCEPT !.status = "abort"]
        ELSE IF ~ HasBody(q) THEN q
        ELSE LET before == IF InBody /\ off = request.bodyData THEN <<>>
                           ELSE <<[kind |-> "empty"]>>
                 file == parseMultiPartFile(LinesOfParts(before, Wire.parts)) IN
             [q EXCEPT !.status = "complete", !.currentSize = @ + file.bytes,
                       !.parameters = file.parameters]

TooMany(q) == q.currentSize > (IF q.boundary THEN maxMultiPartSize ELSE maxSize)

(* The check, and a record of all bytes taken for the request.             *)
Checked(q, n) ==
    [q EXCEPT !.status = IF TooMany(q) THEN "abort" ELSE @, !.taken = @ + n]

IsReading == response = NoResponse /\ conn = "open"

readFromSocket ==
    /\ IsReading /\ avail > 0 /\ HasMore
    /\ \/ /\ request.status = "waitForRequest"
          /\ LET n == Readable(toRead) IN
             /\ request' = Checked(readRequest(n), n) /\ Advance(n)
       \/ /\ request.status = "waitForHeader"
          /\ LET n == Readable(toRead) IN
             /\ request' = Checked(readHeader(n), n) /\ Advance(n)
       \/ /\ request.status = "waitForBody"
          /\ LET rest == request.expectedBodySize - request.bodyData
                 n == Readable(IF request.boundary THEN Least(rest, Block) ELSE rest)
             IN  request' = Checked(readBody(n), n) /\ Advance(n)
    /\ readTimer' = (readTimer \/ request'.status = "waitForBody")
    /\ UNCHANGED <<response, answers, conn>>

(***************************************************************************)
(* HttpConnectionHandler::read.                                            *)
(***************************************************************************)
CreateRequest ==
    /\ IsReading /\ avail > 0 /\ request = NoRequest
    /\ request' = NewRequest
    /\ UNCHANGED <<wire, avail, response, answers, conn, readTimer>>

Close ==
    /\ conn' = "closed"
    /\ avail' = 0
    /\ unsent' = 0
    /\ UNCHANGED <<stream, next, line, off, torn>>

RefuseRequest ==
    /\ IsReading /\ request.status = "abort"
    /\ Close
    /\ request' = NoRequest
    /\ readTimer' = FALSE
    /\ UNCHANGED <<response, answers>>

(* Responses carry Connection:close if the request asks for it.            *)
StartService ==
    /\ IsReading /\ request.status = "complete"
    /\ readTimer' = FALSE
    /\ response' = [headers |-> FALSE, last |-> FALSE, chunked |-> FALSE,
                    length |-> None, sent |-> 0, terminated |-> FALSE,
                    close |-> stream[Len(answers) + 1].close]
    /\ UNCHANGED <<wire, avail, request, answers, conn>>

(* HttpResponse::write of n bytes.                                         *)
Written(r, n, last) ==
    LET chunked == r.chunked \/ (~ r.headers /\ ~ last /\ ~ r.close) IN
    [r EXCEPT !.headers = TRUE, !.chunked = chunked, !.last = last,
              !.length = IF ~ r.headers /\ last THEN n ELSE @,
              !.sent = @ + n,
              !.terminated = last /\ chunked]

(* The request handler writes the response in one part or in several, and  *)
(* may ask for the end of the connection before the first.                 *)
Part == {0, 1}

WritePart ==
    /\ response # NoResponse
    /\ ~ response.last /\ response.sent <= 1
    /\ \E n \in Part, last \in BOOLEAN : response' = Written(response, n, last)
    /\ UNCHANGED <<wire, avail, request, answers, conn, readTimer>>

AskForClose ==
    /\ response # NoResponse
    /\ ~ response.headers /\ ~ response.close
    /\ response' = [response EXCEPT !.close = TRUE]
    /\ UNCHANGED <<wire, avail, request, answers, conn, readTimer>>

EndOf(r, closes) ==
    IF closes THEN "close"
    ELSE IF r.length # None /\ r.length = r.sent THEN "length"
    ELSE IF r.chunked /\ r.terminated THEN "chunk"
    ELSE "unknown"

\* faulty variant: only what the request asked for counts
MustCloseAsked(r) == stream[Len(answers) + 1].close

MustClose(r) == r.close \/ (r.length = None /\ ~ r.chunked)

FinishService ==
    /\ response # NoResponse
    /\ LET final  == IF response.last THEN response ELSE Written(response, 0, TRUE)
           closes == MustClose(final)
       IN  /\ answers' = Append(answers, EndOf(final, closes))
           /\ readTimer' = ~ closes
           /\ IF closes THEN Close ELSE UNCHANGED <<wire, avail, conn>>
    /\ request' = NoRequest
    /\ response' = NoResponse

(* HttpConnectionHandler::readTimeout and ::disconnected.                  *)
ReadTimeout ==
    /\ readTimer /\ response = NoResponse
    /\ Close
    /\ request' = NoRequest
    /\ readTimer' = FALSE
    /\ UNCHANGED <<response, answers>>

ClientLeaves ==
    /\ conn = "open"
    /\ Close
    /\ readTimer' = FALSE
    /\ UNCHANGED <<request, response, answers>>

(* A segment of n bytes arrives: TCP cuts a stream where it likes.         *)
Arrive ==
    /\ conn = "open"
    /\ \E n \in 1 .. unsent :
        /\ unsent' = unsent - n
        /\ avail' = avail + n
    /\ UNCHANGED <<stream, next, line, off, torn, request, response, answers, conn,
                   readTimer>>

RequestInit ==
    /\ stream \in Streams
    /\ unsent = StreamSize
    /\ avail = 0
    /\ next = 1 /\ line = 1 /\ off = 0 /\ torn = FALSE
    /\ request = NoRequest
    /\ response = NoResponse
    /\ answers = <<>>
    /\ conn = "open"
    /\ readTimer = TRUE

RequestNext ==
    \/ Arrive
    \/ CreateRequest
    \/ readFromSocket
    \/ RefuseRequest
    \/ StartService
    \/ WritePart
    \/ AskForClose
    \/ FinishService
    \/ ReadTimeout
    \/ ClientLeaves

RequestSpec == RequestInit /\ [][RequestNext]_requestVars

--------------------------------------------------------------------------------

(* The number of the request that is read or served.                       *)
Current == Len(answers) + 1

(* All that is left of request k is a line break or a part of one, which   *)
(* readRequest skips: that of the empty line, or the last one of an upload.*)
LeftOver(k) ==
    /\ next = k /\ HasMore
    /\ IF InBody THEN Wire.parts # <<>> /\ off >= Wire.body - 2
       ELSE Wire.body = 0 /\ line = LastLine(Wire)

Between(k) == LeftOver(k) \/ (next = k + 1 /\ line = 1 /\ off = 0)

(* When a request is handed to its handler the reader stands before the    *)
(* next one, and the parameters of an upload are those of its parts: no    *)
(* byte of one request is taken for another's, wherever the segments of the*)
(* stream end (HttpConnectionHandler::read, "adds support for HTTP         *)
(* pipelining").  The exception is a read that ends between the two bytes  *)
(* of a line break: readHeader takes the second for the empty line.  That  *)
(* does no harm at the end of a head that no body follows, or an upload.   *)
RequestsAreWhole ==
    request.status = "complete" =>
        \/ torn
        \/ /\ Between(Current)
           /\ request.parameters = Range(stream[Current].parts)

(* A connection never buffers a line longer than maxRequestSize and the one*)
(* byte that shows the overflow, and never takes more bytes for a request  *)
(* than its limit allows, although it counts the pieces of a line as they  *)
(* come in, again and again, and the data of the parts of an upload only   *)
(* (readRequest, readHeader, readBody and the check of readFromSocket).    *)
SizesAreBounded ==
    request # NoRequest =>
        /\ request.lineBuffer <= maxSize + 1
        /\ request.taken <= maxSize + 1 + (IF request.boundary THEN maxMultiPartSize ELSE 0)
        /\ request.status = "complete" =>
             IF request.boundary THEN request.bodyData <= maxMultiPartSize
                                 ELSE request.taken <= maxSize

(* The client can tell where each response ends: by its length, by the last*)
(* chunk, or because the connection is closed after it, and then nothing   *)
(* more is answered.  HttpResponse::write decides before it knows what the *)
(* handler writes later, read() after it.                                  *)
ResponseEndIsKnown ==
    \A i \in 1 .. Len(answers) :
        /\ answers[i] # "unknown"
        /\ answers[i] = "close" => i = Len(answers) /\ conn = "closed"

================================================================================
