---------------------------- MODULE ResponseParser ----------------------------
(***************************************************************************)
(* HttpResponseParser::feed() and handleHeader() (http_client.cc): the     *)
(* incremental parser HttpConnection::onReceivedData feeds with whatever   *)
(* each read() returned.  The bytes of a response are abstracted to        *)
(* tokens, one per byte except two: "H" stands for the five bytes "HTTP/"  *)
(* the status line must start with, and "L" for the fourteen bytes of the  *)
(* header name "Content-Length"; StatusMin scales the code's 16 (the       *)
(* bytes it waits for before reading a status line) to these tokens.       *)
(*                                                                         *)
(* Each step feeds the next chunk of the stream, of any length up to       *)
(* MaxChunk, and runs the whole feed() call.  The callbacks it makes are   *)
(* recorded in ev, one "data" per body byte, so that onData calls of any   *)
(* split compare equal; Ref is what the responses contain, the result of   *)
(* parsing the stream in one piece.                                        *)
(***************************************************************************)
EXTENDS Naturals, Sequences, SequencesExt

CONSTANTS
    Responses,  \* the responses on the connection, in order:
                \*   [len : body bytes, cl : has a Content-Length header,
                \*    extra : has another header]
    StatusMin,  \* the "(dataSize - ptr) < 16" threshold, in tokens
    MaxChunk,   \* the longest chunk one read() returns, in tokens
    ClientReads \* TRUE: a read never holds bytes of two responses, as with
                \*   HttpClient, which sends a request only once the
                \*   previous response is done

ASSUME /\ Responses \in Seq([len : 0 .. 2, cl : BOOLEAN, extra : BOOLEAN])
       /\ \A i \in DOMAIN Responses : Responses[i].len > 0 => Responses[i].cl
       /\ StatusMin \in 6 .. 8 /\ MaxChunk \in Nat \ {0} /\ ClientReads \in BOOLEAN

Digit == <<"1", "2">>
DigitVal(t) == IF t = "1" THEN 1 ELSE IF t = "2" THEN 2 ELSE 0

\* "HTTP/1.1 200 OK\r\n": prefix, version, space, code, space, reason, CR LF
StatusLine == <<"H", "v", "SP", "d", "SP", "t", "CR", "LF">>
LengthHeader(n) == <<"L", "COLON", "SP", IF n = 0 THEN "0" ELSE Digit[n], "CR", "LF">>
OtherHeader == <<"k", "COLON", "x", "CR", "LF">>

Encode(r) ==
    StatusLine \o (IF r.cl THEN LengthHeader(r.len) ELSE <<>>)
               \o (IF r.extra THEN OtherHeader ELSE <<>>)
               \o <<"CR", "LF">> \o [i \in 1 .. r.len |-> "b"]

\* the callbacks a response makes: onResponseStart, onHeader per header,
\* onData for the body, onDone
Expected(r) ==
    <<"start">> \o (IF r.cl THEN <<"header">> ELSE <<>>)
                \o (IF r.extra THEN <<"header">> ELSE <<>>)
                \o [i \in 1 .. r.len |-> "data"] \o <<"done">>

Stream == FlattenSeq([i \in DOMAIN Responses |-> Encode(Responses[i])])
Ref == FlattenSeq([i \in DOMAIN Responses |-> Expected(Responses[i])])

\* the offsets in Stream where one response ends and the next begins
Boundaries == {Len(FlattenSeq([j \in 1 .. i |-> Encode(Responses[j])])) : i \in 1 .. Len(Responses) - 1}

Tokens == {"H", "v", "SP", "d", "t", "CR", "LF", "L", "COLON", "k", "x", "b", "0", "1", "2"}
Events == {"start", "header", "data", "done"}

VARIABLES
    pos,        \* how many tokens of Stream have been fed
    st,         \* state_: 0 status line, 1 headers, 2 body
    buf,        \* buffer_
    rem,        \* remainingBody_
    ev,         \* the callbacks made so far
    thrown      \* feed() threw (the loop thread's exception path)

vars == <<pos, st, buf, rem, ev, thrown>>

TypeOK ==
    /\ pos \in 0 .. Len(Stream)
    /\ st \in 0 .. 2
    /\ buf \in Seq(Tokens)
    /\ rem \in 0 .. 2
    /\ ev \in Seq(Events)
    /\ thrown \in BOOLEAN

-----------------------------------------------------------------------------
(* One feed() call works on a record F: the data it parses (buffer_ with   *)
(* the chunk appended, or the chunk), fromBuffer, ptr, the members, and    *)
(* whether it has returned or thrown.                                      *)

At(F, i) == F.data[i + 1]               \* data[i]
Size(F) == Len(F.data)                  \* dataSize
Rest(F, from) == SubSeq(F.data, from + 1, Size(F))

Return(F) == [F EXCEPT !.ret = TRUE]
Throw(F) == [F EXCEPT !.thrown = TRUE, !.ret = TRUE]
\* buffer_.assign(data + from, dataSize - from)
Keep(F, from) == [F EXCEPT !.buf = Rest(F, from)]
\* the early returns that keep what is left only when it is not already
\* in buffer_
KeepUnlessBuffered(F, from) == Return(IF F.fb THEN F ELSE Keep(F, from))

\* the skipToChar lambda: advance ptr to the next c; with throwOnEol, a CR
\* or LF before it throws "unexpected end of line"; not found leaves ptr at
\* dataSize
SkipToChar(F, c, throwOnEol) ==
    LET stops == {j \in F.ptr .. Size(F) - 1 :
                    At(F, j) = c \/ (throwOnEol /\ At(F, j) \in {"CR", "LF"})}
    IN CASE stops = {} -> [F EXCEPT !.ptr = Size(F), !.found = FALSE]
         [] At(F, Min(stops)) = c -> [F EXCEPT !.ptr = Min(stops), !.found = TRUE]
         [] OTHER -> Throw([F EXCEPT !.ptr = Min(stops), !.found = FALSE])

\* state_ 0: the status line
StatusLineStep(F) ==
    LET F1 == SkipToChar([F EXCEPT !.ptr = @ + 1], "SP", TRUE)     \* version
        F2 == SkipToChar([F1 EXCEPT !.ptr = @ + 1], "SP", TRUE)    \* code
        F3 == SkipToChar(F2, "CR", FALSE)                          \* reason
        p == F3.ptr + 1
        F4 == [F3 EXCEPT !.ptr = p + 1, !.ev = Append(@, "start"), !.st = 1]
    IN CASE Size(F) - F.ptr < StatusMin -> KeepUnlessBuffered(F, F.ptr)
         [] At(F, F.ptr) # "H" -> Throw(F)          \* "version must start with 'HTTP/'"
         [] F1.ret -> F1
         [] ~F1.found -> Throw(F1)                  \* "version too long"
         [] F2.ret -> F2
         [] ~F2.found -> Throw(F2)                  \* "code too long"
         [] ~F3.found -> KeepUnlessBuffered(F3, F3.ptr)
         [] p = Size(F3) -> Return([F3 EXCEPT !.ptr = p])
         [] At(F3, p) # "LF" -> Throw(F3)           \* "expected \n"
         [] F4.ptr = Size(F4) -> Return([F4 EXCEPT !.buf = <<>>])
         [] OTHER -> F4

\* Variants with a plausible bug, each defined before the operator it
\* replaces; the properties are checked to fail with them.

\* the header name is compared case-sensitively and "content-length" is
\* missed
HandleHeader_ignoreLength(F, from) == [F EXCEPT !.ev = Append(@, "header")]

\* the value is read one past its last digit
HandleHeader_offByOne(F, from) ==
    LET line == SubSeq(F.data, from + 1, F.ptr - 2)
    IN [F EXCEPT !.rem = IF line[1] = "L" THEN DigitVal(Last(line)) + 1 ELSE @,
                 !.ev = Append(@, "header")]

\* handleHeader(): a Content-Length header sets remainingBody_ to its value
HandleHeader(F, from) ==
    LET line == SubSeq(F.data, from + 1, F.ptr - 2)
    IN [F EXCEPT !.rem = IF line[1] = "L" THEN DigitVal(Last(line)) ELSE @,
                 !.ev = Append(@, "header")]

\* state_ 1: the header lines, then the empty line
RECURSIVE HeaderLoop(_)
HeaderLoop(F) ==
    IF At(F, F.ptr) # "CR"
    THEN LET h == F.ptr
             F1 == SkipToChar(F, "COLON", TRUE)
             F2 == IF F1.found THEN SkipToChar(F1, "CR", FALSE) ELSE F1
             Partial(G) == Return(IF h > 0 \/ ~G.fb THEN Keep(G, h) ELSE G)
             F3 == HandleHeader([F2 EXCEPT !.ptr = @ + 2], h)
         IN CASE F1.ret -> F1
              [] ~F1.found \/ ~F2.found -> Partial(F2)
              [] F2.ptr + 1 = Size(F2) -> Partial([F2 EXCEPT !.ptr = @ + 1])
              [] At(F2, F2.ptr + 1) # "LF" -> Throw(F2)
              [] F3.ptr = Size(F3) -> Return(IF F3.fb THEN [F3 EXCEPT !.buf = <<>>] ELSE F3)
              [] OTHER -> HeaderLoop(F3)
    ELSE LET F1 == [F EXCEPT !.ptr = @ + 2]
         IN CASE F.ptr + 1 = Size(F) -> Return(Keep(F, F.ptr))
              [] At(F, F.ptr + 1) # "LF" -> Throw(F)
              [] F1.rem = 0 -> [F1 EXCEPT !.ev = Append(@, "done"), !.st = 0]
              [] OTHER -> [F1 EXCEPT !.st = 2]

\* the end of the body does not call onDone
BodyStep_noDone(F) ==
    LET n == IF Size(F) - F.ptr < F.rem THEN Size(F) - F.ptr ELSE F.rem
        F1 == [F EXCEPT !.ev = @ \o [i \in 1 .. n |-> "data"], !.ptr = @ + n,
                        !.rem = @ - n]
    IN IF F1.rem = 0 THEN [F1 EXCEPT !.st = 0] ELSE F1

\* state_ 2: the body, remainingBody_ bytes of it
BodyStep(F) ==
    LET n == IF Size(F) - F.ptr < F.rem THEN Size(F) - F.ptr ELSE F.rem
        F1 == [F EXCEPT !.ev = @ \o [i \in 1 .. n |-> "data"], !.ptr = @ + n,
                        !.rem = @ - n]
    IN IF F1.rem = 0 THEN [F1 EXCEPT !.ev = Append(@, "done"), !.st = 0] ELSE F1

\* the while (true) loop of feed()
RECURSIVE ParseLoop(_)
ParseLoop(F) ==
    IF F.ptr = Size(F)
    THEN IF F.fb THEN [F EXCEPT !.buf = <<>>] ELSE F
    ELSE LET F1 == CASE F.st = 0 -> StatusLineStep(F)
                     [] F.st = 1 -> HeaderLoop(F)
                     [] OTHER -> BodyStep(F)
         IN IF F1.ret THEN F1 ELSE ParseLoop(F1)

\* feed(bufferData, bufferSize): append to buffer_ when it holds a partial
\* line, else parse the chunk in place
Feed(chunk) ==
    LET fb == buf # <<>>
        data == IF fb THEN buf \o chunk ELSE chunk
    IN ParseLoop([data |-> data, fb |-> fb, ptr |-> 0, st |-> st,
                  buf |-> IF fb THEN data ELSE buf, rem |-> rem, ev |-> ev,
                  thrown |-> FALSE, ret |-> FALSE, found |-> FALSE])

-----------------------------------------------------------------------------

\* HttpResponseParser(): clear()
Init ==
    /\ pos = 0 /\ st = 0 /\ buf = <<>> /\ rem = 0 /\ ev = <<>>
    /\ thrown = FALSE

\* HttpConnection::onReceivedData: one read() result is fed
Receive ==
    /\ ~thrown
    /\ \E k \in 1 .. MaxChunk :
         /\ pos + k <= Len(Stream)
         /\ ClientReads => \A b \in Boundaries : ~(pos < b /\ b < pos + k)
         /\ LET F == Feed(SubSeq(Stream, pos + 1, pos + k))
            IN /\ pos' = pos + k
               /\ st' = F.st /\ buf' = F.buf /\ rem' = F.rem /\ ev' = F.ev
               /\ thrown' = F.thrown

Next == Receive

Spec == Init /\ [][Next]_vars

-----------------------------------------------------------------------------

\* Whatever the read() boundaries, the callbacks the parser has made are
\* the start of those the responses contain: nothing is reported twice,
\* skipped or invented.
CallbacksFollowStream == IsPrefix(ev, Ref)

\* Once the whole stream has been fed, every response has been reported
\* in full (unless feed() threw).
ParseComplete == pos = Len(Stream) /\ ~thrown => ev = Ref

\* feed() never throws on a well-formed stream, however it is split.
NoParseError == ~thrown

=============================================================================
