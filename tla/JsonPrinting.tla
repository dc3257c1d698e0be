---------------------------- MODULE JsonPrinting ----------------------------
(***************************************************************************)
(* The three JSON printing contexts of json_printing.cc (kept in           *)
(* src/service/rest_request_fwd.h): StreamJsonPrintingContext and          *)
(* StringJsonPrintingContext print text as the calls arrive, keeping a     *)
(* path of PathEntry {isObject, memberNum}; StructuredJsonPrintingContext  *)
(* builds a Json::Value through a stack of pointers and a current pointer. *)
(*                                                                         *)
(* One caller drives the three contexts with the same calls, in the order  *)
(* the value descriptions make them: a value where one is expected,        *)
(* startMember before each member value, newArrayElement before each      *)
(* element, endObject/endArray to close.                                   *)
(*                                                                         *)
(* Text is a sequence of tokens: punctuation, literals, numbers, and       *)
(* strings whose characters are kept as printed (escapes included).  A     *)
(* Json::Value is a function from paths (sequences of member names and     *)
(* array indices) to "obj", "arr" or a leaf.                               *)
(***************************************************************************)
EXTENDS Integers, Sequences, SequencesExt, FiniteSets, TLC

CONSTANTS
    Names,      \* member names passed to startMember (printable, distinct)
    Scalars,    \* the write calls a caller may make: [m : method, v : argument]
    MaxDepth,   \* containers open at once
    MaxItems    \* members or elements per container

\* write calls carry their argument as the characters it prints as; the
\* strings of writeString are printable, as ML::jsonEscape is not modelled
ASSUME /\ Scalars \subseteq [m : {"skip", "writeNull", "writeInt", "writeLong", "writeLongLong",
                                  "writeUnsignedInt", "writeUnsignedLong",
                                  "writeUnsignedLongLong", "writeFloat", "writeDouble",
                                  "writeString", "writeStringUtf8", "writeBool", "writeJson"},
                             v : Seq(STRING)]
       /\ \A c \in Scalars : c.m = "writeString" => \A i \in DOMAIN c.v : c.v[i] = "A"
       /\ MaxDepth \in Nat /\ MaxItems \in Nat

\* the write methods, by how the streaming contexts print their argument
SignedWrites   == {"writeInt", "writeLong", "writeLongLong"}
UnsignedWrites == {"writeUnsignedInt", "writeUnsignedLong", "writeUnsignedLongLong"}
FloatWrites    == {"writeFloat", "writeDouble"}
StringWrites   == {"writeString", "writeStringUtf8"}

\* characters of a Utf8String: a printable ASCII character, the two that
\* must be escaped, tab and newline, another control character, DEL and a
\* code point past ASCII
Chars == {"A", "QUOTE", "BSLASH", "TAB", "NL", "CTL", "DEL", "NONASCII"}

VARIABLES
    stream,     \* StreamJsonPrintingContext: path and the text on the stream
    strc,       \* StringJsonPrintingContext: path and str
    structured, \* StructuredJsonPrintingContext: output, path, current
    caller      \* what the caller has opened and what it may call next

vars == <<stream, strc, structured, caller>>

-----------------------------------------------------------------------------
(* Printing a scalar                                                       *)

\* A token of the text, and a Json::Value leaf: a kind and its characters
\* ("punct", "lit" for null/true/false and stray letters, "num" and "dbl"
\* for numbers, "str" for strings, "obj" and "arr" for containers)
Tok(k, v) == [k |-> k, v |-> v]
P(x) == Tok("punct", <<x>>)

\* writeStringUtf8 of both streaming contexts: printable ASCII other than
\* '"' and '\\' as is; tab, newline, '"' and '\\' escaped; anything else
\* (other control characters, DEL, non-ASCII) appended as UTF-8 bytes
EscapeChar(c) ==
    CASE c = "TAB" -> <<"BSLASH", "t">>
      [] c = "NL" -> <<"BSLASH", "n">>
      [] c \in {"QUOTE", "BSLASH"} -> <<"BSLASH", c>>
      [] OTHER -> <<c>>
WriteStringUtf8(s) == Tok("str", FlattenSeq([i \in 1 .. Len(s) |-> EscapeChar(s[i])]))

\* the text of a write call on the stream: operator<< prints integers in
\* decimal and a non-finite double between quotes (dtoa a finite one);
\* ML::jsonEscape (jml) leaves the printable names and strings of the
\* model as they are
StreamWrite(c) ==
    CASE c.m \in {"skip", "writeNull"} -> <<Tok("lit", <<"null">>)>>
      [] c.m \in SignedWrites \cup UnsignedWrites \cup {"writeJson"} -> <<Tok("num", c.v)>>
      [] c.m \in FloatWrites -> <<Tok(IF c.v = <<"finite">> THEN "dbl" ELSE "str", c.v)>>
      [] c.m = "writeString" -> <<Tok("str", c.v)>>
      [] c.m = "writeStringUtf8" -> <<WriteStringUtf8(c.v)>>
      [] c.m = "writeBool" -> <<Tok("lit", c.v)>>

\* the same calls on the string: sprintf("%i"), but "%ui", "%lui" and
\* "%llui" for the unsigned ones, which print the number followed by 'i';
\* std::to_string of a non-finite double between quotes
StringWrite(c) ==
    IF c.m \in UnsignedWrites THEN <<Tok("num", c.v), Tok("lit", <<"i">>)>>
    ELSE StreamWrite(c)

\* the Json::Value a write call assigns to *current
Leaf(c) ==
    CASE c.m \in {"skip", "writeNull"} -> Tok("lit", <<"null">>)
      [] c.m \in StringWrites -> Tok("str", c.v)
      [] c.m = "writeBool" -> Tok("lit", c.v)
      [] c.m \in FloatWrites -> Tok("dbl", c.v)
      [] OTHER -> Tok("num", c.v)

-----------------------------------------------------------------------------
(* StreamJsonPrintingContext and StringJsonPrintingContext: the same code  *)
(* on an ostream and on a std::string.                                     *)

\* PathEntry(isObject): memberNum starts at -1
Entry(isObject) == [isObject |-> isObject, memberNum |-> -1]

\* push a PathEntry and print the opening bracket; pop it and print the
\* closing one
Push(p, isObject, b) == [p EXCEPT !.path = Append(@, Entry(isObject)), !.out = Append(@, P(b))]
Pop(p, b) == [p EXCEPT !.path = Front(@), !.out = Append(@, P(b))]

\* ++memberNum of the innermost entry; a comma unless it is now 0
NextMember(p) ==
    LET n == Last(p.path).memberNum + 1 IN
    [p EXCEPT !.path[Len(p.path)].memberNum = n,
              !.out = IF n # 0 THEN Append(@, P(",")) ELSE @]

StreamStartObject(p) == Push(p, TRUE, "{")

\* startMember(name): the comma, then the escaped name and ':'
StreamStartMember(p, name) ==
    [NextMember(p) EXCEPT !.out = @ \o <<Tok("str", <<name>>), P(":")>>]

StreamEndObject(p) == Pop(p, "}")

StreamStartArray(p) == Push(p, FALSE, "[")

StreamNewArrayElement(p) == NextMember(p)

StreamEndArray(p) == Pop(p, "]")

\* Variants with a plausible bug, each defined before the operator it
\* replaces; the properties are checked to fail with them.

\* the comma is written only from the third member on
StringStartMember_lateComma(p, name) ==
    LET n == Last(p.path).memberNum + 1 IN
    [p EXCEPT !.path[Len(p.path)].memberNum = n,
              !.out = @ \o (IF n > 1 THEN <<P(",")>> ELSE <<>>) \o <<Tok("str", <<name>>), P(":")>>]

\* endObject() without path.pop_back()
StringEndObject_noPop(p) == [p EXCEPT !.out = Append(@, P("}"))]

StringStartObject(p) == Push(p, TRUE, "{")

StringStartMember(p, name) ==
    [NextMember(p) EXCEPT !.out = @ \o <<Tok("str", <<name>>), P(":")>>]

StringEndObject(p) == Pop(p, "}")

StringStartArray(p) == Push(p, FALSE, "[")

StringNewArrayElement(p) == NextMember(p)

StringEndArray(p) == Pop(p, "]")

-----------------------------------------------------------------------------
(* StructuredJsonPrintingContext: current points at the Json::Value the    *)
(* next write assigns; path holds the containers opened.                   *)

\* the members or elements of the value at b
Children(tree, b) == {q \in DOMAIN tree : Len(q) = Len(b) + 1 /\ IsPrefix(b, q)}

\* *current = v: the value at current, and everything under it, replaced
Assign(s, v) ==
    [s EXCEPT !.tree = [q \in {q \in DOMAIN s.tree : ~IsPrefix(s.current, q)} \cup {s.current}
                          |-> IF q = s.current THEN v ELSE s.tree[q]]]

\* startObject(): *current = an empty object, pushed on path
StructuredStartObject(s) == [Assign(s, Tok("obj", <<>>)) EXCEPT !.path = Append(@, s.current)]

\* startMember(name): current = &(*path.back())[name], which adds a null
\* member when there is none of that name
StructuredStartMember(s, name) ==
    LET q == Append(Last(s.path), name) IN
    [s EXCEPT !.current = q,
              !.tree = IF q \in DOMAIN @ THEN @ ELSE @ @@ (q :> Tok("lit", <<"null">>))]

\* endObject(): pop; current is left where it was
StructuredEndObject(s) == [s EXCEPT !.path = Front(@)]

StructuredStartArray(s) == [Assign(s, Tok("arr", <<>>)) EXCEPT !.path = Append(@, s.current)]

\* newArrayElement(): current = &b[b.size()], a null element appended (an
\* index is kept as its decimal string)
StructuredNewArrayElement(s) ==
    LET b == Last(s.path)
        q == Append(b, ToString(Cardinality(Children(s.tree, b))))
    IN [s EXCEPT !.current = q, !.tree = @ @@ (q :> Tok("lit", <<"null">>))]

StructuredEndArray(s) == [s EXCEPT !.path = Front(@)]

-----------------------------------------------------------------------------
(* The calls.  caller.stack holds, per open container, its kind, how many  *)
(* members or elements it has and the member names used; caller.expect is  *)
(* "value" when a value must come next, "more" inside a container between  *)
(* values, "done" once the top-level value is complete.                    *)

\* the value just written completes a member, an element or the document
Written(cl) == [cl EXCEPT !.expect = IF cl.stack = <<>> THEN "done" ELSE "more"]

InOpen(kind) ==
    /\ caller.expect = "more"
    /\ caller.stack # <<>>
    /\ Last(caller.stack).kind = kind

\* startObject() / startArray(), a value where one is expected
Open(kind) ==
    /\ caller.expect = "value"
    /\ Len(caller.stack) < MaxDepth
    /\ caller' = [stack |-> Append(caller.stack, [kind |-> kind, n |-> 0, used |-> {}]),
                  expect |-> "more"]

StartObject ==
    /\ Open("obj")
    /\ stream' = StreamStartObject(stream)
    /\ strc' = StringStartObject(strc)
    /\ structured' = StructuredStartObject(structured)

StartArray ==
    /\ Open("arr")
    /\ stream' = StreamStartArray(stream)
    /\ strc' = StringStartArray(strc)
    /\ structured' = StructuredStartArray(structured)

StartMember(name) ==
    /\ InOpen("obj")
    /\ Last(caller.stack).n < MaxItems
    /\ name \notin Last(caller.stack).used
    /\ stream' = StreamStartMember(stream, name)
    /\ strc' = StringStartMember(strc, name)
    /\ structured' = StructuredStartMember(structured, name)
    /\ caller' = [caller EXCEPT !.stack[Len(caller.stack)].n = @ + 1,
                                !.stack[Len(caller.stack)].used = @ \cup {name},
                                !.expect = "value"]

NewArrayElement ==
    /\ InOpen("arr")
    /\ Last(caller.stack).n < MaxItems
    /\ stream' = StreamNewArrayElement(stream)
    /\ strc' = StringNewArrayElement(strc)
    /\ structured' = StructuredNewArrayElement(structured)
    /\ caller' = [caller EXCEPT !.stack[Len(caller.stack)].n = @ + 1, !.expect = "value"]

\* endObject() / endArray(), once the last member or element is written
Close(kind) ==
    /\ InOpen(kind)
    /\ caller' = Written([caller EXCEPT !.stack = Front(@)])

EndObject ==
    /\ Close("obj")
    /\ stream' = StreamEndObject(stream)
    /\ strc' = StringEndObject(strc)
    /\ structured' = StructuredEndObject(structured)

EndArray ==
    /\ Close("arr")
    /\ stream' = StreamEndArray(stream)
    /\ strc' = StringEndArray(strc)
    /\ structured' = StructuredEndArray(structured)

\* skip(), writeNull(), writeInt() ... writeBool(): a value where one is
\* expected
Write(c) ==
    /\ caller.expect = "value"
    /\ stream' = [stream EXCEPT !.out = @ \o StreamWrite(c)]
    /\ strc' = [strc EXCEPT !.out = @ \o StringWrite(c)]
    /\ structured' = Assign(structured, Leaf(c))
    /\ caller' = Written(caller)

\* the constructors: empty paths, nothing printed, output a null
\* Json::Value with current pointing at it
Init ==
    /\ stream = [path |-> <<>>, out |-> <<>>]
    /\ strc = [path |-> <<>>, out |-> <<>>]
    /\ structured = [tree |-> (<<>> :> Tok("lit", <<"null">>)), path |-> <<>>, current |-> <<>>]
    /\ caller = [stack |-> <<>>, expect |-> "value"]

Next ==
    \/ StartObject
    \/ StartArray
    \/ \E name \in Names : StartMember(name)
    \/ NewArrayElement
    \/ EndObject
    \/ EndArray
    \/ \E c \in Scalars : Write(c)

\* a printing context prints one value: once it is complete no call is
\* made
Spec == Init /\ [][Next]_vars

-----------------------------------------------------------------------------
(* The reference: JSON text (RFC 8259) read back into a value.  A string  *)
(* may not hold a raw '"', '\\' or control character; '\\' starts one of  *)
(* the escapes.                                                            *)

Unescaped == [n |-> "NL", t |-> "TAB", QUOTE |-> "QUOTE", BSLASH |-> "BSLASH"]

\* the characters a string token stands for, or {} when it is not valid
RECURSIVE Unescape(_)
Unescape(cs) ==
    CASE cs = <<>> -> {<<>>}
      [] Head(cs) = "BSLASH" ->
            IF Len(cs) >= 2 /\ cs[2] \in DOMAIN Unescaped
            THEN {<<Unescaped[cs[2]]>> \o r : r \in Unescape(Tail(Tail(cs)))}
            ELSE {}
      [] Head(cs) \in {"QUOTE", "TAB", "NL", "CTL"} -> {}
      [] OTHER -> {<<Head(cs)>> \o r : r \in Unescape(Tail(cs))}

\* a reader of the text: what it expects next, the containers open (their
\* path, kind and how many values they hold), where the next value goes and
\* the value read so far
Reader0 == [ok |-> TRUE, exp |-> "value", open |-> <<>>, at |-> <<>>, tree |-> <<>> :> Tok("lit", <<"null">>)]

Fail(r) == [r EXCEPT !.ok = FALSE]

\* a complete value was read: the document ends, or a ',' or a bracket
\* follows
ValueRead(r) == [r EXCEPT !.exp = IF r.open = <<>> THEN "end" ELSE "sep"]

\* put a value at r.at: a leaf, or an opened container
PutValue(r, t) ==
    LET r1 == [r EXCEPT !.tree = [q \in {q \in DOMAIN r.tree : ~IsPrefix(r.at, q)} \cup {r.at}
                                    |-> IF q = r.at THEN t ELSE r.tree[q]]]
    IN CASE t = P("{") -> [r1 EXCEPT !.tree[r.at] = Tok("obj", <<>>), !.exp = "keyOrClose",
                                    !.open = Append(@, [at |-> r.at, obj |-> TRUE, n |-> 0])]
         [] t = P("[") -> [r1 EXCEPT !.tree[r.at] = Tok("arr", <<>>), !.exp = "valueOrClose",
                                    !.open = Append(@, [at |-> r.at, obj |-> FALSE, n |-> 0]),
                                    !.at = Append(r.at, "0")]
         [] t.k \in {"num", "dbl"} \/ t \in {Tok("lit", <<x>>) : x \in {"null", "true", "false"}} ->
              ValueRead(r1)
         [] t.k = "str" /\ Unescape(t.v) # {} ->
              ValueRead([r1 EXCEPT !.tree[r.at] = Tok("str", CHOOSE u \in Unescape(t.v) : TRUE)])
         [] OTHER -> Fail(r)

\* close the innermost container with t, when it is its bracket
CloseRead(r, t) ==
    IF t = P(IF Last(r.open).obj THEN "}" ELSE "]")
    THEN ValueRead([r EXCEPT !.open = Front(@)]) ELSE Fail(r)

\* a member name: the path of the member's value
KeyRead(r, t) ==
    IF t.k = "str" /\ Unescape(t.v) # {}
    THEN [r EXCEPT !.at = Append(Last(r.open).at, CHOOSE u \in Unescape(t.v) : TRUE),
                   !.exp = "colon"]
    ELSE Fail(r)

\* after a value inside a container: ',' and the next member or element
SepRead(r, t) ==
    LET o == Last(r.open) IN
    IF t = P(",")
    THEN [r EXCEPT !.open[Len(r.open)].n = o.n + 1,
                   !.exp = IF o.obj THEN "key" ELSE "value",
                   !.at = IF o.obj THEN @ ELSE Append(o.at, ToString(o.n + 1))]
    ELSE CloseRead(r, t)

ReadToken(r, t) ==
    CASE ~r.ok -> r
      [] r.exp = "value" -> PutValue(r, t)
      [] r.exp = "valueOrClose" -> IF t = P("]") THEN CloseRead(r, t) ELSE PutValue(r, t)
      [] r.exp = "keyOrClose" -> IF t = P("}") THEN CloseRead(r, t) ELSE KeyRead(r, t)
      [] r.exp = "key" -> KeyRead(r, t)
      [] r.exp = "colon" -> IF t = P(":") THEN [r EXCEPT !.exp = "value"] ELSE Fail(r)
      [] r.exp = "sep" -> SepRead(r, t)
      [] OTHER -> Fail(r)

Read(text) == FoldLeft(ReadToken, Reader0, text)

-----------------------------------------------------------------------------
(* Properties                                                              *)

Tokens == [k : {"punct", "lit", "num", "dbl", "str"}, v : Seq(STRING)]
Paths == Seq(STRING)

TypeOK ==
    /\ \A p \in {stream, strc} :
          /\ p.out \in Seq(Tokens)
          /\ p.path \in Seq([isObject : BOOLEAN, memberNum : -1 .. MaxItems - 1])
          /\ Len(p.path) <= MaxDepth
    /\ structured.path \in Seq(Paths) /\ Len(structured.path) <= MaxDepth
    /\ structured.current \in Paths
    /\ caller.expect \in {"value", "more", "done"}

\* The text the stream and string contexts print reads as JSON at every
\* point (what is printed so far is the start of a JSON text), and once the
\* caller has finished the value it reads back as exactly the Json::Value
\* the structured context built from the same calls: the comma counting of
\* startMember/newArrayElement, the brackets of the path stack, the escapes
\* of writeStringUtf8 and the number formats agree with the pointer walk of
\* StructuredJsonPrintingContext.
PrintsStructured ==
    \A out \in {stream.out, strc.out} :
        LET r == Read(out) IN
        /\ r.ok
        /\ caller.expect = "done" => r.exp = "end" /\ r.tree = structured.tree

====
