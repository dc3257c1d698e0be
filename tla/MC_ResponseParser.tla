-------------------------- MODULE MC_ResponseParser --------------------------
(* Streams for HttpResponseParser.                                         *)
EXTENDS ResponseParser

\* one response with a Content-Length header, another header and a body
MCOne == << [len |-> 1, cl |-> TRUE, extra |-> TRUE] >>

\* a kept-alive connection: a response without a body, then one with a
\* two-byte body
MCTwo == << [len |-> 0, cl |-> FALSE, extra |-> TRUE],
            [len |-> 2, cl |-> TRUE, extra |-> FALSE] >>
\* three responses on one kept-alive connection: with a two-byte body,
\* without headers, with a body and two headers
MCThree == << [len |-> 2, cl |-> TRUE, extra |-> FALSE],
              [len |-> 0, cl |-> FALSE, extra |-> FALSE],
              [len |-> 1, cl |-> TRUE, extra |-> TRUE] >>
=============================================================================
