------------------------------ MODULE MC_Router ------------------------------
(* Route trees and requests for checking Router with TLC.  Paths are over  *)
(* the characters "/", "a" and "1".                                        *)
EXTENDS Router

Str(p) == [type |-> "STRING", path |-> p]
Rx(lit, cls, group) == [type |-> "REGEX", lit |-> lit, cls |-> cls, group |-> group]

GET == <<"GET">>
POST == <<"POST">>
OPTIONS == <<"OPTIONS">>
QueryQ == <<"q", "=", "1">>
HeaderH == <<"header:", "h", "=", "1">>

\* A call whose extractor adds an object of type ty and whose handler first
\* reads the object get names.
CallX(op, parent, path, verbs, on, extract, ty, get) ==
    [op |-> op, parent |-> parent, path |-> path, verbs |-> verbs, on |-> on,
     extract |-> extract, ty |-> ty, get |-> get]

Call(op, parent, path, verbs, on, extract) ==
    CallX(op, parent, path, verbs, on, extract, "A", NoGet)

\* getObjectAs<ty>(idx) and getSharedPtrAs<ty>(idx).
ObjectAs(idx, ty) == [fn |-> "ObjectAs", idx |-> idx, ty |-> ty]
SharedPtrAs(idx, ty) == [fn |-> "SharedPtrAs", idx |-> idx, ty |-> ty]

\* /a         (addSubRouter, addObject<A>)              router 2
\*   /(1+)    GET, terminal, ERROR, reads A at 0        router 3
\*   /a       GET POST, terminal, ASYNC                 router 4
\* /a/1       POST q=1, terminal, YES, reads A at -1    router 5
\* /1         non-terminal router whose handler says NO router 6
\* /[1a]+     GET header:h=1, terminal, THROW,
\*            addSharedPtr<B>                           router 7
\* /1         addSubRouter<T>: T's handler says YES after
\*            getSharedPtrAs<B>(-1); T::getObject adds a
\*            shared_ptr<B>                             router 8
\* /          any verb, terminal, YES, extractor 404    router 9
\* and an addRoute under the terminal router 3, which throws.
\* Router 5 is reached with no object on the context: its read throws.
MCCalls ==
    << Call("sub", 1, Str(<<"/", "a">>), {}, "none", "push"),
       CallX("route", 2, Rx(<<"/">>, {"1"}, TRUE), {GET}, "ERROR", "none", "A",
             ObjectAs(0, "A")),
       Call("route", 2, Str(<<"/", "a">>), {GET, POST}, "ASYNC", "none"),
       CallX("route", 1, Str(<<"/", "a", "/", "1">>), {POST, QueryQ}, "YES", "none",
             "A", ObjectAs(-1, "A")),
       Call("router", 1, Str(<<"/", "1">>), {}, "NO", "none"),
       CallX("route", 1, Rx(<<"/">>, {"1", "a"}, FALSE), {GET, HeaderH}, "THROW",
             "share", "B", NoGet),
       CallX("subT", 1, Str(<<"/", "1">>), {}, "YES", "share", "B",
             SharedPtrAs(-1, "B")),
       Call("route", 1, Str(<<"/">>), {}, "YES", "send404"),
       Call("route", 3, Str(<<"/">>), {GET}, "YES", "none") >>

\* The same tree with no parameter filters.
MCCallsVerbsOnly ==
    [i \in DOMAIN MCCalls |->
        [MCCalls[i] EXCEPT !.verbs = {v \in @ : "=" \notin Range(v)}]]

\* A route filtered on a query parameter only.
MCCallsParamOnly ==
    << Call("route", 1, Str(<<"/", "a">>), {QueryQ}, "YES", "none"),
       Call("route", 1, Str(<<"/">>), {GET}, "YES", "none") >>

\* A handler that sends its response and then throws.
MCCallsSendThrow ==
    << Call("sub", 1, Str(<<"/", "a">>), {}, "none", "none"),
       Call("route", 2, Str(<<"/">>), {GET}, "SENDTHROW", "none") >>

\* A handler of a sub-router reading the object its parent's extractor
\* added, two below the top: getObjectAs<A>(-2).
MCCallsObjIndex ==
    << Call("sub", 1, Str(<<"/", "a">>), {}, "none", "push"),
       CallX("subT", 2, Str(<<"/", "1">>), {}, "YES", "share", "B",
             ObjectAs(-2, "A")) >>

Chars == {"/", "a", "1"}

MCRequests ==
    [verb: {GET, POST, OPTIONS},
     resource: BoundedSeq(Chars, 4),
     params: {{}, {<<<<"q">>, <<"1">>>>}},
     headers: {{}, {<<<<"h">>, <<"1">>>>}}]

MCOptionsRequests == {r \in MCRequests : r.verb = OPTIONS}
=============================================================================
