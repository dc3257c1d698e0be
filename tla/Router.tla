------------------------------- MODULE Router -------------------------------
(***************************************************************************)
(* RestRequestRouter (src/unnamed/part_001, rest_request_router.cc, and   *)
(* src/service/in_process_rest_connection.h, rest_request_router.h):       *)
(* the route tree built by addRoute/addSubRouter, and handleRequest with   *)
(* processRequest, Route::process, matchPath, the StateGuard of the        *)
(* parsing context, and the OPTIONS walk.                                  *)
(*                                                                         *)
(* Strings are sequences of tokens: a path is a sequence of characters     *)
(* from a small alphabet, a verb or filter string a sequence of words      *)
(* (<<"GET">>, <<"q", "=", "1">>, <<"header:", "h", "=", "1">>).  A regex  *)
(* path spec is the form Rx("lit(c+)") or Rx("litc+"): a literal followed  *)
(* by a greedy run of characters of a class, captured or not.  Handlers    *)
(* and extractors are abstracted to what they do to the connection and    *)
(* the match result.                                                       *)
(***************************************************************************)
EXTENDS Naturals, Sequences, SequencesExt

CONSTANTS
    Calls,      \* the addRoute/addSubRouter calls that build the tree
    Requests,   \* the requests served
    MaxFan,     \* at most this many routes under one router
    MaxDepth    \* at most this many routes on one path of the tree

VARIABLES req, out
vars == <<req, out>>

-----------------------------------------------------------------------------
(* Building the tree.                                                       *)

\* RestRequestRouter(): no rootHandler, not terminal, no subRoutes.  A
\* rootHandler is abstracted to the object it reads first (get) and what it
\* returns (on).
NewRouter(on, terminal, get) ==
    [on |-> on, terminal |-> terminal, get |-> get, routes |-> <<>>]

\* A rootHandler that reads no object of the context.
NoGet == [fn |-> "none"]

\* addRoute(path, filter, handler, extractObject): throws on a router with a
\* rootHandler; a throw while building leaves the tree as it was.
AddRoute(tree, parent, route) ==
    IF tree[parent].on # "none" THEN tree
    ELSE [tree EXCEPT ![parent].routes = Append(@, route)]

\* addSubRouter(path, description, extractObject): a route with the default
\* RequestFilter (no verbs) and no check of the parent's rootHandler.
AddSubRouter(tree, parent, route) ==
    [tree EXCEPT ![parent].routes = Append(@, [route EXCEPT !.verbs = {}])]

\* addSubRouter<T>(path, description, args...): a new T built from args
\* becomes the route's router; the route keeps the default filter, and its
\* extractObject is getExtractObject(T *), i.e. T::getObject when T has one.
AddSubRouterT(tree, parent, route, T) ==
    LET t2 == Append(tree, T)
    IN [t2 EXCEPT ![parent].routes = Append(@, [route EXCEPT !.verbs = {}])]

\* One call of the program that sets the router up.  A new router gets the
\* next index.  "route": addRoute with an OnProcessRequest (a terminal
\* router); "router": addRoute with a RestRequestRouter of its own
\* (not terminal); "sub": addSubRouter (no filter, no rootHandler check);
\* "subT": the templated addSubRouter<T>, whose router is a T built with its
\* own rootHandler and whose extractor is T::getObject (c.extract; "none"
\* when T has no getObject and getExtractObject gives nullptr).
ApplyCall(tree, c) ==
    LET child == Len(tree) + 1
        route == [path |-> c.path, verbs |-> c.verbs, router |-> child,
                  extract |-> c.extract, ty |-> c.ty]
    IN CASE c.op = "route" ->
              AddRoute(Append(tree, NewRouter(c.on, TRUE, c.get)), c.parent,
                       route)
         [] c.op = "router" ->
              AddRoute(Append(tree, NewRouter(c.on, FALSE, c.get)), c.parent,
                       route)
         [] c.op = "sub" ->
              AddSubRouter(Append(tree, NewRouter("none", FALSE, NoGet)),
                           c.parent, route)
         [] c.op = "subT" ->
              AddSubRouterT(tree, c.parent, route, NewRouter(c.on, FALSE, c.get))

Tree == FoldLeft(ApplyCall, <<NewRouter("none", FALSE, NoGet)>>, Calls)

-----------------------------------------------------------------------------
(* PathSpec, RequestFilter and the parsing context.                         *)

\* PathSpec::numCapturedElements.
NumCapturedElements(p) ==
    IF p.type = "STRING" THEN 1 ELSE IF p.group THEN 2 ELSE 1

\* Longest run of characters of cls at the start of s (the greedy c+).
RunLength(s, cls) ==
    Max({n \in 0..Len(s) : \A j \in 1..n : s[j] \in cls})

Drop(s, n) == SubSeq(s, n + 1, Len(s))

\* Route::matchPath: a literal must be found at position 0 of remaining; a
\* regex must match from the start.  The matched text, and each captured
\* group, is pushed on resources, and consumed from remaining.
MatchPath(p, ctx) ==
    IF p.type = "STRING"
    THEN IF IsPrefix(p.path, ctx.rem)
         THEN [ok |-> TRUE,
               ctx |-> [ctx EXCEPT !.res = Append(@, p.path),
                                   !.rem = Drop(@, Len(p.path))]]
         ELSE [ok |-> FALSE, ctx |-> ctx]
    ELSE LET n == RunLength(Drop(ctx.rem, Len(p.lit)), p.cls)
             whole == SubSeq(ctx.rem, 1, Len(p.lit) + n)
             group == Drop(whole, Len(p.lit))
         IN IF IsPrefix(p.lit, ctx.rem) /\ n > 0
            THEN [ok |-> TRUE,
                  ctx |-> [ctx EXCEPT
                             !.res = IF p.group THEN @ \o <<whole, group>>
                                                ELSE Append(@, whole),
                             !.rem = Drop(@, Len(whole))]]
            ELSE [ok |-> FALSE, ctx |-> ctx]

\* RequestParamFilter from "key=value" or "header:key=value".
ParseFilter(v) ==
    LET i == SelectInSeq(v, LAMBDA x : x = "=")
        key == SubSeq(v, 1, i - 1)
        value == Drop(v, i)
    IN IF key # <<>> /\ key[1] = "header:"
       THEN [loc |-> "HEADER", key |-> Tail(key), value |-> value]
       ELSE [loc |-> "QUERY", key |-> key, value |-> value]

\* RequestFilter::parseVerbs: every string holding '=' becomes a filter;
\* it ends with `newVerbs = verbs`, so verbs keeps every string.
ParseVerbs(raw) ==
    [verbs |-> raw,
     filters |-> {ParseFilter(v) : v \in {w \in raw : "=" \in Range(w)}}]

\* HttpHeader::tryGetHeader: the value, or "" when the header is absent.
TryGetHeader(r, k) ==
    IF \E h \in r.headers : h[1] = k
    THEN (CHOOSE h \in r.headers : h[1] = k)[2]
    ELSE <<>>

\* The parameter-filter loop of Route::process.
FilterMatches(f, r) ==
    IF f.loc = "QUERY" THEN <<f.key, f.value>> \in r.params
    ELSE TryGetHeader(r, f.key) = f.value

\* RestRequestParsingContext::saveState and restoreState (the StateGuard).
\* The context also counts the objects added and the deleters run (an
\* ObjectEntry's destructor runs its deleter).
SaveState(ctx) ==
    [rem |-> ctx.rem, resLen |-> Len(ctx.res), objsLen |-> Len(ctx.objs)]

\* Mutant: the pop loop runs while objects.size() >= objectsLength, one
\* pop_back too many (on an empty vector it runs a deleter on garbage).
RestoreState_popOneMore(st, ctx) ==
    [ctx EXCEPT !.rem = st.rem, !.res = SubSeq(@, 1, st.resLen),
                !.objs = SubSeq(@, 1, IF st.objsLen > 0 THEN st.objsLen - 1 ELSE 0),
                !.freed = @ + Len(ctx.objs) - st.objsLen + 1]

\* Mutant: restoreState leaves the objects pushed after saveState.
RestoreState_keepObjs(st, ctx) ==
    [ctx EXCEPT !.rem = st.rem, !.res = SubSeq(@, 1, st.resLen)]

\* Mutant: restoreState does not put remaining back.
RestoreState_keepRem(st, ctx) ==
    [ctx EXCEPT !.res = SubSeq(@, 1, st.resLen),
                !.objs = SubSeq(@, 1, st.objsLen),
                !.freed = @ + Len(ctx.objs) - st.objsLen]

\* remaining put back, resources resized, objects pop_back'd (each pop runs
\* the entry's deleter) down to the saved lengths.
RestoreState(st, ctx) ==
    [ctx EXCEPT !.rem = st.rem, !.res = SubSeq(@, 1, st.resLen),
                !.objs = SubSeq(@, 1, st.objsLen),
                !.freed = @ + Len(ctx.objs) - st.objsLen]

\* getObject(index): -1 is the last object; any other index, negative ones
\* included, is taken from the front, and one out of range throws.
\* Indices are 0-based as in the code.  {the entry}, or {} for a throw.
GetObject(objs, idx) ==
    LET i == IF idx = -1 THEN Len(objs) + idx ELSE idx
    IN IF i < 0 \/ i >= Len(objs) THEN {} ELSE {objs[i + 1]}

\* getObjectAs<As>(index) and getSharedPtrAs<As>(index): an object added as
\* an As, or through addSharedPtr as a shared_ptr<As>, is an As; only the
\* latter is a shared_ptr<As>.  The is_convertible fallback is commented
\* out, so any other type throws.
GetObjectAs(objs, g) ==
    {e \in GetObject(objs, g.idx) : e.ty = g.ty /\ (g.fn = "ObjectAs" \/ e.shared)}

-----------------------------------------------------------------------------
(* Serving a request.  A match result is a record of the MatchResult (or   *)
(* "THROW" for an exception on its way up), the parsing context and the    *)
(* connection: the handler calls so far, with the context each saw, the    *)
(* responses sent, and the Allow header of an OPTIONS response.            *)

EmptyConn == [calls |-> <<>>, resps |-> <<>>, allow |-> {}]

Send(conn, code) == [conn EXCEPT !.resps = Append(@, code)]

\* RestConnection::responseSent.
ResponseSent(conn) == conn.resps # <<>>

\* What a handler of each kind returns, and whether it sends a response
\* first: "SENDTHROW" sends and then throws.
HandlerResult ==
    [YES |-> "YES", ERROR |-> "ERROR", ASYNC |-> "ASYNC", NO |-> "NO",
     THROW |-> "THROW", SENDTHROW |-> "THROW"]

\* What a handler sees of the context.
View(ctx) == [rem |-> ctx.rem, res |-> ctx.res, objs |-> ctx.objs]

\* What a rootHandler's read gives: {the object}, {} when it threw.
Read(g, objs) ==
    [fn |-> g.fn, res |-> IF g.fn = "none" THEN {} ELSE GetObjectAs(objs, g)]

\* rootHandler(connection, request, context): it first reads the object
\* its get names (getObjectAs throws when it cannot), then returns.
CallHandler(rid, ctx, conn) ==
    LET R == Tree[rid]
        got == Read(R.get, ctx.objs)
        on == IF R.get.fn # "none" /\ got.res = {} THEN "THROW" ELSE R.on
        c1 == [conn EXCEPT !.calls =
                 Append(@, [rid |-> rid, ctx |-> View(ctx), got |-> got])]
    IN [mr |-> HandlerResult[on], ctx |-> ctx,
        conn |-> IF on \in {"YES", "SENDTHROW"} THEN Send(c1, 200) ELSE c1]

\* The ObjectEntry addObject<T> ("push") or addSharedPtr<T> ("share") adds:
\* its type is T, or shared_ptr<T> with a deleter for the shared_ptr.
Entry(kind, ty) == [ty |-> ty, shared |-> kind = "share"]

\* addObject<T>(obj), or addSharedPtr<T>(ptr): emplace_back an entry.
AddObject(ctx, kind, ty) ==
    [ctx EXCEPT !.objs = Append(@, Entry(kind, ty)), !.added = @ + 1]

\* extractObject: addObject or addSharedPtr pushes an object of the
\* route's type; a check like verifySubject sends a 404; or it throws.
Extract(route, ctx, conn) ==
    [ctx |-> IF route.extract \in {"push", "share"}
             THEN AddObject(ctx, route.extract, route.ty)
             ELSE ctx,
     conn |-> IF route.extract = "send404" THEN Send(conn, 404) ELSE conn,
     thrown |-> route.extract = "throw"]

RECURSIVE ProcessRequest(_, _, _, _), SubRoutes(_, _, _, _, _),
          RouteProcess(_, _, _, _), RouterOptions(_, _, _), RouteOptions(_, _, _),
          RouteOptions_anyRem(_, _, _), RouteProcess_noSentCheck(_, _, _, _)

\* Mutant: the verbs of a route are taken whatever remains of the path.
RouteOptions_anyRem(route, r, ctx) ==
    LET m == MatchPath(route.path, ctx)
    IN IF ~m.ok THEN {}
       ELSE ParseVerbs(route.verbs).verbs \cup RouterOptions(route.router, r, m.ctx)

\* Route::options: under a StateGuard, match the path; a route that
\* consumes all of remaining contributes its filter's verbs; then the
\* child router's options.
RouteOptions(route, r, ctx) ==
    LET m == MatchPath(route.path, ctx)
    IN IF ~m.ok THEN {}
       ELSE (IF m.ctx.rem = <<>> THEN ParseVerbs(route.verbs).verbs ELSE {})
            \cup RouterOptions(route.router, r, m.ctx)

\* RestRequestRouter::options: every sub-route, each from the same context
\* (each Route::options restores it).
RouterOptions(rid, r, ctx) ==
    UNION {RouteOptions(Tree[rid].routes[i], r, ctx) :
               i \in DOMAIN Tree[rid].routes}

\* RestRequestRouter::processRequest.
ProcessRequest(rid, r, ctx, conn) ==
    LET R == Tree[rid]
        allow == RouterOptions(rid, r, ctx)
    IN IF r.verb = <<"OPTIONS">>
       THEN [mr |-> "YES", ctx |-> ctx,
             conn |-> [Send(conn, IF allow = {} THEN 400 ELSE 200)
                         EXCEPT !.allow = allow]]
       ELSE IF R.on # "none" /\ (~R.terminal \/ ctx.rem = <<>>)
       THEN CallHandler(rid, ctx, conn)
       ELSE SubRoutes(rid, 1, r, ctx, conn)

\* The loop over subRoutes: YES, ASYNC and ERROR end it; an exception is
\* caught and answered with a 500; NO tries the next route.
SubRoutes(rid, i, r, ctx, conn) ==
    IF i > Len(Tree[rid].routes) THEN [mr |-> "NO", ctx |-> ctx, conn |-> conn]
    ELSE LET x == RouteProcess(Tree[rid].routes[i], r, ctx, conn)
         IN IF x.mr \in {"YES", "ASYNC", "ERROR"} THEN x
            ELSE IF x.mr = "THROW"
            THEN [mr |-> "YES", ctx |-> x.ctx, conn |-> Send(x.conn, 500)]
            ELSE SubRoutes(rid, i + 1, r, x.ctx, x.conn)

\* Mutant: no responseSent() check after extractObject.
RouteProcess_noSentCheck(route, r, ctx, conn) ==
    LET F == ParseVerbs(route.verbs)
        st == SaveState(ctx)
        m == MatchPath(route.path, ctx)
        x == Extract(route, m.ctx, conn)
        y == ProcessRequest(route.router, r, x.ctx, x.conn)
        no == [mr |-> "NO", ctx |-> ctx, conn |-> conn]
    IN IF F.verbs # {} /\ r.verb \notin F.verbs THEN no
       ELSE IF \E f \in F.filters : ~FilterMatches(f, r) THEN no
       ELSE IF ~m.ok THEN [no EXCEPT !.ctx = RestoreState(st, m.ctx)]
       ELSE IF x.thrown
       THEN [mr |-> "THROW", ctx |-> RestoreState(st, x.ctx), conn |-> x.conn]
       ELSE [mr |-> y.mr, ctx |-> RestoreState(st, y.ctx), conn |-> y.conn]

\* Route::process: verb filter, parameter filters, then under a StateGuard
\* matchPath, extractObject, the responseSent check and the child router.
\* The guard restores the context on every exit, exceptions included.
RouteProcess(route, r, ctx, conn) ==
    LET F == ParseVerbs(route.verbs)
        st == SaveState(ctx)
        m == MatchPath(route.path, ctx)
        x == Extract(route, m.ctx, conn)
        y == ProcessRequest(route.router, r, x.ctx, x.conn)
        no == [mr |-> "NO", ctx |-> ctx, conn |-> conn]
    IN IF F.verbs # {} /\ r.verb \notin F.verbs THEN no
       ELSE IF \E f \in F.filters : ~FilterMatches(f, r) THEN no
       ELSE IF ~m.ok THEN [no EXCEPT !.ctx = RestoreState(st, m.ctx)]
       ELSE IF x.thrown
       THEN [mr |-> "THROW", ctx |-> RestoreState(st, x.ctx), conn |-> x.conn]
       ELSE IF ResponseSent(x.conn)
       THEN [mr |-> "YES", ctx |-> RestoreState(st, x.ctx), conn |-> x.conn]
       ELSE [mr |-> y.mr, ctx |-> RestoreState(st, y.ctx), conn |-> y.conn]

\* A fresh RestRequestParsingContext: remaining is the whole resource.
NewContext(r) ==
    [rem |-> r.resource, res |-> <<>>, objs |-> <<>>, added |-> 0, freed |-> 0]

\* RestRequestRouter::handleRequest: MR_NO is answered with a 404; an
\* exception from a rootHandler of the top router leaves handleRequest.
HandleRequest(r) ==
    LET x == ProcessRequest(1, r, NewContext(r), EmptyConn)
    IN [mr |-> x.mr, ctx |-> x.ctx,
        conn |-> IF x.mr = "NO" THEN Send(x.conn, 404) ELSE x.conn]

\* No request yet: the tree is built and the endpoint is listening.
NoRequest == [verb |-> <<>>, resource |-> <<>>, params |-> {}, headers |-> {}]

Init ==
    /\ req = NoRequest
    /\ out = [mr |-> "none", ctx |-> NewContext(NoRequest), conn |-> EmptyConn]

\* The endpoint hands one request to handleRequest.  handleRequest leaves
\* the router as it was, so a behaviour serves one request and stops; the
\* initial choice of r covers every request.
Serve(r) ==
    /\ req = NoRequest
    /\ req' = r
    /\ out' = HandleRequest(r)

Next == \E r \in Requests : Serve(r)

Spec == Init /\ [][Next]_vars

-----------------------------------------------------------------------------
(* Reference: dispatch as the spec states it, without recursion.  A walk   *)
(* is a sequence of route indices from the top router; each walk is        *)
(* matched from a fresh context.  Walks are tried in the order routes were  *)
(* added (depth first), and the first that a handler or an extractor       *)
(* settles decides the response.                                           *)

\* The spec's filter: strings with '=' are parameter filters, not verbs.
SpecVerbs(raw) == {v \in raw : "=" \notin Range(v)}

\* A router whose rootHandler takes the request instead of its subRoutes.
Takes(R, ctx) == R.on # "none" /\ (~R.terminal \/ ctx.rem = <<>>)

Fail(w) == [w EXCEPT !.ok = FALSE]

WalkStep(r, w, i) ==
    IF ~w.ok \/ w.end # 0 \/ Takes(Tree[w.rid], w.ctx)
       \/ i > Len(Tree[w.rid].routes)
    THEN Fail(w)
    ELSE LET route == Tree[w.rid].routes[i]
             F == ParseVerbs(route.verbs)
             m == MatchPath(route.path, w.ctx)
         IN IF \/ SpecVerbs(route.verbs) # {}
                  /\ r.verb \notin SpecVerbs(route.verbs)
               \/ \E f \in F.filters : ~FilterMatches(f, r)
               \/ ~m.ok
            THEN Fail(w)
            ELSE [ok |-> TRUE, rid |-> route.router,
                  ctx |-> IF route.extract \in {"push", "share"}
                          THEN [m.ctx EXCEPT !.objs =
                                  Append(@, Entry(route.extract, route.ty))]
                          ELSE m.ctx,
                  end |-> CASE route.extract = "send404" -> 404
                            [] route.extract = "throw" -> 500
                            [] OTHER -> 0]

Walk(r, ws) ==
    FoldLeft(LAMBDA w, i : WalkStep(r, w, i),
             [ok |-> TRUE, rid |-> 1, ctx |-> NewContext(r), end |-> 0], ws)

AllWalks == BoundedSeq(1..MaxFan, MaxDepth)

ValidWalks(r) == {ws \in AllWalks : Walk(r, ws).ok}

\* The documented getObject: an index below zero is an offset from the end.
RefRead(g, objs) ==
    LET i == IF g.idx < 0 THEN Len(objs) + g.idx ELSE g.idx
    IN [fn |-> g.fn,
        res |-> IF g.fn = "none" \/ i < 0 \/ i >= Len(objs) THEN {}
                ELSE {e \in {objs[i + 1]} :
                        e.ty = g.ty /\ (g.fn = "ObjectAs" \/ e.shared)}]

\* Every valid walk with where it ends.
Walked(r) == [ws \in ValidWalks(r) |-> Walk(r, ws)]

\* What the handler a walk ends at returns: a read that fails throws.
RefOn(w) ==
    LET R == Tree[w.rid]
    IN IF R.get.fn # "none" /\ RefRead(R.get, w.ctx.objs).res = {}
       THEN "THROW" ELSE R.on

\* Walks that end at a handler, and walks that settle the request.
Calling(W) ==
    {ws \in DOMAIN W : W[ws].end = 0 /\ Takes(Tree[W[ws].rid], W[ws].ctx)}

Deciding(W) ==
    {ws \in DOMAIN W :
        \/ W[ws].end # 0
        \/ ws \in Calling(W) /\ RefOn(W[ws]) # "NO"}

\* Depth-first order of walks.
Before(v, w) ==
    /\ v # w
    /\ \/ IsPrefix(v, w)
       \/ \E k \in 1..Min({Len(v), Len(w)}) :
             SubSeq(v, 1, k - 1) = SubSeq(w, 1, k - 1) /\ v[k] < w[k]

FirstOf(D) == CHOOSE w \in D : \A v \in D \ {w} : Before(w, v)

\* The handler calls the spec expects, in order.
RefCalls(r) ==
    LET W == Walked(r)
        D == Deciding(W)
        called == {w \in Calling(W) : D = {} \/ ~Before(FirstOf(D), w)}
        order == SortSeq(SetToSeq(called), Before)
    IN [k \in DOMAIN order |->
          LET x == W[order[k]]
          IN [rid |-> x.rid, ctx |-> View(x.ctx),
              got |-> RefRead(Tree[x.rid].get, x.ctx.objs)]]

\* The one response the spec expects (none for ASYNC, ERROR, or an
\* exception leaving handleRequest).
RefResps(r) ==
    LET W == Walked(r)
        D == Deciding(W)
    IN IF D = {} THEN <<404>>
       ELSE LET w == FirstOf(D)
                on == RefOn(W[w])
            IN CASE W[w].end # 0 -> <<W[w].end>>
                 [] on \in {"YES", "SENDTHROW"} -> <<200>>
                 [] on = "THROW" /\ w # <<>> -> <<500>>
                 [] OTHER -> <<>>

\* OPTIONS: the verbs of every route whose path, walked from the top with
\* no other check, consumes the whole resource.
PathStep(w, i) ==
    IF ~w.ok \/ i > Len(Tree[w.rid].routes) THEN Fail(w)
    ELSE LET route == Tree[w.rid].routes[i]
             m == MatchPath(route.path, w.ctx)
         IN [ok |-> m.ok, rid |-> route.router, ctx |-> m.ctx,
             verbs |-> SpecVerbs(route.verbs)]

RefAllow(r) ==
    UNION {LET w == FoldLeft(PathStep, [ok |-> TRUE, rid |-> 1,
                                        ctx |-> NewContext(r), verbs |-> {}], ws)
           IN IF w.ok /\ w.ctx.rem = <<>> THEN w.verbs ELSE {} :
             ws \in AllWalks \ {<<>>}}

-----------------------------------------------------------------------------
(* Properties.                                                              *)

MatchResults == {"YES", "NO", "ASYNC", "ERROR", "THROW"}

\* Type invariant; the parsing context handed back by processRequest holds
\* no more objects than one path of the tree can push.
TypeOK ==
    /\ req \in Requests \cup {NoRequest}
    /\ out.mr \in MatchResults \cup {"none"}
    /\ Len(out.ctx.objs) \in 0..MaxDepth
    /\ out.ctx.added \in Nat /\ out.ctx.freed \in 0..out.ctx.added
    /\ out.conn.resps \in Seq({200, 400, 404, 500})

\* handleRequest calls the handlers, with the resources, remaining path and
\* objects, and sends the response, that matching each path of the tree
\* from a fresh context in the order the routes were added gives: every
\* StateGuard of Route::process undoes what a failed branch consumed.
DispatchAsReference ==
    req \notin {NoRequest} /\ req.verb # <<"OPTIONS">> =>
        /\ out.conn.calls = RefCalls(req)
        /\ out.conn.resps = RefResps(req)

\* An OPTIONS request is answered 200 with Allow listing the verbs of the
\* routes that match the whole path (400 when there are none).
AllowAsReference ==
    req \notin {NoRequest} /\ req.verb = <<"OPTIONS">> =>
        /\ out.conn.allow = RefAllow(req)
        /\ out.conn.resps = <<IF RefAllow(req) = {} THEN 400 ELSE 200>>

\* Every object an extractor added (addObject, addSharedPtr) is popped,
\* and its deleter run, by the StateGuard of the Route::process that added
\* it, whatever the route returned or threw: processRequest hands the
\* context back to handleRequest as empty as it was created, with no
\* deleter skipped and none run twice.
ObjectsReleased ==
    out.ctx.objs = <<>> /\ out.ctx.freed = out.ctx.added

\* A request gets at most one response, and exactly one unless it was
\* taken asynchronously (or failed with MR_ERROR or an escaping exception):
\* once responseSent() holds the router dispatches no further.
SingleResponse ==
    /\ Len(out.conn.resps) <= 1
    /\ out.mr \in {"YES", "NO"} => Len(out.conn.resps) = 1

=============================================================================
