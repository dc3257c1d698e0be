------------------------------ MODULE SqsQuery ------------------------------
(***************************************************************************)
(* SqsApi (src/service/sqs.cc 16-389): each method builds the query        *)
(* parameters of one AWS SQS request, sends it with performGet or          *)
(* performPost to the queue's resource, and reads the XML reply.           *)
(*                                                                         *)
(* A query is a sequence of <<key, value>> pairs.  A key such as           *)
(* "Attribute." + to_string(counter) + ".Name" is kept as the record       *)
(* [name |-> "Attribute", n |-> counter, f |-> "Name"] (n = 0 and f = ""   *)
(* for a plain key): the concatenation is injective, so two keys are the   *)
(* same string exactly when the records are equal.  Values are strings;    *)
(* to_string is ToString.  URIs are sequences of path tokens.              *)
(***************************************************************************)
EXTENDS Integers, Sequences, SequencesExt, FiniteSets, Bitwise, TLC

CONSTANTS
    ServiceUri,   \* serviceUri of the API, a non-empty sequence of tokens
    QueueUris,    \* queue URIs the caller passes
    Names,        \* queue names, labels and message bodies
    Handles,      \* receipt handles
    Principals,   \* AWS account ids of addPermission
    RightsIn,     \* values of SqsApi::Rights a RightsPair may hold
    BatchLen,     \* longest vector a batch call passes
    VisBatches,   \* the vectors of VisibilityPair passed to changeMessageVisibilityBatch
    Replies       \* the ReceiveMessageResult a receive may get back

ASSUME ServiceUri # <<>>

\* values of SqsApi::Rights (sqs.h): one bit per right, All the five of them
RightBits == [SendMessage |-> 1, DeleteMessage |-> 2, ChangeMessageVisibility |-> 4,
              GetQueueAttributes |-> 8, GetQueueUrl |-> 16]
AllRights == 31

VARIABLE last   \* the last SqsApi call: its method, arguments and the request it made

Key(name) == [name |-> name, n |-> 0, f |-> ""]
IKey(name, n, f) == [name |-> name, n |-> n, f |-> f]
Prm(k, v) == <<k, v>>
Version == Prm(Key("Version"), "2012-11-05")

\* rightToString: the name of one right, "*" for All
RightToString(r) ==
    IF r = AllRights THEN "*"
    ELSE CHOOSE s \in DOMAIN RightBits : RightBits[s] = r

\* getQueueResource: the queue URI must start with serviceUri; the rest of
\* it is the resource
GetQueueResource(uri) ==
    [ok |-> IsPrefix(ServiceUri, uri), res |-> SubSeq(uri, Len(ServiceUri) + 1, Len(uri))]

\* performGet / performPost of a query on a resource; a resource that
\* getQueueResource refused has thrown before the request is sent
Thrown == [verb |-> "throw", res |-> <<>>, q |-> <<>>]
Request(verb, q, r) == IF r.ok THEN [verb |-> verb, res |-> r.res, q |-> q] ELSE Thrown
Root == [ok |-> TRUE, res |-> <<>>]

NoOut == [ok |-> TRUE, msgs |-> <<>>]
\* the record of a call that was made
Call(op, args, req, out) == [op |-> op, args |-> args, req |-> req, out |-> out]

------------------------------------------------------------------------------
(* createQueue: an attribute pair per parameter that is set, numbered by a *)
(* counter from 1; a policy is refused.                                    *)

CreateQueueAttrs(p) ==
    LET set == <<<<p.delaySeconds > 0, "DelaySeconds", p.delaySeconds>>,
                 <<p.maximumMessageSize > -1, "MaximumMessageSize", p.maximumMessageSize>>,
                 <<p.messageRetentionPeriod > -1, "MessageRetentionPeriod", p.messageRetentionPeriod>>,
                 <<p.receiveMessageWaitTimeSeconds > -1, "ReceiveMessageWaitTimeSeconds",
                   p.receiveMessageWaitTimeSeconds>>,
                 <<p.visibilityTimeout > -1, "VisibilityTimeout", p.visibilityTimeout>>>>
        addAttribute(acc, a) ==
            IF ~a[1] THEN acc
            ELSE [q |-> acc.q \o <<Prm(IKey("Attribute", acc.counter, "Name"), a[2]),
                                  Prm(IKey("Attribute", acc.counter, "Value"), ToString(a[3]))>>,
                  counter |-> acc.counter + 1]
    IN FoldLeft(addAttribute, [q |-> <<>>, counter |-> 1], set).q

QueueParams ==
    [delaySeconds : {0, 1}, maximumMessageSize : {-1, 1}, messageRetentionPeriod : {-1},
     policy : {"", "p"}, receiveMessageWaitTimeSeconds : {-1, 0}, visibilityTimeout : {-1, 0}]

CreateQueue(name, p) ==
    last' = Call("createQueue", [name |-> name, params |-> p],
         IF p.policy # "" THEN Thrown
         ELSE Request("POST", <<Prm(Key("Action"), "CreateQueue"), Prm(Key("QueueName"), name),
                                Version>> \o CreateQueueAttrs(p), Root),
         NoOut)

DeleteQueue(uri) ==
    last' = Call("deleteQueue", [uri |-> uri],
         Request("GET", <<Prm(Key("Action"), "DeleteQueue")>>, GetQueueResource(uri)), NoOut)

GetQueueUrl(name, owner) ==
    last' = Call("getQueueUrl", [name |-> name, owner |-> owner],
         Request("GET", <<Prm(Key("Action"), "GetQueueUrl"), Prm(Key("QueueName"), name), Version>>
                        \o (IF owner # "" THEN <<Prm(Key("QueueOwnerAWSAccountId"), owner)>> ELSE <<>>),
                 Root), NoOut)

\* timeoutSeconds and delaySeconds are accepted and not sent
SendMessage(uri, body, delay) ==
    last' = Call("sendMessage", [uri |-> uri, body |-> body, delay |-> delay],
         Request("POST", <<Prm(Key("Action"), "SendMessage"), Version, Prm(Key("MessageBody"), body)>>,
                 GetQueueResource(uri)), NoOut)

------------------------------------------------------------------------------
(* The reply of a receive: each message is a sequence of Attribute         *)
(* elements <<name, digits>>; extractMessage reads them in order.          *)

Dec(ds) == FoldLeft(LAMBDA a, d : 10 * a + d, 0, ds)
\* Date::fromSecondsSinceEpoch(ms / 1000), kept as whole seconds and milliseconds
MsDate(ds) == <<Dec(ds) \div 1000, Dec(ds) % 1000>>

NoMessage == [ok |-> TRUE, senderId |-> <<>>, firstReceive |-> <<>>, sent |-> <<>>, count |-> <<>>]

\* (mutant) SentTimestamp stored in approximateFirstReceiveTimestamp
ExtractMessage_sentAsFirst(attrs) ==
    LET read(m, a) ==
            IF ~m.ok THEN m
            ELSE CASE a[1] = "SenderId" -> [m EXCEPT !.senderId = a[2]]
                   [] a[1] \in {"ApproximateFirstReceiveTimestamp", "SentTimestamp"} ->
                          [m EXCEPT !.firstReceive = MsDate(a[2])]
                   [] a[1] = "ApproximateReceiveCount" -> [m EXCEPT !.count = <<Dec(a[2])>>]
                   [] OTHER -> [m EXCEPT !.ok = FALSE]
    IN FoldLeft(read, NoMessage, attrs)

ExtractMessage(attrs) ==
    LET read(m, a) ==
            IF ~m.ok THEN m
            ELSE CASE a[1] = "SenderId" -> [m EXCEPT !.senderId = a[2]]
                   [] a[1] = "ApproximateFirstReceiveTimestamp" -> [m EXCEPT !.firstReceive = MsDate(a[2])]
                   [] a[1] = "SentTimestamp" -> [m EXCEPT !.sent = MsDate(a[2])]
                   [] a[1] = "ApproximateReceiveCount" -> [m EXCEPT !.count = <<Dec(a[2])>>]
                   [] OTHER -> [m EXCEPT !.ok = FALSE]
    IN FoldLeft(read, NoMessage, attrs)

\* the messages of a reply; ok is FALSE if extractMessage threw on one
ExtractMessages(reply) ==
    LET ms == [i \in DOMAIN reply |-> ExtractMessage(reply[i])]
    IN [ok |-> \A i \in DOMAIN ms : ms[i].ok, msgs |-> ms]

ReceiveQuery(max, vis, wait) ==
    <<Prm(Key("Action"), "ReceiveMessage"), Version, Prm(IKey("AttributeName", 1, ""), "All"),
      Prm(Key("MaxNumberOfMessages"), ToString(max))>>
    \o (IF vis # -1 THEN <<Prm(Key("VisibilityTimeout"), ToString(vis))>> ELSE <<>>)
    \o (IF wait # -1 THEN <<Prm(Key("WaitTimeSeconds"), ToString(wait))>> ELSE <<>>)

ReceiveMessageBatch(uri, max, vis, wait, reply) ==
    LET req == Request("GET", ReceiveQuery(max, vis, wait), GetQueueResource(uri))
    IN last' = Call("receiveMessageBatch", [uri |-> uri, max |-> max, reply |-> reply], req,
            IF req = Thrown THEN [ok |-> FALSE, msgs |-> <<>>] ELSE ExtractMessages(reply))

\* receiveMessage: a batch of one; the first message, or an empty one
ReceiveMessage(uri, vis, wait, reply) ==
    LET req == Request("GET", ReceiveQuery(1, vis, wait), GetQueueResource(uri))
        ms == IF req = Thrown THEN [ok |-> FALSE, msgs |-> <<>>] ELSE ExtractMessages(reply)
    IN last' = Call("receiveMessage", [uri |-> uri, max |-> 1, reply |-> reply], req,
            [ms EXCEPT !.msgs = IF @ # <<>> THEN <<Head(@)>> ELSE IF ms.ok THEN <<NoMessage>> ELSE <<>>])

------------------------------------------------------------------------------
(* Deletions, visibility changes and permissions.                          *)

DeleteMessage(uri, h) ==
    last' = Call("deleteMessage", [uri |-> uri, handles |-> <<h>>],
         Request("GET", <<Prm(Key("Action"), "DeleteMessage"), Prm(Key("ReceiptHandle"), h), Version>>,
                 GetQueueResource(uri)), NoOut)

DeleteMessageBatch(uri, hs) ==
    LET entry(i) == <<Prm(IKey("DeleteMessageBatchRequestEntry", i, "Id"), "msg" \o ToString(i)),
                      Prm(IKey("DeleteMessageBatchRequestEntry", i, "ReceiptHandle"), hs[i])>>
    IN last' = Call("deleteMessageBatch", [uri |-> uri, handles |-> hs],
            Request("GET", <<Prm(Key("Action"), "DeleteMessageBatch"), Version>>
                           \o FlattenSeq([i \in DOMAIN hs |-> entry(i)]),
                    GetQueueResource(uri)), NoOut)

ChangeMessageVisibility(uri, h, vt) ==
    last' = Call("changeMessageVisibility", [uri |-> uri, pairs |-> <<[receiptHandle |-> h, visibilityTimeout |-> vt]>>],
         Request("GET", <<Prm(Key("Action"), "ChangeMessageVisibility"), Version,
                          Prm(Key("ReceiptHandle"), h), Prm(Key("VisibilityTimeout"), ToString(vt))>>,
                 GetQueueResource(uri)), NoOut)

\* counter is declared 1 and never incremented: every entry is number 1
ChangeMessageVisibilityBatch(uri, ps) ==
    LET counter == 1
        entry(pr) == <<Prm(IKey("ChangeMessageVisibilityBatchRequestEntry", counter, "Id"), pr.receiptHandle),
                       Prm(IKey("ChangeMessageVisibilityBatchRequestEntry", counter, "VisibilityTimeout"),
                           ToString(pr.visibilityTimeout))>>
    IN last' = Call("changeMessageVisibilityBatch", [uri |-> uri, pairs |-> ps],
            Request("GET", <<Prm(Key("Action"), "ChangeMessageVisibilityBatch"), Version>>
                           \o FlattenSeq([i \in DOMAIN ps |-> entry(ps[i])]),
                    GetQueueResource(uri)), NoOut)

\* (mutant) counter++ for every bit tested, not only for the rights granted
PermissionPairs_counterPerBit(rights) ==
    LET grant(acc, p, name) ==
            [acc EXCEPT !.q = @ \o <<Prm(IKey("AWSAccountId", acc.counter, ""), p.principal),
                                     Prm(IKey("ActionName", acc.counter, ""), name)>>,
                        !.counter = @ + 1]
        bit(acc, i) ==
            IF acc.cur # 0 /\ (acc.cur & 2^i) # 0
            THEN [grant(acc, acc.p, RightToString(2^i)) EXCEPT !.cur = acc.cur - 2^i]
            ELSE IF acc.cur # 0 THEN [acc EXCEPT !.counter = @ + 1] ELSE acc
        pair(acc, p) ==
            IF p.rights = AllRights THEN [grant(acc, p, "*") EXCEPT !.p = p]
            ELSE [FoldLeft(bit, [acc EXCEPT !.cur = p.rights, !.p = p], <<0, 1, 2, 3, 4>>)
                    EXCEPT !.cur = 0]
    IN FoldLeft(pair, [q |-> <<>>, counter |-> 1, cur |-> 0, p |-> <<>>], rights).q

\* addPermission: one (AWSAccountId.n, ActionName.n) pair per right of each
\* RightsPair, "*" for All, n counting from 1 across all pairs
PermissionPairs(rights) ==
    LET grant(acc, p, name) ==
            [acc EXCEPT !.q = @ \o <<Prm(IKey("AWSAccountId", acc.counter, ""), p.principal),
                                     Prm(IKey("ActionName", acc.counter, ""), name)>>,
                        !.counter = @ + 1]
        \* the loop over bits 0..4 of currentRights
        bit(acc, i) ==
            IF acc.cur # 0 /\ (acc.cur & 2^i) # 0
            THEN [grant(acc, acc.p, RightToString(2^i)) EXCEPT !.cur = acc.cur - 2^i]
            ELSE acc
        pair(acc, p) ==
            IF p.rights = AllRights THEN [grant(acc, p, "*") EXCEPT !.p = p]
            ELSE [FoldLeft(bit, [acc EXCEPT !.cur = p.rights, !.p = p], <<0, 1, 2, 3, 4>>)
                    EXCEPT !.cur = 0]
    IN FoldLeft(pair, [q |-> <<>>, counter |-> 1, cur |-> 0, p |-> <<>>], rights).q

AddPermission(uri, label, rights) ==
    last' = Call("addPermission", [uri |-> uri, label |-> label, rights |-> rights],
         Request("GET", <<Prm(Key("Action"), "AddPermission"), Version, Prm(Key("Label"), label)>>
                        \o PermissionPairs(rights),
                 GetQueueResource(uri)), NoOut)

RemovePermission(uri, label) ==
    last' = Call("removePermission", [uri |-> uri, label |-> label],
         Request("GET", <<Prm(Key("Action"), "RemovePermission"), Version, Prm(Key("Label"), label)>>,
                 GetQueueResource(uri)), NoOut)
------------------------------------------------------------------------------
(* A caller makes any one call at a time with arguments from the small     *)
(* sets of the configuration.                                              *)

NoReq == [verb |-> "none", res |-> <<>>, q |-> <<>>]
Init == last = [op |-> "none", args |-> <<>>, req |-> NoReq, out |-> NoOut]

Next ==
    \/ \E n \in Names, p \in QueueParams : CreateQueue(n, p)
    \/ \E u \in QueueUris : DeleteQueue(u)
    \/ \E n \in Names, o \in Principals \cup {""} : GetQueueUrl(n, o)
    \/ \E u \in QueueUris, b \in Names, d \in {0, 5} : SendMessage(u, b, d)
    \/ \E u \in QueueUris, max \in 1 .. BatchLen, vis \in {-1, 30}, wait \in {-1, 0} :
          \E r \in {r \in Replies : Len(r) <= max} : ReceiveMessageBatch(u, max, vis, wait, r)
    \/ \E u \in QueueUris, vis \in {-1, 30}, r \in {r \in Replies : Len(r) <= 1} :
          ReceiveMessage(u, vis, -1, r)
    \/ \E u \in QueueUris, h \in Handles : DeleteMessage(u, h)
    \/ \E u \in QueueUris, hs \in BoundedSeq(Handles, BatchLen) : DeleteMessageBatch(u, hs)
    \/ \E u \in QueueUris, h \in Handles, vt \in {0, 30} : ChangeMessageVisibility(u, h, vt)
    \/ \E u \in QueueUris, ps \in VisBatches : ChangeMessageVisibilityBatch(u, ps)
    \/ \E u \in QueueUris, l \in Names,
          rs \in BoundedSeq([principal : Principals, rights : RightsIn], BatchLen) :
          AddPermission(u, l, rs)
    \/ \E u \in QueueUris, l \in Names : RemovePermission(u, l)

Spec == Init /\ [][Next]_last

------------------------------------------------------------------------------
(* The reference: what a request means under the AWS query protocol.  A    *)
(* parameter is given once; the entries of a list parameter Name.n.Field   *)
(* are numbered 1, 2, ... with no gap, and each has every field.           *)

Keys(q) == {q[i][1] : i \in DOMAIN q}
Val(q, k) == q[CHOOSE i \in DOMAIN q : q[i][1] = k][2]
Lists(q) == {k.name : k \in {k \in Keys(q) : k.n # 0}}
Fields(q, name) == {k.f : k \in {k \in Keys(q) : k.name = name}}
Count(q, name) == Cardinality({k.n : k \in {k \in Keys(q) : k.name = name}})

WellNumbered(q) ==
    /\ IsInjective([i \in DOMAIN q |-> q[i][1]])
    /\ \A name \in Lists(q) :
          {k \in Keys(q) : k.name = name}
            = {IKey(name, n, f) : n \in 1 .. Count(q, name), f \in Fields(q, name)}

\* the list entries as a sequence of records of their fields
ListOf(q, name) ==
    [n \in 1 .. Count(q, name) |-> [f \in Fields(q, name) |-> Val(q, IKey(name, n, f))]]

RefAttributes(p) ==
    {a \in {<<"DelaySeconds", p.delaySeconds, 0>>, <<"MaximumMessageSize", p.maximumMessageSize, -1>>,
            <<"MessageRetentionPeriod", p.messageRetentionPeriod, -1>>,
            <<"ReceiveMessageWaitTimeSeconds", p.receiveMessageWaitTimeSeconds, -1>>,
            <<"VisibilityTimeout", p.visibilityTimeout, -1>>} : a[2] # a[3]}

RefGrants(rights) ==
    UNION {IF r.rights = AllRights THEN {<<r.principal, "*">>}
           ELSE {<<r.principal, s>> : s \in {s \in DOMAIN RightBits : (r.rights & RightBits[s]) # 0}}
           : r \in ToSet(rights)}

Denotes(l) ==
    LET q == l.req.q IN
    CASE l.op = "createQueue" ->
            {<<e.Name, e.Value>> : e \in ToSet(ListOf(q, "Attribute"))}
              = {<<a[1], ToString(a[2])>> : a \in RefAttributes(l.args.params)}
      [] l.op = "deleteMessageBatch" ->
            /\ [n \in DOMAIN l.args.handles |-> ListOf(q, "DeleteMessageBatchRequestEntry")[n].ReceiptHandle]
                 = l.args.handles
            /\ Len(ListOf(q, "DeleteMessageBatchRequestEntry")) = Len(l.args.handles)
            /\ IsInjective([n \in DOMAIN l.args.handles |-> ListOf(q, "DeleteMessageBatchRequestEntry")[n].Id])
      [] l.op = "changeMessageVisibilityBatch" ->
            ListOf(q, "ChangeMessageVisibilityBatchRequestEntry")
              = [n \in DOMAIN l.args.pairs |-> [Id |-> l.args.pairs[n].receiptHandle,
                                               VisibilityTimeout |-> ToString(l.args.pairs[n].visibilityTimeout)]]
      [] l.op = "addPermission" ->
            /\ Count(q, "AWSAccountId") = Count(q, "ActionName")
            /\ {<<Val(q, IKey("AWSAccountId", n, "")), Val(q, IKey("ActionName", n, ""))>>
                  : n \in 1 .. Count(q, "AWSAccountId")} = RefGrants(l.args.rights)
      [] l.op \in {"receiveMessage", "receiveMessageBatch"} ->
            ListOf(q, "AttributeName") = <<[f \in {""} |-> "All"]>> /\ Lists(q) = {"AttributeName"}
      [] OTHER -> Lists(q) = {}

\* Every request an SqsApi method sends names each parameter once, numbers
\* the entries of its list parameters (createQueue's attributes, the batch
\* entries, addPermission's grants) 1, 2, ... as the counters of the code
\* must, and lists exactly the attributes, handles or grants the caller
\* passed.
QueryAsReference ==
    last.req.verb \in {"GET", "POST"} => WellNumbered(last.req.q) /\ Denotes(last)

\* the value of the attribute called name in a message of the reply
RefAttr(attrs, name, conv(_)) ==
    LET is == {i \in DOMAIN attrs : attrs[i][1] = name}
    IN IF is = {} THEN <<>> ELSE conv(attrs[CHOOSE i \in is : TRUE][2])

RefMessage(attrs) ==
    [ok |-> TRUE, senderId |-> RefAttr(attrs, "SenderId", LAMBDA v : v),
     firstReceive |-> RefAttr(attrs, "ApproximateFirstReceiveTimestamp", MsDate),
     sent |-> RefAttr(attrs, "SentTimestamp", MsDate),
     count |-> RefAttr(attrs, "ApproximateReceiveCount", LAMBDA v : <<Dec(v)>>)]

\* receiveMessageBatch, and receiveMessage, which takes the first message,
\* return the messages of the reply in order, each with every attribute
\* extractMessage reads from it in the field it belongs to.
ReceiveAsReference ==
    last.op \in {"receiveMessage", "receiveMessageBatch"} /\ last.req.verb = "GET" =>
        LET ref == [i \in DOMAIN last.args.reply |-> RefMessage(last.args.reply[i])]
        IN /\ last.out.ok
           /\ last.out.msgs = IF last.op = "receiveMessageBatch" THEN ref
                              ELSE IF ref = <<>> THEN <<NoMessage>> ELSE <<Head(ref)>>
====
