----------------------------- MODULE MC_SqsQuery -----------------------------
(* Instances of SqsQuery for TLC.                                          *)
EXTENDS SqsQuery

\* a message with a sender and a send time, one with a receive count and
\* the time of its first receipt
MsgA == <<<<"SenderId", <<7>>>>, <<"SentTimestamp", <<1, 2, 3, 4>>>>>>
MsgB == <<<<"ApproximateReceiveCount", <<2>>>>, <<"ApproximateFirstReceiveTimestamp", <<5, 0, 0, 1>>>>>>
MCReplies == {<<>>, <<MsgA>>, <<MsgA, MsgB>>}

\* a message carrying an attribute AWS returns for All on a FIFO queue
MCRepliesFifo == {<<<<<<"MessageGroupId", <<1>>>>>>>>}

MCServiceUri == <<"sqs">>
MCQueueUris == {<<"sqs", "q1">>, <<"other", "q1">>}

\* changeMessageVisibilityBatch with one entry
MCVisBatchesOne == {<<>>} \cup {<<[receiptHandle |-> h, visibilityTimeout |-> 30]>> : h \in {"h1", "h2"}}
\* ... and with two
MCVisBatchesTwo == {<<[receiptHandle |-> "h1", visibilityTimeout |-> 30],
                      [receiptHandle |-> "h2", visibilityTimeout |-> 0]>>}
====
